------------------------- MODULE BreakpointsProofs -------------------------
(***************************************************************************)
(* Proofs about the breakpoint table, for every set of addresses and every *)
(* capacity: the loop invariants of gdb_find_breakpoint,                   *)
(* gdb_add_breakpoint and gdb_remove_breakpoint.                           *)
(***************************************************************************)
EXTENDS Breakpoints, FiniteSetTheorems, TLAPS

USE AddressAssumption, MaxAssumption

\* An empty table satisfies the invariant, whatever malloc left in the array.
LEMMA InitIInv == Init => IInv
<1> SUFFICES ASSUME Init PROVE IInv
    OBVIOUS
<1>1. TypeOK
    BY DEF Init, TypeOK, Index, Replies
<1>2. Sorted
    BY DEF Init, Sorted, Live, Last, Index
<1>3. SearchWindow /\ ShiftGap
    BY DEF Init, SearchWindow, ShiftGap
<1> QED
    BY <1>1, <1>2, <1>3 DEF IInv

\* Every step of a handler preserves the types: in particular no index leaves
\* the array, neither in the search nor while entries are shifted.
LEMMA StepTypeOK == IInv /\ Next => TypeOK'
<1> SUFFICES ASSUME IInv, Next PROVE TypeOK'
    OBVIOUS
<1> USE DEF IInv, TypeOK
<1>1. CASE Receive
    BY <1>1 DEF Receive, table, search
<1>2. CASE set_breakpoint
    BY <1>2 DEF set_breakpoint, BeginFind, Answer, table, search, Replies
<1>3. CASE remove_breakpoint
    BY <1>3 DEF remove_breakpoint, BeginFind, Answer, table, search, Replies
<1>4. CASE cont_lookup
    BY <1>4 DEF cont_lookup, BeginFind, table
<1>5. CASE gdb_find_breakpoint
    BY <1>5 DEF gdb_find_breakpoint, SearchLeft, SearchRight, Found, middle,
                table, search, SearchWindow, Index
<1>6. CASE AddKnown
    BY <1>6 DEF AddKnown, Answer, table, search, Replies
<1>7. CASE AddBegin
    BY <1>7 DEF AddBegin, ShiftGap, search
<1>8. CASE AddShift
    BY <1>8 DEF AddShift, ShiftUp, ShiftGap, search, Index
<1>9. CASE AddPlace
    BY <1>9 DEF AddPlace, Answer, ShiftGap, search, Index, Replies, Requests,
                address
<1>10. CASE RemoveAbsent
    BY <1>10 DEF RemoveAbsent, Answer, table, search, Replies
<1>11. CASE RemoveBegin
    BY <1>11 DEF RemoveBegin, SearchWindow, search, Index
<1>12. CASE RemoveShift
    BY <1>12 DEF RemoveShift, ShiftDown, ShiftGap, search, Index
<1>13. CASE RemoveDone
    BY <1>13 DEF RemoveDone, Answer, table, search, Replies
<1>14. CASE LookupDone
    BY <1>14 DEF LookupDone, Answer, table, search, Replies
<1> QED
    BY <1>1, <1>2, <1>3, <1>4, <1>5, <1>6, <1>7, <1>8, <1>9, <1>10, <1>11,
       <1>12, <1>13, <1>14 DEF Next, Handler

\* The addresses compared are numbers.
LEMMA Numbers ==
    TypeOK => address \in Nat /\ \A i \in Index : breakpoints[i] \in Nat
BY DEF TypeOK, address, Requests

\* Every step keeps the live entries strictly increasing.
LEMMA StepSorted == IInv /\ Next => Sorted'
<1> SUFFICES ASSUME IInv, Next PROVE Sorted'
    OBVIOUS
<1>0. TypeOK'
    BY StepTypeOK
<1> USE DEF IInv, TypeOK, Sorted, Live, Last, Shifting, Index
<1>1. CASE Receive
    BY <1>1 DEF Receive, table, search
<1>2. CASE set_breakpoint
    BY <1>2 DEF set_breakpoint, BeginFind, Answer, table, search
<1>3. CASE remove_breakpoint
    BY <1>3 DEF remove_breakpoint, BeginFind, Answer, table, search
<1>4. CASE cont_lookup
    BY <1>4 DEF cont_lookup, BeginFind, table
<1>5. CASE gdb_find_breakpoint
    BY <1>5 DEF gdb_find_breakpoint, SearchLeft, SearchRight, Found, middle,
                table, search
<1>6. CASE AddKnown
    BY <1>6 DEF AddKnown, Answer, table, search
<1>7. CASE AddBegin
    BY <1>7, <1>0 DEF AddBegin, ShiftGap, search
<1>8. CASE AddShift
    BY <1>8, <1>0 DEF AddShift, ShiftUp, ShiftGap, search
<1>9. CASE AddPlace
  <2>1. /\ j \in 0 .. breakpoints_number - 1
        /\ address \in Nat
        /\ \A i \in Index : breakpoints[i] \in Nat
        /\ loc = "insert"
    BY <1>9, Numbers DEF AddPlace, ShiftGap
  <2>2. /\ breakpoints' = [breakpoints EXCEPT ![j] = address]
        /\ Live' = 0 .. breakpoints_number - 1
    BY <1>9 DEF AddPlace, Answer
  <2>3. ASSUME NEW i \in 0 .. j - 1 PROVE breakpoints[i] < address
    <3>1. j - 1 \in Live /\ i \in Live
        BY <2>1
    <3>2. breakpoints[j - 1] < address
        BY <2>1, <1>9 DEF AddPlace, ShiftUp, ShiftGap
    <3> QED
        BY <2>1, <3>1, <3>2
  <2>4. ASSUME NEW i \in j + 1 .. breakpoints_number - 1
        PROVE  breakpoints[i] > address
    BY <2>1 DEF ShiftGap
  <2>5. ASSUME NEW p \in 0 .. breakpoints_number - 1,
               NEW q \in 0 .. breakpoints_number - 1, p < q
        PROVE  breakpoints'[p] < breakpoints'[q]
    <3>1. CASE p = j
        BY <3>1, <2>1, <2>2, <2>4, <2>5
    <3>2. CASE q = j
        BY <3>2, <2>1, <2>2, <2>3, <2>5
    <3>3. CASE p # j /\ q # j
        BY <3>3, <2>1, <2>2, <2>5
    <3> QED
        BY <3>1, <3>2, <3>3
  <2> HIDE DEF Live
  <2> QED
    BY <2>1, <2>2, <2>5
<1>10. CASE RemoveAbsent
    BY <1>10 DEF RemoveAbsent, Answer, table, search
<1>11. CASE RemoveBegin
    BY <1>11, <1>0 DEF RemoveBegin, SearchWindow, search
<1>12. CASE RemoveShift
    BY <1>12, <1>0 DEF RemoveShift, ShiftDown, ShiftGap, search
<1>13. CASE RemoveDone
    BY <1>13 DEF RemoveDone, ShiftDown, ShiftGap, Answer, table, search
<1>14. CASE LookupDone
    BY <1>14 DEF LookupDone, Answer, table, search
<1> QED
    BY <1>1, <1>2, <1>3, <1>4, <1>5, <1>6, <1>7, <1>8, <1>9, <1>10, <1>11,
       <1>12, <1>13, <1>14 DEF Next, Handler

\* Every step keeps the window of the search around the address.
LEMMA StepSearchWindow == IInv /\ Next => SearchWindow'
<1> SUFFICES ASSUME IInv, Next PROVE SearchWindow'
    OBVIOUS
<1>0. TypeOK /\ TypeOK'
    BY StepTypeOK DEF IInv
<1> USE DEF SearchWindow
<1>1. CASE BeginFind
    BY <1>1, <1>0 DEF BeginFind, TypeOK, table
<1>4. CASE gdb_find_breakpoint
  <2>1. /\ loc = "find"
        /\ UNCHANGED <<breakpoints, breakpoints_number, request, address>>
        /\ begin \in Nat /\ end \in Nat /\ breakpoints_number \in Nat
        /\ begin <= end /\ end <= breakpoints_number
    BY <1>4, <1>0 DEF gdb_find_breakpoint, TypeOK, IInv, table, address
  <2>2. \A p, q \in 0 .. breakpoints_number - 1 :
            p < q => breakpoints[p] < breakpoints[q]
    BY <2>1 DEF IInv, Sorted, Live, Last, Shifting
  <2>3. begin < end => middle \in begin .. end - 1
    BY <2>1 DEF middle
  <2>4. /\ address \in Nat
        /\ \A i \in 0 .. breakpoints_number - 1 : breakpoints[i] \in Nat
    BY <1>0, Numbers DEF TypeOK, Index
  <2>5. CASE begin < end /\ breakpoints[middle] > address /\ SearchLeft
    <3>1. \A i \in middle .. breakpoints_number - 1 : breakpoints[i] > address
        BY <2>1, <2>2, <2>3, <2>4, <2>5
    <3> QED
        BY <2>1, <2>3, <2>5, <3>1 DEF IInv, SearchLeft
  <2>6. CASE begin < end /\ breakpoints[middle] < address /\ SearchRight
    <3>1. \A i \in 0 .. middle : breakpoints[i] < address
        BY <2>1, <2>2, <2>3, <2>4, <2>6
    <3> QED
        BY <2>1, <2>3, <2>6, <3>1 DEF IInv, SearchRight
  <2>7. CASE begin < end /\ breakpoints[middle] = address /\ Found
    BY <2>1, <2>3, <2>7 DEF Found
  <2>8. CASE ~(begin < end) /\ loc' = "found" /\ UNCHANGED search
    <3>1. position = -1
        BY <1>0, <2>1 DEF IInv
    <3>2. \A i \in 0 .. breakpoints_number - 1 : breakpoints[i] # address
        BY <2>1, <2>4, <2>8 DEF IInv
    <3> QED
        BY <2>1, <2>8, <3>1, <3>2 DEF search
  <2> QED
    BY <1>4, <2>5, <2>6, <2>7, <2>8 DEF gdb_find_breakpoint
<1>5. CASE loc' \notin {"find", "found"}
    BY <1>5
<1> QED
    BY <1>1, <1>4, <1>5
    DEF Next, Handler, Receive, set_breakpoint, remove_breakpoint, cont_lookup,
        AddKnown, AddBegin, AddShift, AddPlace, RemoveAbsent, RemoveBegin,
        RemoveShift, RemoveDone, LookupDone, Answer

\* Every step keeps what the handlers know while they shift the entries.
LEMMA StepShiftGap == IInv /\ Next => ShiftGap'
<1> SUFFICES ASSUME IInv, Next PROVE ShiftGap'
    OBVIOUS
<1>0. TypeOK /\ TypeOK'
    BY StepTypeOK DEF IInv
<1> USE DEF ShiftGap
<1>1. CASE BeginFind /\ request.type = 0
           /\ (request.cmd = "Z" => breakpoints_number < MAX_BREAKPOINTS_NUMBER)
    BY <1>1 DEF BeginFind, table
<1>2. CASE cont_lookup
    BY <1>2 DEF cont_lookup, BeginFind, table
<1>3. CASE gdb_find_breakpoint
    BY <1>3 DEF gdb_find_breakpoint, SearchLeft, SearchRight, Found, table,
                search, IInv
<1>4. CASE AddBegin
    BY <1>4, <1>0 DEF AddBegin, IInv, TypeOK, SearchWindow, address
<1>5. CASE AddShift
  <2>1. /\ loc = "insert" /\ loc' = "insert"
        /\ j \in 1 .. breakpoints_number - 1 /\ j' = j - 1
        /\ UNCHANGED <<breakpoints_number, request, address>>
        /\ breakpoints[j - 1] > address
        /\ breakpoints \in [Index -> Address]
        /\ breakpoints' = [breakpoints EXCEPT ![j] = breakpoints[j - 1]]
        /\ breakpoints_number \in 0 .. MAX_BREAKPOINTS_NUMBER
    BY <1>5, <1>0 DEF AddShift, ShiftUp, IInv, TypeOK, address
  <2>2. \A i \in 0 .. j - 2 : breakpoints'[i] # address
    BY <2>1 DEF IInv, Index
  <2>3. \A i \in j .. breakpoints_number - 1 : breakpoints'[i] > address
    BY <2>1 DEF IInv, Index
  <2> QED
    BY <2>1, <2>2, <2>3 DEF IInv
<1>6. CASE RemoveBegin
  <2>1. /\ loc = "found" /\ loc' = "remove"
        /\ j' = position /\ position \in 0 .. breakpoints_number - 1
        /\ breakpoints[position] = address
        /\ UNCHANGED <<breakpoints, request, address>>
        /\ breakpoints_number' = breakpoints_number - 1
        /\ breakpoints_number \in 1 .. MAX_BREAKPOINTS_NUMBER
        /\ request.cmd = "z" /\ request.type = 0
    BY <1>6, <1>0 DEF RemoveBegin, IInv, TypeOK, SearchWindow, address, Index
  <2>2. Live = 0 .. breakpoints_number - 1
    BY <2>1 DEF Live, Last, Shifting
  <2>3. Live' = Live \ {position}
    BY <2>1, <2>2 DEF Live, Last, Shifting
  <2>4. ASSUME NEW i \in Live \ {position} PROVE breakpoints[i] # address
    <3>1. breakpoints[i] \in Nat /\ address \in Nat
        BY <1>0, <2>1, <2>2, Numbers DEF Index
    <3>2. i < position \/ position < i
        BY <2>1, <2>2
    <3> QED
        BY <2>1, <2>2, <3>1, <3>2 DEF IInv, Sorted
  <2> QED
    BY <2>1, <2>3, <2>4
<1>7. CASE RemoveShift
    BY <1>7, <1>0 DEF RemoveShift, ShiftDown, IInv, TypeOK, Live, Last,
                      Shifting, Index, address
<1>8. CASE loc' \in {"idle", "start"}
    BY <1>8
<1> QED
    BY <1>1, <1>2, <1>3, <1>4, <1>5, <1>6, <1>7, <1>8
    DEF Next, Handler, Receive, set_breakpoint, remove_breakpoint, RoomFor,
        AddKnown, AddPlace, RemoveAbsent, RemoveDone, LookupDone, Answer

\* The loop invariants hold in every reachable state of the table.
THEOREM TableInvariant == Safety => []IInv
<1>1. IInv /\ UNCHANGED vars => IInv'
    BY DEF vars, IInv, TypeOK, Sorted, SearchWindow, ShiftGap, Live, Last,
           Shifting, Index, Requests, Replies, address
<1>2. IInv /\ [Next]_vars => IInv'
    BY <1>1, StepTypeOK, StepSorted, StepSearchWindow, StepShiftGap DEF IInv
<1> QED
    BY InitIInv, <1>2, PTL DEF Safety

\* No index that gdb_find_breakpoint, add_breakpoint or remove_breakpoint reads
\* or writes leaves the array of MAX_BREAKPOINTS_NUMBER entries.
THEOREM TableTypeCorrect == Safety => []TypeOK
<1>1. IInv => TypeOK
    BY DEF IInv
<1> QED BY <1>1, TableInvariant, PTL

\* The live entries are inside the array and strictly increasing after any
\* sequence of Z0, z0 and lookups, and at every iteration of the shifts.
THEOREM TableSorted == Safety => []Sorted
<1>1. IInv => Sorted
    BY DEF IInv
<1> QED BY <1>1, TableInvariant, PTL

\* The dichotomy of gdb_find_breakpoint never excludes the address it looks
\* for, and returns its index exactly when the table holds it.
THEOREM SearchFindsEntry == Safety => []SearchWindow
<1>1. IInv => SearchWindow
    BY DEF IInv
<1> QED BY <1>1, TableInvariant, PTL

\* At every iteration of a shift the vacated entry separates the addresses
\* below the one inserted or removed from those above it, and the array has
\* room for the entry that moves up.
THEOREM ShiftKeepsEntries == Safety => []ShiftGap
<1>1. IInv => ShiftGap
    BY DEF IInv
<1> QED BY <1>1, TableInvariant, PTL

-----------------------------------------------------------------------------
(* Refinement: the table implements the set of BreakpointSet *)

\* Strictly increasing entries are distinct: the set of addresses has as many
\* elements as the table has live entries.
LEMMA LiveCardinality ==
    ASSUME IInv
    PROVE  /\ IsFiniteSet(Live)
           /\ Cardinality({breakpoints[i] : i \in Live}) = Cardinality(Live)
<1> DEFINE S == {breakpoints[i] : i \in Live}
           f == [i \in Live |-> breakpoints[i]]
<1>1. Last \in Int /\ Live \subseteq 0 .. Last /\ Live \subseteq Index
    BY DEF IInv, TypeOK, Sorted, Last, Live
<1>2. IsFiniteSet(0 .. Last)
    BY <1>1, FS_Interval
<1>3. IsFiniteSet(Live)
    BY <1>1, <1>2, FS_Subset
<1>4. ASSUME NEW p \in Live, NEW q \in Live, breakpoints[p] = breakpoints[q]
      PROVE  p = q
  <2>1. p \in Int /\ q \in Int /\ breakpoints[p] \in Nat
    BY <1>1, Numbers DEF IInv, Index
  <2>2. ~(p < q) /\ ~(q < p)
    BY <1>4, <2>1 DEF IInv, Sorted
  <2> QED
    BY <2>1, <2>2
<1>5. f \in Bijection(Live, S)
    BY <1>4 DEF Bijection, Injection, Surjection, IsInjective
<1>6. ExistsBijection(Live, S)
    BY <1>5 DEF ExistsBijection
<1> QED
    BY <1>3, <1>6, FS_Bijection

\* Between two requests, and until an entry is touched, the set has
\* breakpoints_number elements.
LEMMA QuietContents ==
    ASSUME IInv, ~Shifting
    PROVE  /\ Live = 0 .. breakpoints_number - 1
           /\ Contents = {breakpoints[i] : i \in Live}
           /\ Cardinality(Contents) = breakpoints_number
<1>1. /\ Live = 0 .. breakpoints_number - 1
      /\ Contents = {breakpoints[i] : i \in Live}
      /\ breakpoints_number \in Nat
    BY DEF IInv, TypeOK, Live, Last, Shifting, Contents
<1>2. Cardinality(Live) = breakpoints_number
    BY <1>1, FS_Interval
<1> QED
    BY <1>1, <1>2, LiveCardinality

\* While an entry is being inserted the set has one element less.
LEMMA InsertContents ==
    ASSUME IInv, loc = "insert"
    PROVE  /\ Live = (0 .. breakpoints_number - 1) \ {j}
           /\ j \in 0 .. breakpoints_number - 1
           /\ Contents = {breakpoints[i] : i \in Live}
           /\ Cardinality(Contents) = breakpoints_number - 1
<1>1. /\ Live = (0 .. breakpoints_number - 1) \ {j}
      /\ Contents = {breakpoints[i] : i \in Live}
      /\ breakpoints_number \in Nat
      /\ j \in 0 .. breakpoints_number - 1
    BY DEF IInv, TypeOK, ShiftGap, Live, Last, Shifting, Contents
<1>2. /\ IsFiniteSet(0 .. breakpoints_number - 1)
      /\ Cardinality(0 .. breakpoints_number - 1) = breakpoints_number
    BY <1>1, FS_Interval
<1>3. Cardinality((0 .. breakpoints_number - 1) \ {j}) = breakpoints_number - 1
  <2> DEFINE S == 0 .. breakpoints_number - 1
  <2>1. IsFiniteSet(S) /\ j \in S /\ Cardinality(S) = breakpoints_number
    BY <1>1, <1>2
  <2> HIDE DEF S
  <2>2. Cardinality(S \ {j}) = Cardinality(S) - 1
    BY <2>1, FS_RemoveElement
  <2> QED
    BY <2>1, <2>2 DEF S
<1> QED
    BY <1>1, <1>3, LiveCardinality

\* The steps that move entries, or only search, leave the set as it is.
LEMMA InternalSteps ==
    ASSUME IInv, IInv',
           \/ gdb_find_breakpoint \/ AddBegin \/ AddShift
           \/ RemoveBegin \/ RemoveShift
    PROVE  /\ Contents' = Contents
           /\ loc # "idle" /\ loc' # "idle"
           /\ UNCHANGED <<request, reply>>
<1>1. CASE gdb_find_breakpoint
    BY <1>1 DEF gdb_find_breakpoint, SearchLeft, SearchRight, Found, Contents,
                Live, Last, Shifting, table, search
<1>2. CASE AddBegin
  <2>1. ~Shifting /\ loc' = "insert" /\ breakpoints_number \in Nat
    BY <1>2 DEF AddBegin, Shifting, IInv, TypeOK
  <2>2. Live' = Live
    BY <1>2, <2>1, QuietContents DEF AddBegin, Live, Last, Shifting
  <2> QED
    BY <1>2, <2>1, <2>2 DEF AddBegin, Contents, Shifting
<1>3. CASE AddShift
  <2>1. /\ loc = "insert" /\ loc' = "insert"
        /\ breakpoints_number' = breakpoints_number
        /\ j' = j - 1 /\ j > 0
        /\ UNCHANGED <<request, reply>>
    BY <1>3 DEF AddShift, ShiftUp
  <2>2. /\ breakpoints \in [Index -> Address]
        /\ j \in 0 .. breakpoints_number - 1
        /\ breakpoints_number \in 0 .. MAX_BREAKPOINTS_NUMBER
    BY <2>1, InsertContents DEF IInv, TypeOK
  <2>3. /\ Live = (0 .. breakpoints_number - 1) \ {j}
        /\ Live' = (0 .. breakpoints_number - 1) \ {j - 1}
    BY <2>1, <2>2 DEF Live, Last, Shifting
  <2>4. /\ breakpoints'[j] = breakpoints[j - 1]
        /\ \A i \in Index \ {j} : breakpoints'[i] = breakpoints[i]
    BY <1>3, <2>2 DEF AddShift, Index
  <2>5. {breakpoints'[i] : i \in Live'} = {breakpoints[i] : i \in Live}
    <3>1. j \in Live' /\ j - 1 \in Live
        BY <2>1, <2>2, <2>3
    <3>2. \A i \in Live : i # j - 1 => i \in Live' /\ breakpoints'[i] = breakpoints[i]
        BY <2>2, <2>3, <2>4 DEF Index
    <3>3. \A i \in Live' : i # j => i \in Live /\ breakpoints'[i] = breakpoints[i]
        BY <2>2, <2>3, <2>4 DEF Index
    <3> QED
        BY <2>4, <3>1, <3>2, <3>3
  <2> QED
    BY <2>1, <2>5 DEF Contents
<1>4. CASE RemoveBegin
  <2>1. /\ loc = "found" /\ loc' = "remove" /\ j' = position
        /\ breakpoints' = breakpoints
        /\ breakpoints_number' = breakpoints_number - 1
        /\ UNCHANGED <<request, reply, address>>
        /\ position \in 0 .. breakpoints_number - 1
        /\ breakpoints[position] = address
    BY <1>4 DEF RemoveBegin, IInv, TypeOK, Index, SearchWindow, address
  <2>2. Live = 0 .. breakpoints_number - 1 /\ Live' = Live \ {position}
    BY <2>1 DEF Live, Last, Shifting, IInv, TypeOK
  <2>3. Contents = {breakpoints[i] : i \in Live}
    BY <2>1 DEF Contents
  <2>4. Contents' = {breakpoints[i] : i \in Live \ {position}} \union {address}
    BY <2>1, <2>2 DEF Contents
  <2>5. position \in Live
    BY <2>1, <2>2
  <2>6. Contents' = Contents
    BY <2>1, <2>3, <2>4, <2>5
  <2> QED
    BY <2>1, <2>6
<1>5. CASE RemoveShift
  <2>1. /\ loc = "remove" /\ loc' = "remove"
        /\ breakpoints_number' = breakpoints_number
        /\ j' = j + 1 /\ j < breakpoints_number
        /\ UNCHANGED <<request, reply, address>>
    BY <1>5 DEF RemoveShift, ShiftDown, address
  <2>2. /\ breakpoints \in [Index -> Address]
        /\ j \in 0 .. breakpoints_number - 1
        /\ breakpoints_number \in 0 .. MAX_BREAKPOINTS_NUMBER - 1
    BY <2>1 DEF IInv, TypeOK, ShiftGap
  <2>3. /\ Live = (0 .. breakpoints_number) \ {j}
        /\ Live' = (0 .. breakpoints_number) \ {j + 1}
    BY <2>1, <2>2 DEF Live, Last, Shifting
  <2>4. /\ breakpoints'[j] = breakpoints[j + 1]
        /\ \A i \in Index \ {j} : breakpoints'[i] = breakpoints[i]
    BY <1>5, <2>2 DEF RemoveShift, Index
  <2>5. {breakpoints'[i] : i \in Live'} = {breakpoints[i] : i \in Live}
    <3>1. j \in Live' /\ j + 1 \in Live
        BY <2>1, <2>2, <2>3
    <3>2. \A i \in Live : i # j + 1 => i \in Live' /\ breakpoints'[i] = breakpoints[i]
        BY <2>2, <2>3, <2>4 DEF Index
    <3>3. \A i \in Live' : i # j => i \in Live /\ breakpoints'[i] = breakpoints[i]
        BY <2>2, <2>3, <2>4 DEF Index
    <3> QED
        BY <2>4, <3>1, <3>2, <3>3
  <2> QED
    BY <2>1, <2>5 DEF Contents
<1> QED
    BY <1>1, <1>2, <1>3, <1>4, <1>5

\* A step that answers without touching the table leaves the set as it is.
LEMMA QuietStep ==
    ASSUME IInv, ~Shifting, loc' \notin {"insert", "remove"},
           UNCHANGED <<breakpoints, breakpoints_number>>
    PROVE  Contents' = Contents
BY DEF Contents, Live, Last, Shifting

\* Placing the new entry adds its address to the set.
LEMMA PlaceContents ==
    ASSUME IInv, AddPlace
    PROVE  Contents' = Contents \union {address}
<1>1. /\ loc = "insert" /\ loc' = "idle"
      /\ breakpoints_number' = breakpoints_number
    BY DEF AddPlace, Answer
<1>2. /\ breakpoints \in [Index -> Address]
      /\ j \in 0 .. breakpoints_number - 1
      /\ breakpoints_number \in 0 .. MAX_BREAKPOINTS_NUMBER
      /\ Live = (0 .. breakpoints_number - 1) \ {j}
      /\ Contents = {breakpoints[i] : i \in Live}
    BY <1>1, InsertContents DEF IInv, TypeOK
<1>3. Live' = Live \union {j}
    BY <1>1, <1>2 DEF Live, Last, Shifting
<1>4. /\ breakpoints'[j] = address
      /\ \A i \in Live : breakpoints'[i] = breakpoints[i]
    BY <1>2 DEF AddPlace, Index
<1>5. Contents' = {breakpoints'[i] : i \in Live'}
    BY <1>1 DEF Contents
<1> QED
    BY <1>2, <1>3, <1>4, <1>5

\* The end of a removal takes its address out of the set.
LEMMA DoneContents ==
    ASSUME IInv, RemoveDone
    PROVE  address \in Contents /\ Contents' = Contents \ {address}
<1>1. /\ loc = "remove" /\ loc' = "idle" /\ j = breakpoints_number
      /\ UNCHANGED <<breakpoints, breakpoints_number>>
    BY DEF RemoveDone, ShiftDown, Answer, table, IInv, TypeOK, ShiftGap
<1>2. Live' = Live
    BY <1>1 DEF Live, Last, Shifting, IInv, TypeOK
<1>3. /\ Contents = {breakpoints[i] : i \in Live} \union {address}
      /\ Contents' = {breakpoints[i] : i \in Live}
    BY <1>1, <1>2 DEF Contents
<1>4. \A i \in Live : breakpoints[i] # address
    BY <1>1 DEF IInv, ShiftGap
<1> QED
    BY <1>3, <1>4

\* The cardinality the abstract module reads from its own FiniteSets.
LEMMA SameCardinality == Abstract!Cardinality(Contents) = Cardinality(Contents)
BY Zenon DEF Abstract!Cardinality, Cardinality, Abstract!IsFiniteSet, IsFiniteSet

\* Every step of a handler is a step of the abstract set, or none.
LEMMA StepImplements ==
    ASSUME IInv, IInv', [Next]_vars
    PROVE  [Abstract!Next]_(Abstract!vars)
<1> USE DEF Abstract!vars
<1>1. CASE Receive
  <2>1. Contents' = Contents
    BY <1>1, QuietStep DEF Receive, Shifting, table
  <2> QED
    BY <1>1, <2>1 DEF Receive, Abstract!Next, Abstract!Accept, Requests,
                      Abstract!Requests
<1>2. CASE set_breakpoint
  <2>1. /\ Contents' = Contents
        /\ Cardinality(Contents) = breakpoints_number
        /\ breakpoints_number \in 0 .. MAX_BREAKPOINTS_NUMBER
    BY <1>2, QuietStep, QuietContents
    DEF set_breakpoint, BeginFind, Answer, Shifting, table, IInv, TypeOK
  <2> QED
    BY <1>2, <2>1, SameCardinality
    DEF set_breakpoint, BeginFind, Answer, RoomFor, Abstract!Next,
        Abstract!Unsupported, Abstract!Full, Abstract!Answer
<1>3. CASE remove_breakpoint
  <2>1. Contents' = Contents
    BY <1>3, QuietStep
    DEF remove_breakpoint, BeginFind, Answer, Shifting, table
  <2> QED
    BY <1>3, <2>1
    DEF remove_breakpoint, BeginFind, Answer, Abstract!Next,
        Abstract!Unsupported, Abstract!Answer
<1>4. CASE cont_lookup
  <2>1. Contents' = Contents
    BY <1>4, QuietStep DEF cont_lookup, BeginFind, Shifting, table
  <2> QED
    BY <1>4, <2>1 DEF cont_lookup, BeginFind
<1>5. CASE \/ gdb_find_breakpoint \/ AddBegin \/ AddShift
           \/ RemoveBegin \/ RemoveShift
    BY <1>5, InternalSteps
<1>6. CASE loc = "found" /\ (AddKnown \/ RemoveAbsent \/ LookupDone)
  <2>1. /\ Contents' = Contents
        /\ Contents = {breakpoints[i] : i \in 0 .. breakpoints_number - 1}
        /\ Cardinality(Contents) = breakpoints_number
    BY <1>6, QuietStep, QuietContents
    DEF AddKnown, RemoveAbsent, LookupDone, Answer, Shifting, table
  <2>2. position = -1 <=> address \notin Contents
    BY <1>6, <2>1 DEF IInv, TypeOK, Index, SearchWindow
  <2>3. /\ request.cmd = "Z" => breakpoints_number < MAX_BREAKPOINTS_NUMBER
        /\ request.cmd # "lookup" => request.type = 0
    BY <1>6 DEF IInv, ShiftGap
  <2> QED
    BY <1>6, <2>1, <2>2, <2>3, SameCardinality
    DEF AddKnown, RemoveAbsent, LookupDone, Answer, address, Abstract!Next,
        Abstract!Insert, Abstract!Absent, Abstract!Lookup, Abstract!Answer
<1>7. CASE AddPlace
  <2>1. Cardinality(Contents) < MAX_BREAKPOINTS_NUMBER
    BY <1>7, InsertContents DEF AddPlace, IInv, TypeOK
  <2>2. request.cmd = "Z" /\ request.type = 0
    BY <1>7 DEF AddPlace, IInv, ShiftGap
  <2> QED
    BY <1>7, <2>1, <2>2, PlaceContents, SameCardinality
    DEF AddPlace, Answer, address, Abstract!Next, Abstract!Insert,
        Abstract!Answer
<1>8. CASE RemoveDone
  <2>1. request.cmd = "z" /\ request.type = 0
    BY <1>8 DEF RemoveDone, IInv, ShiftGap
  <2> QED
    BY <1>8, <2>1, DoneContents
    DEF RemoveDone, Answer, address, Abstract!Next, Abstract!Delete,
        Abstract!Answer
<1>9. CASE UNCHANGED vars
    BY <1>9 DEF vars, Contents, Live, Last, Shifting, address
<1> QED
    BY <1>1, <1>2, <1>3, <1>4, <1>5, <1>6, <1>7, <1>8, <1>9
    DEF Next, Handler, AddKnown, RemoveAbsent, LookupDone

\* The sorted table, searched by dichotomy and shifted entry by entry,
\* implements a set of addresses of bounded size, for every capacity.
THEOREM TableImplementsSet == Safety => ImplementsSet
<1>1. Init => Abstract!Init
    BY DEF Init, Abstract!Init, Contents, Live, Last, Shifting, Requests,
           Abstract!Requests
<1>2. IInv /\ IInv' /\ [Next]_vars => [Abstract!Next]_(Abstract!vars)
    BY StepImplements
<1> QED
    BY <1>1, <1>2, TableInvariant, PTL DEF Safety, ImplementsSet, Abstract!Spec

-----------------------------------------------------------------------------
(* The loops end *)

\* what is left to do for a request: the window of the search, then the entries
\* to shift, of which there are no more than the table has
Work ==
    LET n == MAX_BREAKPOINTS_NUMBER
    IN  CASE loc = "idle" -> 0
          [] loc = "start" -> 2 * n + 4
          [] loc = "find" -> n + 3 + (end - begin)
          [] loc = "found" -> n + 2
          [] loc = "insert" -> 1 + j
          [] loc = "remove" -> 1 + (breakpoints_number - j)

LEMMA WorkIsNatural ==
    ASSUME IInv
    PROVE  Work \in Nat /\ (Work = 0 => loc = "idle")
BY MaxAssumption DEF IInv, TypeOK, SearchWindow, ShiftGap, Work

LEMMA StepWorks ==
    ASSUME IInv, Next, loc # "idle"
    PROVE  Work' < Work
<1>1. /\ breakpoints_number \in Nat /\ breakpoints_number <= MAX_BREAKPOINTS_NUMBER
      /\ begin \in Nat /\ end \in Nat /\ j \in Nat /\ MAX_BREAKPOINTS_NUMBER \in Nat
  BY MaxAssumption DEF IInv, TypeOK
<1>2. CASE loc = "start"
  <2>1. loc' = "idle" \/ BeginFind
    BY <1>2 DEF Next, Receive, Handler, set_breakpoint, remove_breakpoint, cont_lookup,
            gdb_find_breakpoint, AddKnown, AddBegin, AddShift, AddPlace, RemoveAbsent,
            RemoveBegin, RemoveShift, RemoveDone, LookupDone, Answer
  <2> QED BY <1>1, <1>2, <2>1 DEF BeginFind, Work
<1>3. CASE loc = "find"
  <2>1. gdb_find_breakpoint
    BY <1>3 DEF Next, Receive, Handler, set_breakpoint, remove_breakpoint, cont_lookup,
            AddKnown, AddBegin, AddShift, AddPlace, RemoveAbsent,
            RemoveBegin, RemoveShift, RemoveDone, LookupDone
  <2>2. begin <= end
    BY <1>3 DEF IInv, SearchWindow
  <2>3. CASE loc' = "found"
    BY <1>1, <1>3, <2>2, <2>3 DEF Work
  <2>4. CASE loc' # "found"
    <3>1. begin < end /\ loc' = "find" /\ (SearchLeft \/ SearchRight)
      BY <1>3, <2>1, <2>4 DEF gdb_find_breakpoint, SearchLeft, SearchRight, Found
    <3>2. middle \in Nat /\ begin <= middle /\ middle < end
      BY <1>1, <3>1 DEF middle
    <3>3. end' - begin' < end - begin /\ end' \in Int /\ begin' \in Int
      BY <1>1, <3>1, <3>2 DEF SearchLeft, SearchRight
    <3> QED BY <1>1, <1>3, <3>1, <3>3 DEF Work
  <2> QED BY <2>3, <2>4
<1>4. CASE loc = "found"
  <2>1. \/ loc' = "idle" \/ AddBegin \/ RemoveBegin
    BY <1>4 DEF Next, Receive, Handler, set_breakpoint, remove_breakpoint, cont_lookup,
            gdb_find_breakpoint, AddKnown, AddShift, AddPlace, RemoveAbsent,
            RemoveShift, RemoveDone, LookupDone, Answer
  <2>2. position \in Index \union {-1}
    BY DEF IInv, TypeOK
  <2> QED BY <1>1, <1>4, <2>1, <2>2 DEF AddBegin, RemoveBegin, Work, Index
<1>5. CASE loc = "insert"
  <2>1. loc' = "idle" \/ (AddShift /\ loc' = "insert")
    BY <1>5 DEF Next, Receive, Handler, set_breakpoint, remove_breakpoint, cont_lookup,
            gdb_find_breakpoint, AddKnown, AddBegin, AddShift, AddPlace, RemoveAbsent,
            RemoveBegin, RemoveShift, RemoveDone, LookupDone, Answer
  <2> QED BY <1>1, <1>5, <2>1 DEF AddShift, Work
<1>6. CASE loc = "remove"
  <2>1. loc' = "idle" \/ (RemoveShift /\ loc' = "remove")
    BY <1>6 DEF Next, Receive, Handler, set_breakpoint, remove_breakpoint, cont_lookup,
            gdb_find_breakpoint, AddKnown, AddBegin, AddShift, AddPlace, RemoveAbsent,
            RemoveBegin, RemoveShift, RemoveDone, LookupDone, Answer
  <2>2. j <= breakpoints_number
    BY <1>6 DEF IInv, ShiftGap
  <2> QED BY <1>1, <1>6, <2>1, <2>2 DEF RemoveShift, Work
<1> QED BY <1>2, <1>3, <1>4, <1>5, <1>6 DEF IInv, TypeOK

\* No request keeps the handler busy for ever: every iteration of the dichotomy
\* and of the shifting loops, and every step between them, brings it nearer to
\* its answer, by at least one of at most twice the size of the table plus four.
THEOREM HandlerTerminates ==
    Safety => /\ [](Work \in 0 .. 2 * MAX_BREAKPOINTS_NUMBER + 4)
              /\ [][loc # "idle" => Work' < Work]_vars
<1>1. IInv => Work \in 0 .. 2 * MAX_BREAKPOINTS_NUMBER + 4
  <2> SUFFICES ASSUME IInv
               PROVE  Work \in 0 .. 2 * MAX_BREAKPOINTS_NUMBER + 4
    OBVIOUS
  <2>1. Work \in Nat
    BY WorkIsNatural
  <2>2. Work <= 2 * MAX_BREAKPOINTS_NUMBER + 4
    BY MaxAssumption DEF IInv, TypeOK, Work
  <2> QED BY <2>1, <2>2, MaxAssumption
<1>2. IInv /\ [Next]_vars => [loc # "idle" => Work' < Work]_vars
  BY StepWorks
<1> QED BY <1>1, <1>2, TableInvariant, PTL DEF Safety
=============================================================================
