-------------------------- MODULE UdsClientProofs ---------------------------
(***************************************************************************)
(* The test client, for tables, files and texts of any length and any      *)
(* number of stops found.                                                  *)
(*                                                                         *)
(* First find_stops_by_name_substring: its two passes agree because each   *)
(* has dealt with the same part of the table, Below(i), when it has come   *)
(* to row i.  Then read_api_key_from_file: where the trimming stops, and   *)
(* what a write in the middle of the reading can do.  Then main: in its    *)
(* loop count is the number of stops wanted, i of them are reported, and   *)
(* the query under way is for the next.                                    *)
(***************************************************************************)
EXTENDS UdsClient, FiniteSetTheorems, SequenceTheorems, WellFoundedInduction, TLAPS

(* The search has the table of the rest of the program. *)
LEMMA SameTable ==
    /\ Search!BKK_STOP_COUNT = BKK_STOP_COUNT
    /\ Search!Indices = Indices
    /\ Search!Stop = Stop
    /\ \A n : Search!StopAt(n) = StopAt(n)
  BY DEF Search!BKK_STOP_COUNT, BKK_STOP_COUNT, Search!Indices, Indices, Search!Stop, Stop,
         Search!StopAt, StopAt

LEMMA RowType ==
    /\ Search!BKK_STOP_COUNT \in Nat \ {0}
    /\ Search!Indices = 0 .. Search!BKK_STOP_COUNT - 1
    /\ Search!Indices \subseteq Nat
    /\ \A n \in Search!Indices : Search!StopAt(n) \in Stop
    /\ \A m, n \in Search!Indices : Search!StopAt(m).id = Search!StopAt(n).id => m = n
  BY StopListAssumption, SameTable DEF BKK_STOP_COUNT, Indices, StopAt

LEMMA SearchTypeInit == Search!Init => Search!TypeOK
  BY RowType DEF Search!Init, Search!TypeOK, Search!None

LEMMA SearchTypeNext == Search!TypeOK /\ [Search!Next]_(Search!vars) => Search!TypeOK'
  <1> SUFFICES ASSUME Search!TypeOK, [Search!Next]_(Search!vars)  PROVE Search!TypeOK'
    OBVIOUS
  <1> USE RowType DEF Search!TypeOK
  <1>1. CASE Search!Count
    BY <1>1 DEF Search!Count
  <1>2. CASE Search!NoMatch \/ Search!MallocFails
    BY <1>2 DEF Search!NoMatch, Search!MallocFails, Search!Return, Search!NothingFound
  <1>3. CASE Search!Malloc
    BY <1>3 DEF Search!Malloc
  <1>4. CASE Search!Collect
    <2>1. i \in Search!Indices
      BY <1>4 DEF Search!Collect, Search!Indices
    <2>2. indices' \in Seq(Search!Indices)
      BY <1>4, <2>1, AppendProperties DEF Search!Collect
    <2> QED  BY <1>4, <2>2 DEF Search!Collect
  <1>5. CASE Search!Finish
    BY <1>5 DEF Search!Finish, Search!Return
  <1>6. CASE UNCHANGED Search!vars
    BY <1>6 DEF Search!vars
  <1> QED  BY <1>1, <1>2, <1>3, <1>4, <1>5, <1>6 DEF Search!Next

-----------------------------------------------------------------------------
(* The matching rows before row m. *)
Below(m) == {n \in Search!Matches(options.s) : n < m}

LEMMA BelowEnds == Below(0) = {} /\ Below(Search!BKK_STOP_COUNT) = Search!Matches(options.s)
  BY RowType DEF Below, Search!Matches, Search!Indices

LEMMA BelowFinite ==
    ASSUME NEW m \in Nat
    PROVE  IsFiniteSet(Below(m)) /\ Cardinality(Below(m)) \in Nat
  <1>1. IsFiniteSet(0..m)
    BY FS_Interval
  <1>2. Below(m) \in SUBSET (0..m)
    <2> SUFFICES ASSUME NEW n \in Below(m)  PROVE n \in 0..m
      OBVIOUS
    <2>1. n \in Search!Indices /\ n < m
      BY DEF Below, Search!Matches
    <2> QED  BY <2>1, RowType
  <1>3. IsFiniteSet(Below(m))
    BY <1>1, <1>2, FS_Subset
  <1> QED  BY <1>3, FS_CardinalityType

(* One row further there is one match more, or none. *)
LEMMA BelowNext ==
    ASSUME NEW m \in Nat
    PROVE  IF m \in Search!Matches(options.s)
           THEN /\ Below(m + 1) = Below(m) \cup {m}
                /\ Cardinality(Below(m + 1)) = Cardinality(Below(m)) + 1
           ELSE Below(m + 1) = Below(m)
  <1>1. Search!Matches(options.s) \subseteq Nat
    BY RowType DEF Search!Matches
  <1>2. CASE m \in Search!Matches(options.s)
    <2>1. Below(m + 1) = Below(m) \cup {m} /\ m \notin Below(m)
      BY <1>1, <1>2 DEF Below
    <2>2. Cardinality(Below(m) \cup {m}) = Cardinality(Below(m)) + 1
      BY <2>1, BelowFinite, FS_AddElement
    <2> QED  BY <1>2, <2>1, <2>2
  <1>3. CASE m \notin Search!Matches(options.s)
    BY <1>1, <1>3 DEF Below
  <1> QED  BY <1>2, <1>3

LEMMA BelowGrows ==
    ASSUME NEW m \in 0..Search!BKK_STOP_COUNT
    PROVE  Cardinality(Below(m)) <= Cardinality(Below(Search!BKK_STOP_COUNT))
  <1>1. Below(m) \in SUBSET Below(Search!BKK_STOP_COUNT)
    BY RowType DEF Below, Search!Matches, Search!Indices
  <1> QED  BY <1>1, RowType, BelowFinite, FS_Subset

-----------------------------------------------------------------------------
(* s holds the matches before row m, in order. *)
Holds(s, m) ==
    /\ Len(s) = Cardinality(Below(m))
    /\ {s[n] : n \in 1..Len(s)} = Below(m)
    /\ \A j, n \in 1..Len(s) : j < n => s[j] < s[n]

Counted == count = Cardinality(Below(Search!BKK_STOP_COUNT))

(* What is returned as found. *)
AllFound ==
    /\ out.indices \in Seq(Search!Indices)
    /\ Holds(out.indices, Search!BKK_STOP_COUNT)
    /\ out.count = Cardinality(Below(Search!BKK_STOP_COUNT)) /\ out.count # 0

PassInv ==
    /\ search = "count" => count = Cardinality(Below(i)) /\ indices = <<>> /\ out = Search!None
    /\ search = "collect" => Counted /\ count # 0 /\ Holds(indices, i) /\ out = Search!None
    /\ search = "returned" => Len(indices) <= count
    /\ out.stat = "BKK_STOP_FOUND" => search = "returned" /\ AllFound

LEMMA PassInit == Search!Init => PassInv
  <1> SUFFICES ASSUME Search!Init  PROVE PassInv
    OBVIOUS
  <1>1. Cardinality(Below(0)) = 0
    BY BelowEnds, FS_EmptySet
  <1> QED  BY <1>1 DEF Search!Init, PassInv, Search!None

LEMMA EmptyHolds == Holds(<<>>, 0)
  BY BelowEnds, FS_EmptySet DEF Holds

LEMMA CollectHolds ==
    ASSUME Search!TypeOK, NEW m \in Search!Indices, Holds(indices, m)
    PROVE  Holds(IF m \in Search!Matches(options.s) THEN Append(indices, m) ELSE indices, m + 1)
  <1>0. m \in Nat /\ indices \in Seq(Search!Indices) /\ Len(indices) \in Nat
    BY RowType DEF Search!TypeOK
  <1>1. CASE m \notin Search!Matches(options.s)
    BY <1>0, <1>1, BelowNext DEF Holds
  <1>2. CASE m \in Search!Matches(options.s)
    <2> DEFINE s == Append(indices, m)
               L == Len(indices)
    <2>1. /\ Len(s) = L + 1
          /\ \A n \in 1..L : s[n] = indices[n]
          /\ s[L + 1] = m
      BY <1>0, AppendProperties
    <2>2. Below(m + 1) = Below(m) \cup {m} /\ Cardinality(Below(m + 1)) = Cardinality(Below(m)) + 1
      BY <1>0, <1>2, BelowNext
    <2>3. Len(s) = Cardinality(Below(m + 1))
      BY <2>1, <2>2 DEF Holds
    <2>4. {s[n] : n \in 1..Len(s)} = Below(m + 1)
      <3>1. 1..Len(s) = 1..L \cup {L + 1}
        BY <1>0, <2>1
      <3>2. {s[n] : n \in 1..Len(s)} = {s[n] : n \in 1..L} \cup {s[L + 1]}
        BY <3>1
      <3>3. {s[n] : n \in 1..L} = {indices[n] : n \in 1..L}
        BY <2>1
      <3> QED  BY <2>1, <2>2, <3>2, <3>3 DEF Holds
    <2>5. ASSUME NEW j \in 1..Len(s), NEW n \in 1..Len(s), j < n  PROVE s[j] < s[n]
      <3>1. j \in 1..L
        BY <1>0, <2>1, <2>5
      <3>2. CASE n \in 1..L
        BY <2>1, <2>5, <3>1, <3>2 DEF Holds
      <3>3. CASE n = L + 1
        <4>1. indices[j] \in Below(m)
          BY <3>1 DEF Holds
        <4> QED  BY <2>1, <3>1, <3>3, <4>1 DEF Below
      <3> QED  BY <1>0, <2>1, <3>2, <3>3
    <2> HIDE DEF s, L
    <2>6. Holds(s, m + 1)
      BY <2>3, <2>4, <2>5 DEF Holds
    <2> QED  BY <1>2, <2>6 DEF s
  <1> QED  BY <1>1, <1>2

LEMMA PassNext == Search!TypeOK /\ PassInv /\ [Search!Next]_(Search!vars) => PassInv'
  <1> SUFFICES ASSUME Search!TypeOK, PassInv, [Search!Next]_(Search!vars)  PROVE PassInv'
    OBVIOUS
  <1>0. Search!BKK_STOP_COUNT \in Nat /\ i \in Nat
    BY RowType DEF Search!TypeOK
  <1>1. CASE Search!Count
    <2>1. options.s' = options.s /\ Below(i)' = {n \in Search!Matches(options.s) : n < i + 1}
      BY <1>1 DEF Search!Count, Below
    <2>2. Below(i)' = Below(i + 1)
      BY <2>1 DEF Below
    <2>3. count' = Cardinality(Below(i + 1))
      BY <1>0, <1>1, BelowNext DEF Search!Count, PassInv
    <2> QED  BY <1>1, <2>2, <2>3 DEF Search!Count, PassInv, Search!None
  <1>2. CASE Search!NoMatch \/ Search!MallocFails
    BY <1>2 DEF Search!NoMatch, Search!MallocFails, Search!Return, Search!NothingFound, PassInv,
                Search!TypeOK
  <1>3. CASE Search!Malloc
    <2>1. Below(Search!BKK_STOP_COUNT)' = Below(Search!BKK_STOP_COUNT)
      BY <1>3 DEF Search!Malloc, Below
    <2>2. Counted'
      BY <1>3, <2>1 DEF Search!Malloc, PassInv, Counted
    <2>3. Holds(indices, i)'
      BY <1>3, EmptyHolds DEF Search!Malloc, PassInv, Holds, Below
    <2> QED  BY <1>3, <2>2, <2>3 DEF Search!Malloc, PassInv, Search!None
  <1>4. CASE Search!Collect
    <2>1. i \in Search!Indices
      BY <1>0, <1>4 DEF Search!Collect, Search!Indices
    <2>2. Holds(IF i \in Search!Matches(options.s) THEN Append(indices, i) ELSE indices, i + 1)
      BY <1>4, <2>1, CollectHolds DEF Search!Collect, PassInv
    <2>3. Holds(indices, i)'
      BY <1>4, <2>2 DEF Search!Collect, Holds, Below
    <2>4. Counted'
      BY <1>4 DEF Search!Collect, PassInv, Counted, Below
    <2> QED  BY <1>4, <2>3, <2>4 DEF Search!Collect, PassInv, Search!None
  <1>5. CASE Search!Finish
    <2>1. Holds(indices, Search!BKK_STOP_COUNT) /\ Counted
      BY <1>5 DEF Search!Finish, PassInv
    <2>2. Holds(indices, Search!BKK_STOP_COUNT)' /\ Counted'
      BY <1>5, <2>1 DEF Search!Finish, Search!Return, Holds, Counted, Below
    <2>3. Len(indices) = count
      BY <2>1 DEF Holds, Counted
    <2>4. out'.indices = indices /\ out'.count = count /\ count # 0 /\ options'.s = options.s
      BY <1>5 DEF Search!Finish, Search!Return, PassInv
    <2>5. AllFound'
      BY <2>1, <2>4 DEF AllFound, Holds, Counted, Below, Search!TypeOK
    <2> QED  BY <1>5, <2>2, <2>3, <2>5 DEF Search!Finish, Search!Return, PassInv, Search!TypeOK
  <1>6. CASE UNCHANGED Search!vars
    BY <1>6 DEF Search!vars, PassInv, AllFound, Holds, Counted, Below
  <1> QED  BY <1>1, <1>2, <1>3, <1>4, <1>5, <1>6 DEF Search!Next

(* The array that the first pass asked for is large enough for the second. *)
LEMMA PassWithin ==
    ASSUME Search!TypeOK, PassInv
    PROVE  Search!WithinAllocation
  <1> SUFFICES Len(indices) <= count
    BY DEF Search!WithinAllocation
  <1>1. CASE search = "count"
    BY <1>1 DEF Search!TypeOK, PassInv
  <1>2. CASE search = "collect"
    BY <1>2, BelowGrows, BelowFinite, RowType DEF Search!TypeOK, PassInv, Holds, Counted
  <1>3. CASE search = "returned"
    BY <1>3 DEF PassInv
  <1> QED  BY <1>1, <1>2, <1>3 DEF Search!TypeOK

-----------------------------------------------------------------------------
(* A set of numbers has a least one. *)
LEMMA Least ==
    ASSUME NEW S \in SUBSET Nat, S # {}
    PROVE  \E n \in S : \A m \in S : n <= m
  <1> DEFINE R == {p \in Nat \X Nat : p[1] < p[2]}
  <1>1. IsWellFoundedOn(R, Nat)
    BY NatLessThanWellFounded DEF OpToRel
  <1>2. PICK n \in S : \A m \in S : ~(<<m, n>> \in R)
    BY <1>1, WFMin
  <1>3. ASSUME NEW m \in S  PROVE n <= m
    <2>1. m < n => <<m, n>> \in R
      OBVIOUS
    <2> QED  BY <1>2, <2>1
  <1> QED  BY <1>3

(* The first row of a set of rows is there, and is one of them. *)
LEMMA FirstInSet ==
    ASSUME NEW S \in SUBSET Search!Indices, S # {}
    PROVE  Search!First(S) \in S
  <1>1. S \in SUBSET Nat
    BY RowType
  <1>2. PICK n \in S : \A m \in S : n <= m
    BY <1>1, Least
  <1> QED  BY <1>2 DEF Search!First

LEMMA ByIndex ==
    ASSUME NEW n \in Search!Indices
    PROVE  Search!find_stop_by_index(n) = [stat |-> "BKK_STOP_FOUND", stop |-> Search!StopAt(n)]
  BY DEF Search!find_stop_by_index

LEMMA ById ==
    ASSUME NEW n \in Search!Indices
    PROVE  Search!find_stop_by_id(Search!StopAt(n).id)
            = [stat |-> "BKK_STOP_FOUND", stop |-> Search!StopAt(n)]
  <1> DEFINE S == {m \in Search!Indices : Search!StopAt(m).id = Search!StopAt(n).id}
  <1>1. S = {n}
    BY RowType
  <1>2. Search!First(S) = n
    BY <1>1, FirstInSet
  <1> QED  BY <1>1, <1>2 DEF Search!find_stop_by_id, Search!FirstOf

LEMMA ByName ==
    ASSUME NEW n \in Search!Indices
    PROVE  Search!find_stop_by_name(Search!StopAt(n).name).stop.name = Search!StopAt(n).name
  <1> DEFINE S == {m \in Search!Indices : Search!StopAt(m).name = Search!StopAt(n).name}
  <1>1. n \in S /\ S \in SUBSET Search!Indices
    OBVIOUS
  <1>2. Search!First(S) \in S
    BY <1>1, FirstInSet
  <1>3. Search!find_stop_by_name(Search!StopAt(n).name)
         = [stat |-> "BKK_STOP_FOUND", stop |-> Search!StopAt(Search!First(S))]
    BY <1>1 DEF Search!find_stop_by_name, Search!FirstOf
  <1> QED  BY <1>2, <1>3

(* What is found are the matching stops, each once and in order, and each  *)
(* index leads to a stop that its id and its name lead to.                 *)
LEMMA FoundMatches ==
    ASSUME out.stat = "BKK_STOP_FOUND" => AllFound
    PROVE  Search!FoundAreTheMatches
  <1> SUFFICES ASSUME out.stat = "BKK_STOP_FOUND"  PROVE Search!FoundAreTheMatches
    BY DEF Search!FoundAreTheMatches
  <1>1. /\ Holds(out.indices, Search!BKK_STOP_COUNT)
        /\ out.count = Cardinality(Below(Search!BKK_STOP_COUNT)) /\ out.count # 0
        /\ Below(Search!BKK_STOP_COUNT) = Search!Matches(options.s)
    BY BelowEnds DEF AllFound
  <1>2. out.count = Len(out.indices) /\ out.count > 0
    BY <1>1, RowType, BelowFinite DEF Holds
  <1>3. {out.indices[n] : n \in 1..out.count} = Search!Matches(options.s)
    BY <1>1, <1>2 DEF Holds
  <1>4. \A m, n \in 1..out.count : m < n => out.indices[m] < out.indices[n]
    BY <1>1, <1>2 DEF Holds
  <1>5. ASSUME NEW n \in 1..out.count
        PROVE  LET found == Search!find_stop_by_index(out.indices[n])
               IN  /\ found.stat = "BKK_STOP_FOUND"
                   /\ options.s \in found.stop.contains
                   /\ Search!find_stop_by_id(found.stop.id) = found
                   /\ Search!find_stop_by_name(found.stop.name).stop.name = found.stop.name
    <2>1. out.indices[n] \in Search!Indices /\ options.s \in Search!StopAt(out.indices[n]).contains
      BY <1>3 DEF Search!Matches
    <2> QED  BY <2>1, ByIndex, ById, ByName
  <1> QED  BY <1>2, <1>3, <1>4, <1>5 DEF Search!FoundAreTheMatches

-----------------------------------------------------------------------------
(* A bounded set of numbers has a greatest one. *)
LEMMA Greatest ==
    ASSUME NEW N \in Nat, NEW S \in SUBSET (0..N), S # {}
    PROVE  \E n \in S : \A m \in S : m <= n
  <1> DEFINE T == {N - m : m \in S}
  <1>1. T \in SUBSET Nat /\ T # {}
    <2>1. \A m \in S : N - m \in Nat
      OBVIOUS
    <2>2. T \subseteq Nat
      BY <2>1
    <2>3. PICK m \in S : TRUE
      OBVIOUS
    <2>4. N - m \in T
      OBVIOUS
    <2> QED  BY <2>2, <2>4
  <1>2. PICK t \in T : \A u \in T : t <= u
    BY <1>1, Least
  <1>3. PICK n \in S : t = N - n
    OBVIOUS
  <1>4. ASSUME NEW m \in S  PROVE m <= n
    <2>1. t <= N - m
      BY <1>2
    <2> QED  BY <1>3, <2>1
  <1> QED  BY <1>4

(* The two loops of the trimming end, where their definitions say. *)
LEMMA Edges ==
    ASSUME size \in Nat
    PROVE  /\ Key!Begin \in 0..size
           /\ Key!Begin = size \/ Key!Begin + 1 \in Key!Printing
           /\ \A n \in 1..Key!Begin : n \notin Key!Printing
           /\ Key!End \in Key!Begin..size
           /\ Key!End = Key!Begin \/ Key!End \in Key!Printing
           /\ \A n \in Key!End + 1 .. size : n \notin Key!Printing
  <1>0. Key!Printing \in SUBSET (1..size) /\ Key!Printing \in SUBSET Nat
    BY DEF Key!Printing
  <1>1. \E b \in 0..size : /\ b = size \/ b + 1 \in Key!Printing
                           /\ \A n \in 1..b : n \notin Key!Printing
    <2>1. CASE Key!Printing = {}
      BY <2>1
    <2>2. CASE Key!Printing # {}
      <3>1. PICK m \in Key!Printing : \A n \in Key!Printing : m <= n
        BY <1>0, <2>2, Least
      <3>2. m - 1 \in 0..size /\ (m - 1) + 1 \in Key!Printing
        BY <1>0
      <3>3. \A n \in 1..m - 1 : n \notin Key!Printing
        BY <1>0, <3>1
      <3> QED  BY <3>2, <3>3
    <2> QED  BY <2>1, <2>2
  <1>2. /\ Key!Begin \in 0..size
        /\ Key!Begin = size \/ Key!Begin + 1 \in Key!Printing
        /\ \A n \in 1..Key!Begin : n \notin Key!Printing
    BY <1>1 DEF Key!Begin
  <1>3. \E e \in Key!Begin..size : /\ e = Key!Begin \/ e \in Key!Printing
                                   /\ \A n \in e + 1 .. size : n \notin Key!Printing
    <2>1. CASE Key!Printing = {}
      BY <1>2, <2>1
    <2>2. CASE Key!Printing # {}
      <3>1. Key!Printing \in SUBSET (0..size)
        BY <1>0
      <3>2. PICK m \in Key!Printing : \A n \in Key!Printing : n <= m
        BY <2>2, <3>1, Greatest
      <3>3. m \in Key!Begin..size
        BY <1>0, <1>2
      <3>4. \A n \in m + 1 .. size : n \notin Key!Printing
        BY <1>0, <3>2
      <3> QED  BY <3>3, <3>4
    <2> QED  BY <2>1, <2>2
  <1>4. /\ Key!End \in Key!Begin..size
        /\ Key!End = Key!Begin \/ Key!End \in Key!Printing
        /\ \A n \in Key!End + 1 .. size : n \notin Key!Printing
    BY <1>3 DEF Key!End
  <1> QED  BY <1>2, <1>4

-----------------------------------------------------------------------------
LEMMA TextIsSeq ==
    ASSUME NEW text \in Key!Texts
    PROVE  text \in Seq(Letters \cup {Blank}) /\ Len(text) \in 0..MaxSize
  <1>1. PICK n \in 0..MaxSize : text \in [1..n -> Letters \cup {Blank}]
    BY DEF Key!Texts
  <1>2. n \in Nat
    BY ClientAssumption
  <1> QED  BY <1>1, <1>2

(* A part of a text is a text, and this is what it is. *)
LEMMA PartOfText ==
    ASSUME NEW text \in Key!Texts, NEW a \in 1..Len(text) + 1, NEW b \in a - 1 .. Len(text)
    PROVE  /\ SubSeq(text, a, b) \in Key!Texts
           /\ Len(SubSeq(text, a, b)) = b - a + 1
           /\ \A n \in 1..b - a + 1 : SubSeq(text, a, b)[n] = text[a + n - 1]
  <1>1. text \in Seq(Letters \cup {Blank}) /\ Len(text) \in 0..MaxSize /\ MaxSize \in Nat
    BY TextIsSeq, ClientAssumption
  <1>2. /\ SubSeq(text, a, b) = [n \in 1..b - a + 1 |-> text[a + n - 1]]
        /\ b - a + 1 \in 0..MaxSize
    BY <1>1
  <1>3. \A n \in 1..b - a + 1 : text[a + n - 1] \in Letters \cup {Blank}
    BY <1>1
  <1>4. SubSeq(text, a, b) \in [1..b - a + 1 -> Letters \cup {Blank}]
    BY <1>2, <1>3
  <1>5. Len(SubSeq(text, a, b)) = b - a + 1
    BY <1>2, <1>4
  <1>6. SubSeq(text, a, b) \in Key!Texts
    BY <1>2, <1>4 DEF Key!Texts
  <1> QED  BY <1>2, <1>5, <1>6

(* The part between the two edges is the text without its outer blanks. *)
LEMMA PartIsTrimmed ==
    ASSUME buffer \in Key!Texts, size = Len(buffer),
           NEW part, part = SubSeq(buffer, Key!Begin + 1, Key!End)
    PROVE  part \in Key!Texts /\ Key!IsTrimmed(buffer, part)
  <1> DEFINE b == Key!Begin
             e == Key!End
  <1>0. size \in Nat
    BY TextIsSeq, ClientAssumption
  <1>1. /\ b \in 0..size /\ e \in b..size
        /\ b = size \/ buffer[b + 1] # Blank
        /\ e = b \/ buffer[e] # Blank
        /\ \A n \in 1..b : buffer[n] = Blank
        /\ \A n \in e + 1 .. size : buffer[n] = Blank
    BY <1>0, Edges DEF Key!Printing
  <1> HIDE DEF b, e
  <1>2. /\ b \in Nat /\ e \in Nat /\ b <= e /\ e <= Len(buffer)
        /\ e - (b + 1) + 1 = e - b
        /\ e - b \in Nat /\ b + (e - b) = e
    BY <1>0, <1>1
  <1>3. part = SubSeq(buffer, b + 1, e)
    BY DEF b, e
  <1>4. b + 1 \in 1..Len(buffer) + 1 /\ e \in (b + 1) - 1 .. Len(buffer)
    BY <1>0, <1>1
  <1>5. /\ part \in Key!Texts
        /\ Len(part) = e - (b + 1) + 1
        /\ \A n \in 1..e - (b + 1) + 1 : part[n] = buffer[(b + 1) + n - 1]
    BY <1>3, <1>4, PartOfText
  <1>6. /\ part \in Key!Texts
        /\ Len(part) = e - b
        /\ \A n \in 1..e - b : part[n] = buffer[b + n]
    <2>1. ASSUME NEW n \in 1..e - b  PROVE part[n] = buffer[b + n]
      <3>1. n \in 1..e - (b + 1) + 1 /\ (b + 1) + n - 1 = b + n
        BY <1>2
      <3> QED  BY <1>5, <3>1
    <2> QED  BY <1>2, <1>5, <2>1
  <1>7. Key!IsBlank(SubSeq(buffer, 1, b))
    <2>1. 1 \in 1..Len(buffer) + 1 /\ b \in 1 - 1 .. Len(buffer)
      BY <1>0, <1>1
    <2>2. /\ Len(SubSeq(buffer, 1, b)) = b
          /\ \A n \in 1..b : SubSeq(buffer, 1, b)[n] = buffer[n]
      BY <1>0, <1>1, <2>1, PartOfText
    <2> QED  BY <1>1, <2>2 DEF Key!IsBlank
  <1>8. Key!IsBlank(SubSeq(buffer, e + 1, Len(buffer)))
    <2>1. e + 1 \in 1..Len(buffer) + 1 /\ Len(buffer) \in (e + 1) - 1 .. Len(buffer)
      BY <1>0, <1>1
    <2>2. /\ Len(SubSeq(buffer, e + 1, Len(buffer))) = size - e
          /\ \A n \in 1..size - e : SubSeq(buffer, e + 1, Len(buffer))[n] = buffer[e + n]
      BY <1>0, <1>1, <2>1, PartOfText
    <2>3. \A n \in 1..size - e : e + n \in e + 1 .. size
      BY <1>0, <1>1
    <2> QED  BY <1>1, <2>2, <2>3 DEF Key!IsBlank
  <1>9. Len(part) = e - b
    BY <1>6
  <1>10. b \in 0..Len(buffer) - Len(part) /\ b + Len(part) = e
    <2> DEFINE L == Len(buffer)
    <2>1. b \in Nat /\ e \in Nat /\ L \in Nat /\ b <= e /\ e <= L
      BY <1>0, <1>2
    <2> HIDE DEF L
    <2>2. b \in 0..L - (e - b) /\ b + (e - b) = e
      BY <2>1
    <2> QED  BY <1>9, <2>2 DEF L
  <1>11. part # <<>> => part[1] # Blank /\ part[Len(part)] # Blank
    <2> SUFFICES ASSUME part # <<>>  PROVE part[1] # Blank /\ part[Len(part)] # Blank
      OBVIOUS
    <2>1. Len(part) # 0
      <3>1. part \in Seq(Letters \cup {Blank})
        BY <1>6, TextIsSeq
      <3> QED  BY <3>1, EmptySeq
    <2>2. e # b /\ b # size /\ 1 \in 1..e - b /\ e - b \in 1..e - b
      <3>1. b \in Nat /\ e \in Nat /\ size \in Nat /\ b <= e /\ e <= size /\ e - b # 0
        BY <1>0, <1>2, <1>9, <2>1
      <3> QED  BY <3>1
    <2>3. part[1] = buffer[b + 1] /\ part[e - b] = buffer[b + (e - b)] /\ b + (e - b) = e
      BY <1>2, <1>6, <2>2
    <2> QED  BY <1>1, <1>6, <2>2, <2>3
  <1>12. /\ Key!IsBlank(SubSeq(buffer, 1, b))
        /\ part = SubSeq(buffer, b + 1, b + Len(part))
        /\ Key!IsBlank(SubSeq(buffer, b + Len(part) + 1, Len(buffer)))
    BY <1>3, <1>7, <1>8, <1>10
  <1> QED  BY <1>6, <1>10, <1>11, <1>12 DEF Key!IsTrimmed

-----------------------------------------------------------------------------
(* Between ftell and fread, and on to the trimming: what is read is what   *)
(* the file was at ftell, unless it has been written since.                *)
KeyInv ==
    /\ reader \in {"read", "trim"} => seen.writes \in Nat /\ seen.writes <= writes
    /\ reader = "read" /\ writes = seen.writes => seen.file = file /\ size = Len(file)
    /\ reader = "trim" =>
        /\ size = Len(buffer)
        /\ writes = seen.writes => seen.file = buffer
    /\ Key!KeyIsTrimmedFile

Asking == {"socket", "connect", "send", "recv", "report"}
Looping == Asking \cup {"loop", "killed"}

(* Before the loop nothing is counted or reported. *)
Untouched == i = 0 /\ count = 0 /\ indices = <<>> /\ reported = <<>>

(* In the loop there are count stops, i of which have been reported. *)
Looped ==
    /\ count = Len(StopsWanted) /\ count <= BKK_STOP_COUNT
    /\ i \in 0..count /\ i = Len(reported)
    /\ \A n \in 1..i : reported[n].stop = StopsWanted[n]

SearchInv ==
    /\ pc \in {"key", "search"} => PassInv /\ reported = <<>>
    /\ pc = "key" \/ (pc = "search" /\ options.s = Null) => Untouched /\ out = Search!None
    /\ out.stat = "BKK_STOP_FOUND" => AllFound

LoopInv ==
    /\ pc \in Looping => Looped
    /\ pc = "exited" => Untouched \/ (Looped /\ i = count)
    /\ pc \in Asking =>
        /\ i < count
        /\ request \in [stop_id : Ids, api_key : Key!Texts]
        /\ request.stop_id = StopsWanted[i + 1]
    /\ pc = "report" => res \in ClientStatuses

ClientInv == TypeOK /\ KeyInv /\ SearchInv /\ LoopInv /\ PrintsOwnArrivals

-----------------------------------------------------------------------------
(* The key file. *)
LEMMA Truth == ASSUME NEW S, NEW e, NEW b \in BOOLEAN, b <=> (e \in S)  PROVE b = (e \in S)
  OBVIOUS

Opened == {"size", "read"}

LEMMA TruthOf == ASSUME NEW S, NEW e, NEW b, b = (e \in S)  PROVE b \in BOOLEAN /\ (b <=> e \in S)
  <1>1. b \in BOOLEAN
    BY SMT
  <1>2. b <=> e \in S
    BY Zenon
  <1> QED  BY <1>1, <1>2

LEMMA OpenWhere == ASSUME Key!TypeOK, Key!Next  PROVE open' = (reader' \in {"size", "read"})
  <1>1. open = (reader \in Opened)
    BY DEF Key!TypeOK, Opened
  <1>2. open \in BOOLEAN /\ (open <=> reader \in Opened)
    BY <1>1, TruthOf
  <1>3. open' \in BOOLEAN /\ (open' <=> reader' \in Opened)
    <2>1. CASE Key!OpenFails \/ Key!SizeFails \/ Key!ReadFails \/ Key!TrimFails
      <3>1. open' = FALSE /\ reader' = "returned"
        BY <2>1 DEF Key!OpenFails, Key!SizeFails, Key!ReadFails, Key!TrimFails, Key!Fail
      <3> QED  BY <3>1 DEF Opened
    <2>2. CASE Key!Open
      BY <2>2 DEF Key!Open, Opened
    <2>3. CASE Key!Read
      BY <2>3 DEF Key!Read, Opened
    <2>4. CASE Key!Write \/ Key!AskSize \/ Key!Trim
      <3>1. open' = open /\ (reader' \in Opened <=> reader \in Opened)
        BY <2>4 DEF Key!Write, Key!AskSize, Key!Trim, Opened
      <3> QED  BY <1>2, <3>1
    <2> QED  BY <2>1, <2>2, <2>3, <2>4 DEF Key!Next, Key!Reader
  <1>4. open' = (reader' \in Opened)
    BY <1>3, Truth
  <1> QED  BY <1>4 DEF Opened

LEMMA KeyInit == Key!Init => Key!TypeOK /\ KeyInv
  <1> SUFFICES ASSUME Key!Init  PROVE Key!TypeOK /\ KeyInv
    OBVIOUS
  <1>1. <<>> \in Key!Texts /\ MaxSize \in Nat /\ MaxWrites \in Nat
    <2>1. <<>> \in [1..0 -> Letters \cup {Blank}] /\ MaxSize \in Nat /\ 0 \in 0..MaxSize
      BY ClientAssumption
    <2> QED  BY <2>1, ClientAssumption DEF Key!Texts
  <1>2. Key!TypeOK
    <2>1. open \in BOOLEAN /\ (open <=> reader \in {"size", "read"})
      BY DEF Key!Init
    <2>2. open = (reader \in {"size", "read"})
      BY <2>1, Truth
    <2> QED  BY <1>1, <2>2 DEF Key!Init, Key!TypeOK
  <1>3. KeyInv
    BY DEF Key!Init, KeyInv, Key!KeyIsTrimmedFile
  <1> QED  BY <1>2, <1>3

LEMMA KeyKept ==
    ASSUME Key!TypeOK, KeyInv, UNCHANGED keyVars
    PROVE  Key!TypeOK' /\ KeyInv'
  BY DEF keyVars, Key!TypeOK, KeyInv, Key!KeyIsTrimmedFile

LEMMA KeyNext ==
    ASSUME Key!TypeOK, KeyInv, Key!Next
    PROVE  Key!TypeOK' /\ KeyInv'
  <1> USE DEF Key!TypeOK
  <1>0. MaxSize \in Nat /\ MaxWrites \in Nat
    BY ClientAssumption
  <1>1. CASE Key!Write
    <2>1. Key!TypeOK'
      BY <1>0, <1>1 DEF Key!Write
    <2>2. KeyInv'
      BY <1>0, <1>1 DEF Key!Write, KeyInv, Key!KeyIsTrimmedFile
    <2> QED  BY <2>1, <2>2
  <1>2. CASE Key!OpenFails \/ Key!SizeFails \/ Key!ReadFails \/ Key!TrimFails
    BY <1>2, OpenWhere DEF Key!OpenFails, Key!SizeFails, Key!ReadFails, Key!TrimFails, Key!Fail,
                KeyInv, Key!KeyIsTrimmedFile
  <1>3. CASE Key!Open
    BY <1>3 DEF Key!Open, KeyInv, Key!KeyIsTrimmedFile
  <1>4. CASE Key!AskSize
    <2>1. Len(file) \in 0..MaxSize
      BY TextIsSeq
    <2>2. Key!TypeOK'
      BY <1>4, <2>1 DEF Key!AskSize
    <2>3. seen' = [file |-> file, writes |-> writes] /\ writes \in Nat
      BY <1>0, <1>4 DEF Key!AskSize
    <2>4. KeyInv'
      BY <1>4, <2>3 DEF Key!AskSize, KeyInv, Key!KeyIsTrimmedFile
    <2> QED  BY <2>2, <2>4
  <1>5. CASE Key!Read
    <2>1. /\ file \in Seq(Letters \cup {Blank}) /\ Len(file) \in Nat
          /\ size \in Nat /\ size <= Len(file) /\ buffer' = SubSeq(file, 1, size)
      BY <1>0, <1>5, TextIsSeq DEF Key!Read
    <2>2. 1 \in 1..Len(file) + 1 /\ size \in 1 - 1 .. Len(file) /\ size - 1 + 1 = size
      BY <2>1
    <2>3. buffer' \in Key!Texts /\ Len(buffer') = size
      BY <2>1, <2>2, PartOfText
    <2>4. size = Len(file) => buffer' = file
      BY <2>1, SubSeqFull
    <2>5. Key!TypeOK'
      BY <1>5, <2>3, OpenWhere DEF Key!Read
    <2>6. KeyInv'
      BY <1>5, <2>3, <2>4 DEF Key!Read, KeyInv, Key!KeyIsTrimmedFile
    <2> QED  BY <2>5, <2>6
  <1>6. CASE Key!Trim
    <2>1. /\ reader = "trim" /\ key' = SubSeq(buffer, Key!Begin + 1, Key!End)
          /\ reader' = "returned"
          /\ UNCHANGED <<file, writes, size, buffer, open, seen>>
      BY <1>6 DEF Key!Trim
    <2>2. buffer \in Key!Texts /\ size = Len(buffer) /\ (writes = seen.writes => seen.file = buffer)
      BY <2>1 DEF KeyInv
    <2>3. key' \in Key!Texts /\ Key!IsTrimmed(buffer, key')
      BY <2>1, <2>2, PartIsTrimmed
    <2>4. Key!TypeOK'
      BY <1>6, <2>1, <2>3 DEF Key!Trim
    <2>5. /\ Key!IsTrimmed(buffer', key')
          /\ writes' = seen'.writes => Key!IsTrimmed(seen'.file, key')
      BY <2>1, <2>2, <2>3
    <2>6. KeyInv'
      BY <2>1, <2>5 DEF KeyInv, Key!KeyIsTrimmedFile
    <2> QED  BY <2>4, <2>6
  <1> QED  BY <1>1, <1>2, <1>3, <1>4, <1>5, <1>6 DEF Key!Next, Key!Reader

-----------------------------------------------------------------------------
(* The client as a whole. *)
LEMMA FdWhere ==
    ASSUME TypeOK, [Next]_vars
    PROVE  client_fd' = (pc' \in {"connect", "send", "recv"})
  <1> DEFINE S == {"connect", "send", "recv"}
  <1>1. client_fd = (pc \in S)
    BY DEF TypeOK
  <1> HIDE DEF S
  <1>2. client_fd \in BOOLEAN /\ (client_fd <=> pc \in S)
    BY <1>1, TruthOf
  <1>3. client_fd' \in BOOLEAN /\ (client_fd' <=> pc' \in S)
    <2>1. CASE NoKeyFile \/ ReadKey \/ KeyNotRead \/ KeyRead \/ NothingToAsk \/ SearchStops
               \/ EnterLoop \/ AskForId \/ AskForFound \/ Report \/ Exit
      <3>1. client_fd' = client_fd /\ (pc' = pc \/ (pc \notin S /\ pc' \notin S))
        BY <2>1 DEF NoKeyFile, ReadKey, KeyNotRead, KeyRead, NothingToAsk, SearchStops, EnterLoop,
                    AskForId, AskForFound, Report, Exit, Goes, queryVars, S
      <3> QED  BY <1>2, <3>1
    <2>2. CASE SocketFails \/ ConnectFails \/ SendFails \/ SendKills \/ ReceiveFails \/ Receive
      <3>1. client_fd' = FALSE /\ pc' \in {"report", "killed"}
        BY <2>2 DEF SocketFails, ConnectFails, SendFails, SendKills, ReceiveFails, Receive, Return, Goes
      <3> QED  BY <3>1 DEF S
    <2>3. CASE Socket
      BY <2>3 DEF Socket, Goes, S
    <2>4. CASE Connect \/ Send
      <3>1. client_fd' = client_fd /\ pc \in S /\ pc' \in S
        BY <2>4 DEF Connect, Send, Goes, S
      <3> QED  BY <1>2, <3>1
    <2>5. CASE UNCHANGED vars
      BY <1>2, <2>5 DEF vars, queryVars
    <2> QED  BY <2>1, <2>2, <2>3, <2>4, <2>5 DEF Next
  <1>4. client_fd' = (pc' \in S)
    BY <1>3, Truth
  <1> QED  BY <1>4 DEF S

(* What the search leaves behind stays what it is in the loop. *)
LEMMA FoundKept ==
    ASSUME Search!TypeOK, out.stat = "BKK_STOP_FOUND" => AllFound,
           options' = options, out' = out, search' = search,
           count' \in Nat, indices' \in Seq(Search!Indices), i' \in 0..Search!BKK_STOP_COUNT
    PROVE  Search!TypeOK' /\ (out.stat = "BKK_STOP_FOUND" => AllFound)'
  <1>1. AllFound => AllFound'
    BY DEF AllFound, Holds, Below
  <1> QED  BY <1>1 DEF Search!TypeOK

LEMMA LoopedKept ==
    ASSUME Looped, UNCHANGED <<options, indices, count, i, reported>>
    PROVE  Looped'
  BY DEF Looped, StopsWanted

LEMMA SearchAlone ==
    ASSUME UNCHANGED <<options, searchVars, i>>
    PROVE  (Search!TypeOK => Search!TypeOK') /\ (PassInv => PassInv') /\ (AllFound => AllFound')
  BY DEF searchVars, Search!TypeOK, PassInv, AllFound, Holds, Counted, Below

-----------------------------------------------------------------------------
LEMMA ClientInit == Init => ClientInv
  <1> SUFFICES ASSUME Init  PROVE ClientInv
    OBVIOUS
  <1>1. Key!TypeOK /\ KeyInv
    BY KeyInit DEF Init
  <1>2. Search!TypeOK /\ PassInv
    BY SearchTypeInit, PassInit DEF Init
  <1>3. client_fd = (pc \in {"connect", "send", "recv"})
    <2>1. client_fd \in BOOLEAN /\ (client_fd <=> pc \in {"connect", "send", "recv"})
      BY DEF Init
    <2> QED  BY <2>1, Truth
  <1>4. TypeOK
    BY <1>1, <1>2, <1>3 DEF Init, TypeOK
  <1>5. SearchInv
    BY <1>2 DEF Init, Search!Init, SearchInv, Untouched, Search!None
  <1>6. LoopInv /\ PrintsOwnArrivals
    BY DEF Init, LoopInv, PrintsOwnArrivals, Looping, Asking
  <1> QED  BY <1>1, <1>4, <1>5, <1>6 DEF ClientInv

(* main before the search. *)
LEMMA ReadKeyStep ==
    ASSUME ClientInv, ReadKey \/ KeyRead
    PROVE  ClientInv'
  <1>1. UNCHANGED <<options, searchVars, i, queryVars>> /\ pc = "key" /\ pc' \in {"key", "search"}
    BY DEF ReadKey, KeyRead, Goes
  <1>2. Key!TypeOK' /\ KeyInv'
    <2>1. CASE ReadKey
      BY <2>1, KeyNext DEF ReadKey, ClientInv, TypeOK
    <2>2. CASE KeyRead
      <3>1. /\ file' = <<>> /\ writes' = 0 /\ size' = 0 /\ buffer' = <<>>
            /\ reader' = "begin" /\ status' = "none" /\ key' = key /\ open' = open
            /\ reader = "returned"
        BY <2>2 DEF KeyRead
      <3>2. <<>> \in Key!Texts /\ MaxSize \in Nat /\ MaxWrites \in Nat
        <4>1. <<>> \in [1..0 -> Letters \cup {Blank}] /\ MaxSize \in Nat /\ 0 \in 0..MaxSize
          BY ClientAssumption
        <4> QED  BY <4>1, ClientAssumption DEF Key!Texts
      <3>3. open' = (reader' \in {"size", "read"})
        <4>1. open = (reader \in {"size", "read"})
          BY DEF ClientInv, TypeOK, Key!TypeOK
        <4>2. open \in BOOLEAN /\ (open <=> reader \in {"size", "read"})
          BY <4>1, TruthOf
        <4>3. open' \in BOOLEAN /\ (open' <=> reader' \in {"size", "read"})
          BY <3>1, <4>2
        <4> QED  BY <4>3, Truth
      <3>4. key \in Key!Texts
        BY DEF ClientInv, TypeOK, Key!TypeOK
      <3>5. Key!TypeOK'
        BY <3>1, <3>2, <3>3, <3>4 DEF Key!TypeOK
      <3>6. KeyInv'
        BY <3>1 DEF KeyInv, Key!KeyIsTrimmedFile
      <3> QED  BY <3>5, <3>6
    <2> QED  BY <2>1, <2>2
  <1>3. Search!TypeOK' /\ PassInv' /\ (AllFound => AllFound')
    BY <1>1, SearchAlone DEF ClientInv, TypeOK, SearchInv
  <1>4. TypeOK'
    BY <1>1, <1>2, <1>3, FdWhere DEF ClientInv, TypeOK, queryVars, Next
  <1>5. SearchInv'
    BY <1>1, <1>3 DEF ClientInv, SearchInv, Untouched, queryVars, searchVars, Search!None
  <1>6. LoopInv' /\ PrintsOwnArrivals'
    BY <1>1 DEF LoopInv, PrintsOwnArrivals, Looping, Asking
  <1> QED  BY <1>2, <1>4, <1>5, <1>6 DEF ClientInv

LEMMA ExitStep ==
    ASSUME ClientInv, NoKeyFile \/ KeyNotRead \/ NothingToAsk \/ Exit
    PROVE  ClientInv'
  <1>1. UNCHANGED <<options, keyVars, searchVars, i, queryVars>> /\ pc' = "exited"
    BY DEF NoKeyFile, KeyNotRead, NothingToAsk, Exit, Goes, locals, queryVars
  <1>2. Key!TypeOK' /\ KeyInv'
    BY <1>1, KeyKept DEF ClientInv, TypeOK
  <1>3. Search!TypeOK' /\ (AllFound => AllFound')
    BY <1>1, SearchAlone DEF ClientInv, TypeOK
  <1>4. TypeOK'
    BY <1>1, <1>2, <1>3, FdWhere DEF ClientInv, TypeOK, queryVars, Next
  <1>5. SearchInv'
    BY <1>1, <1>3 DEF ClientInv, SearchInv, searchVars
  <1>6. LoopInv'
    <2>1. CASE NoKeyFile \/ KeyNotRead \/ NothingToAsk
      <3>1. Untouched
        BY <2>1 DEF NoKeyFile, KeyNotRead, NothingToAsk, Goes, ClientInv, SearchInv
      <3>2. Untouched'
        BY <1>1, <3>1 DEF Untouched, searchVars, queryVars
      <3> QED  BY <1>1, <3>2 DEF LoopInv, Looping, Asking
    <2>2. CASE Exit
      <3>1. Looped /\ i = count
        BY <2>2 DEF Exit, Goes, ClientInv, LoopInv, Looping
      <3>2. Looped' /\ i' = count'
        BY <1>1, <3>1, LoopedKept DEF searchVars, queryVars
      <3> QED  BY <1>1, <3>2 DEF LoopInv, Looping, Asking
    <2> QED  BY <2>1, <2>2
  <1>7. PrintsOwnArrivals'
    BY <1>1 DEF PrintsOwnArrivals
  <1> QED  BY <1>2, <1>4, <1>5, <1>6, <1>7 DEF ClientInv

LEMMA SearchStep ==
    ASSUME ClientInv, SearchStops
    PROVE  ClientInv'
  <1>1. /\ UNCHANGED <<options, pc, keyVars, queryVars>> /\ pc = "search" /\ options.s # Null
        /\ Search!Next
    BY DEF SearchStops
  <1>2. Key!TypeOK' /\ KeyInv'
    BY <1>1, KeyKept DEF ClientInv, TypeOK
  <1>3. Search!TypeOK' /\ PassInv'
    BY <1>1, SearchTypeNext, PassNext DEF ClientInv, TypeOK, SearchInv
  <1>4. TypeOK'
    BY <1>1, <1>2, <1>3, FdWhere DEF ClientInv, TypeOK, queryVars, Next
  <1>5. SearchInv'
    BY <1>1, <1>3 DEF ClientInv, SearchInv, PassInv, queryVars
  <1>6. LoopInv' /\ PrintsOwnArrivals'
    BY <1>1 DEF LoopInv, PrintsOwnArrivals, Looping, Asking
  <1> QED  BY <1>2, <1>4, <1>5, <1>6 DEF ClientInv

-----------------------------------------------------------------------------
(* As many rows as there are matches, at most. *)
LEMMA MatchesBound ==
    Cardinality(Below(Search!BKK_STOP_COUNT)) \in 0..BKK_STOP_COUNT
  <1> DEFINE N == Search!BKK_STOP_COUNT
  <1>1. N \in Nat \ {0} /\ N = BKK_STOP_COUNT /\ Search!Indices = 0..N - 1
    BY RowType, SameTable
  <1>2. IsFiniteSet(0..N - 1) /\ Cardinality(0..N - 1) = N
    BY <1>1, FS_Interval
  <1>3. Below(N) \in SUBSET (0..N - 1)
    BY <1>1 DEF Below, Search!Matches
  <1>4. Cardinality(Below(N)) <= N /\ Cardinality(Below(N)) \in Nat
    BY <1>1, <1>2, <1>3, FS_Subset, BelowFinite
  <1> QED  BY <1>1, <1>4

LEMMA WantedList ==
    ASSUME NEW option, NEW list \in Seq(Search!Indices), NEW wanted,
           wanted = IF option # Null THEN <<option>>
                    ELSE [n \in 1..Len(list) |-> StopAt(list[n]).id]
    PROVE  /\ option # Null => Len(wanted) = 1 /\ wanted[1] = option
           /\ option = Null =>
                /\ Len(wanted) = Len(list)
                /\ \A n \in 1..Len(list) : wanted[n] = StopAt(list[n]).id /\ list[n] \in Indices
  <1>1. CASE option # Null
    BY <1>1
  <1>2. CASE option = Null
    <2>1. wanted = [n \in 1..Len(list) |-> StopAt(list[n]).id] /\ Len(list) \in Nat
      BY <1>2
    <2>2. Len(wanted) = Len(list)
      <3>1. wanted \in [1..Len(list) -> {StopAt(list[n]).id : n \in 1..Len(list)}]
        BY <2>1
      <3> QED  BY <2>1, <3>1
    <2>3. \A n \in 1..Len(list) : list[n] \in Indices
      BY SameTable
    <2> QED  BY <1>2, <2>1, <2>2, <2>3
  <1> QED  BY <1>1, <1>2

LEMMA WantedLength ==
    ASSUME indices \in Seq(Search!Indices)
    PROVE  /\ options.i # Null => Len(StopsWanted) = 1 /\ StopsWanted[1] = options.i
           /\ options.i = Null =>
                /\ Len(StopsWanted) = Len(indices)
                /\ \A n \in 1..Len(indices) :
                    StopsWanted[n] = StopAt(indices[n]).id /\ indices[n] \in Indices
  BY WantedList DEF StopsWanted

LEMMA EnterLoopStep ==
    ASSUME ClientInv, EnterLoop
    PROVE  ClientInv'
  <1>1. /\ UNCHANGED <<options, keyVars, search, out>>
        /\ UNCHANGED <<request, stop, client_fd, res, answers, reported>>
        /\ pc = "search" /\ pc' = "loop" /\ i' = 0 /\ response' \in Responses
        /\ indices' = IF out.stat = "BKK_STOP_FOUND" THEN out.indices ELSE <<>>
        /\ count' = IF options.i # Null THEN 1 ELSE out.count
    BY DEF EnterLoop, Goes
  <1>2. Key!TypeOK' /\ KeyInv'
    BY <1>1, KeyKept DEF ClientInv, TypeOK
  <1>3. /\ out.stat = "BKK_STOP_FOUND" => AllFound
        /\ out.stat # "BKK_STOP_FOUND" => out.count = 0
    BY DEF ClientInv, SearchInv, TypeOK, Search!TypeOK
  <1>4. /\ indices' \in Seq(Search!Indices)
        /\ out.count \in 0..BKK_STOP_COUNT /\ out.count = Len(indices')
    <2>1. CASE out.stat = "BKK_STOP_FOUND"
      BY <1>1, <1>3, <2>1, MatchesBound DEF AllFound, Holds
    <2>2. CASE out.stat # "BKK_STOP_FOUND"
      BY <1>1, <1>3, <2>2, RowType, SameTable
    <2> QED  BY <2>1, <2>2
  <1>5. count' \in 0..BKK_STOP_COUNT /\ BKK_STOP_COUNT \in Nat
    BY <1>1, <1>4, RowType, SameTable
  <1>6. Search!TypeOK' /\ (out.stat = "BKK_STOP_FOUND" => AllFound)'
    <2>1. count' \in Nat /\ i' \in 0..Search!BKK_STOP_COUNT
      BY <1>1, <1>5, SameTable
    <2> QED  BY <1>1, <1>3, <1>4, <2>1, FoundKept DEF ClientInv, TypeOK
  <1>7. TypeOK'
    BY <1>1, <1>2, <1>6, FdWhere DEF ClientInv, TypeOK, Next
  <1>8. SearchInv'
    BY <1>1, <1>6 DEF SearchInv
  <1>9. Looped'
    <2> DEFINE wanted == StopsWanted'
    <2>1. wanted = IF options'.i # Null THEN <<options'.i>>
                   ELSE [n \in 1..Len(indices') |-> StopAt(indices'[n]).id]
      BY DEF StopsWanted
    <2> HIDE DEF wanted
    <2>2. /\ options'.i # Null => Len(wanted) = 1
          /\ options'.i = Null => Len(wanted) = Len(indices')
      BY <1>4, <2>1, WantedList
    <2>3. count' = Len(StopsWanted')
      BY <1>1, <1>4, <2>2 DEF wanted
    <2>4. reported' = <<>>
      BY <1>1 DEF ClientInv, SearchInv
    <2> QED  BY <1>1, <1>5, <2>3, <2>4 DEF Looped
  <1>10. LoopInv' /\ PrintsOwnArrivals'
    BY <1>1, <1>9 DEF LoopInv, PrintsOwnArrivals, Looping, Asking
  <1> QED  BY <1>2, <1>7, <1>8, <1>10 DEF ClientInv

(* The next stop wanted is asked for. *)
LEMMA AskStep ==
    ASSUME ClientInv, AskForId \/ AskForFound
    PROVE  ClientInv'
  <1>0. pc = "loop" /\ i < count
    BY DEF AskForId, AskForFound, Goes
  <1>2. Looped
    BY <1>0 DEF ClientInv, LoopInv, Looping
  <1>3. indices \in Seq(Search!Indices) /\ i \in Nat /\ key \in Key!Texts /\ options \in Options
    BY DEF ClientInv, TypeOK, Search!TypeOK, Key!TypeOK
  <1>3a. options.i = Null =>
            /\ i + 1 \in 1..Len(indices)
            /\ StopsWanted[i + 1] = StopAt(indices[i + 1]).id /\ indices[i + 1] \in Indices
    <2> SUFFICES ASSUME options.i = Null
                 PROVE  /\ i + 1 \in 1..Len(indices)
                        /\ StopsWanted[i + 1] = StopAt(indices[i + 1]).id /\ indices[i + 1] \in Indices
      OBVIOUS
    <2>1. i + 1 \in 1..Len(indices)
      BY <1>0, <1>2, <1>3, WantedLength DEF Looped
    <2>2. StopsWanted[i + 1] = StopAt(indices[i + 1]).id /\ indices[i + 1] \in Indices
      BY <1>3, <2>1, WantedLength
    <2> QED  BY <2>1, <2>2
  <1>3b. AskForFound => /\ find_stop_by_index(indices[i + 1]).stat = "BKK_STOP_FOUND"
                        /\ find_stop_by_index(indices[i + 1]).stop = StopAt(indices[i + 1])
    BY <1>3a DEF AskForFound, find_stop_by_index
  <1>1. /\ UNCHANGED <<options, keyVars, searchVars, i, response, client_fd, res, reported>>
        /\ pc = "loop" /\ pc' = "socket" /\ i < count /\ answers' = {}
    BY <1>3b DEF AskForId, AskForFound, Goes, locals
  <1>4. /\ stop' \in Ids \cup {Null}
        /\ request' \in [stop_id : Ids, api_key : Key!Texts]
        /\ request'.stop_id = StopsWanted[i + 1]
    <2>1. CASE AskForId
      <3>1. options.i # Null /\ request' = [stop_id |-> options.i, api_key |-> key]
            /\ stop' \in Ids \cup {Null}
        BY <2>1 DEF AskForId
      <3>2. Len(StopsWanted) = 1 /\ StopsWanted[1] = options.i
        BY <1>3, <3>1, WantedLength
      <3>4. i = 0
        BY <1>1, <1>2, <1>3, <3>2 DEF Looped
      <3>3. options.i \in Ids
        BY <1>3, <3>1 DEF Options
      <3> QED  BY <1>3, <3>1, <3>2, <3>3, <3>4
    <2>2. CASE AskForFound
      <3>1. /\ options.i = Null
            /\ stop' = find_stop_by_index(indices[i + 1]).stop.id
            /\ request' = [stop_id |-> stop', api_key |-> key]
        BY <1>3b, <2>2 DEF AskForFound
      <3>3. StopsWanted[i + 1] = StopAt(indices[i + 1]).id /\ indices[i + 1] \in Indices
        BY <1>3a, <3>1
      <3>4. find_stop_by_index(indices[i + 1]).stop = StopAt(indices[i + 1])
        BY <1>3b, <2>2
      <3>5. StopAt(indices[i + 1]).id \in Ids
        <4>1. StopAt(indices[i + 1]) \in Stop
          BY <3>3, RowType, SameTable
        <4> QED  BY <4>1 DEF Stop
      <3> QED  BY <1>3, <3>1, <3>3, <3>4, <3>5
    <2> QED  BY <2>1, <2>2
  <1>5. Key!TypeOK' /\ KeyInv'
    BY <1>1, KeyKept DEF ClientInv, TypeOK
  <1>6. Search!TypeOK' /\ (AllFound => AllFound')
    BY <1>1, SearchAlone DEF ClientInv, TypeOK
  <1>7. TypeOK'
    BY <1>1, <1>4, <1>5, <1>6, FdWhere DEF ClientInv, TypeOK, Next
  <1>8. SearchInv'
    BY <1>1, <1>6 DEF ClientInv, SearchInv, searchVars
  <1>9. Looped' /\ StopsWanted' = StopsWanted
    BY <1>1, <1>2, LoopedKept DEF searchVars, StopsWanted
  <1>10. LoopInv'
    BY <1>1, <1>4, <1>9 DEF LoopInv, Looping, Asking, searchVars
  <1>11. PrintsOwnArrivals'
    BY <1>1 DEF PrintsOwnArrivals
  <1> QED  BY <1>5, <1>7, <1>8, <1>10, <1>11 DEF ClientInv

(* send_bkk_uds_query, whatever becomes of it. *)
LEMMA QueryStep ==
    ASSUME ClientInv,
           \/ SocketFails \/ Socket \/ ConnectFails \/ Connect
           \/ SendFails \/ SendKills \/ Send \/ ReceiveFails \/ Receive
    PROVE  ClientInv'
  <1>1. /\ UNCHANGED <<options, keyVars, searchVars, i, request, stop, reported>>
        /\ pc \in Asking \ {"report"} /\ pc' \in (Asking \ {"socket"}) \cup {"killed"}
    BY DEF SocketFails, Socket, ConnectFails, Connect, SendFails, SendKills, Send, ReceiveFails,
           Receive, Return, Goes, locals, Asking
  <1>2. /\ pc' = "report" => res' \in ClientStatuses
        /\ pc' # "report" => res' = res
        /\ \/ response' = response /\ answers' = answers /\ (pc' = "report" => res' # "client_OK")
           \/ response' \in AnswersTo(request.stop_id) /\ answers' = {response'}
    BY DEF SocketFails, Socket, ConnectFails, Connect, SendFails, SendKills, Send, ReceiveFails,
           Receive, Return, Goes, ClientStatuses
  <1>3. Key!TypeOK' /\ KeyInv'
    BY <1>1, KeyKept DEF ClientInv, TypeOK
  <1>4. Search!TypeOK' /\ (AllFound => AllFound')
    BY <1>1, SearchAlone DEF ClientInv, TypeOK
  <1>5. response' \in Responses \cup {Null} /\ answers' \subseteq Responses
    BY <1>2 DEF ClientInv, TypeOK, AnswersTo
  <1>6. res' \in ClientStatuses \cup {"none"}
    BY <1>2 DEF ClientInv, TypeOK
  <1>7. TypeOK'
    BY <1>1, <1>3, <1>4, <1>5, <1>6, FdWhere DEF ClientInv, TypeOK, Next, Asking
  <1>8. SearchInv'
    BY <1>1, <1>4 DEF ClientInv, SearchInv, searchVars, Asking
  <1>9. Looped
    BY <1>1 DEF ClientInv, LoopInv, Looping
  <1>10. Looped' /\ StopsWanted' = StopsWanted
    BY <1>1, <1>9, LoopedKept DEF searchVars, StopsWanted
  <1>11. LoopInv'
    BY <1>1, <1>2, <1>10 DEF ClientInv, LoopInv, Looping, Asking, searchVars
  <1>12. PrintsOwnArrivals'
    BY <1>1, <1>2 DEF PrintsOwnArrivals, AnswersTo
  <1> QED  BY <1>3, <1>7, <1>8, <1>11, <1>12 DEF ClientInv

LEMMA ReportStep ==
    ASSUME ClientInv, Report
    PROVE  ClientInv'
  <1>1. /\ UNCHANGED <<options, keyVars, searchVars, request, stop, response, client_fd, res, answers>>
        /\ pc = "report" /\ pc' = "loop" /\ i' = i + 1
        /\ reported' = Append(reported, [stop |-> request.stop_id, res |-> res])
    BY DEF Report, Goes, locals
  <1>2. /\ Looped /\ i < count /\ request \in [stop_id : Ids, api_key : Key!Texts]
        /\ request.stop_id = StopsWanted[i + 1] /\ res \in ClientStatuses
    BY <1>1 DEF ClientInv, LoopInv, Looping, Asking
  <1>3. Key!TypeOK' /\ KeyInv'
    BY <1>1, KeyKept DEF ClientInv, TypeOK
  <1>4. i \in Nat /\ i + 1 <= count /\ count \in Nat /\ count <= BKK_STOP_COUNT /\ BKK_STOP_COUNT \in Nat
    BY <1>2, RowType, SameTable DEF Looped, ClientInv, TypeOK, Search!TypeOK
  <1>5. Search!TypeOK' /\ (out.stat = "BKK_STOP_FOUND" => AllFound)'
    <2>1. i' \in 0..Search!BKK_STOP_COUNT
      BY <1>1, <1>4, SameTable
    <2>2. count' \in Nat /\ indices' \in Seq(Search!Indices)
      BY <1>1 DEF searchVars, ClientInv, TypeOK, Search!TypeOK
    <2> QED  BY <1>1, <2>1, <2>2, FoundKept DEF ClientInv, SearchInv, TypeOK, searchVars
  <1>6. [stop |-> request.stop_id, res |-> res] \in [stop : Ids, res : ClientStatuses]
    BY <1>2
  <1>7. /\ reported \in Seq([stop : Ids, res : ClientStatuses])
        /\ reported' \in Seq([stop : Ids, res : ClientStatuses])
        /\ Len(reported') = Len(reported) + 1
        /\ \A n \in 1..Len(reported) : reported'[n] = reported[n]
        /\ reported'[Len(reported) + 1].stop = request.stop_id
    BY <1>1, <1>6, AppendProperties DEF ClientInv, TypeOK
  <1>8. TypeOK'
    BY <1>1, <1>3, <1>5, <1>7, FdWhere DEF ClientInv, TypeOK, Next
  <1>9. SearchInv'
    BY <1>1, <1>5 DEF SearchInv
  <1>10. Looped'
    <2>1. StopsWanted' = StopsWanted /\ count' = count
      BY <1>1 DEF StopsWanted, searchVars
    <2>2. i' \in 0..count' /\ i' = Len(reported')
      BY <1>1, <1>2, <1>4, <1>7, <2>1 DEF Looped
    <2>3. ASSUME NEW n \in 1..i'  PROVE reported'[n].stop = StopsWanted[n]
      <3>1. CASE n = i + 1
        BY <1>2, <1>7, <3>1 DEF Looped
      <3>2. CASE n # i + 1
        <4>1. n \in 1..i
          BY <1>1, <1>4, <3>2
        <4> QED  BY <1>2, <1>7, <4>1 DEF Looped
      <3> QED  BY <3>1, <3>2
    <2> QED  BY <1>2, <2>1, <2>2, <2>3 DEF Looped
  <1>11. LoopInv' /\ PrintsOwnArrivals'
    BY <1>1, <1>10 DEF LoopInv, PrintsOwnArrivals, Looping, Asking
  <1> QED  BY <1>3, <1>8, <1>9, <1>11 DEF ClientInv

LEMMA ClientNext == ClientInv /\ [Next]_vars => ClientInv'
  <1> SUFFICES ASSUME ClientInv, [Next]_vars  PROVE ClientInv'
    OBVIOUS
  <1>1. CASE UNCHANGED vars
    <2>1. UNCHANGED <<options, pc, keyVars, searchVars, i, queryVars>>
      BY <1>1 DEF vars
    <2>2. Key!TypeOK' /\ KeyInv'
      BY <2>1, KeyKept DEF ClientInv, TypeOK
    <2>3. Search!TypeOK' /\ (PassInv => PassInv') /\ (AllFound => AllFound')
      BY <2>1, SearchAlone DEF ClientInv, TypeOK
    <2>4. TypeOK'
      BY <2>1, <2>2, <2>3, FdWhere DEF ClientInv, TypeOK, queryVars
    <2>5. SearchInv'
      BY <2>1, <2>3 DEF ClientInv, SearchInv, Untouched, queryVars, searchVars, Search!None
    <2>6. (Looped => Looped') /\ (Untouched => Untouched') /\ StopsWanted' = StopsWanted
      BY <2>1, LoopedKept DEF queryVars, searchVars, Untouched, StopsWanted
    <2>7. LoopInv' /\ PrintsOwnArrivals'
      BY <2>1, <2>6 DEF ClientInv, LoopInv, PrintsOwnArrivals, queryVars, searchVars
    <2> QED  BY <2>2, <2>4, <2>5, <2>7 DEF ClientInv
  <1> QED
    BY <1>1, ReadKeyStep, ExitStep, SearchStep, EnterLoopStep, AskStep, QueryStep, ReportStep DEF Next

LEMMA ClientAlways == Spec => []ClientInv
  BY ClientInit, ClientNext, PTL DEF Spec

(* Types; and no query starts with a descriptor that another one left.     *)
THEOREM TypeCorrect == Spec => []TypeOK
  <1>1. ClientInv => TypeOK
    BY DEF ClientInv
  <1> QED  BY <1>1, ClientAlways, PTL

(* A file that is not written while it is read gives the key it holds,     *)
(* without the blanks at its ends, whatever its length and its letters.    *)
THEOREM KeyOfFile == Spec => []KeyIsTrimmedFile
  <1>1. ClientInv => KeyIsTrimmedFile
    BY DEF ClientInv, KeyInv, KeyIsTrimmedFile
  <1> QED  BY <1>1, ClientAlways, PTL

(* The array that the search asked for is large enough for what it finds.  *)
THEOREM Allocation == Spec => []WithinAllocation
  <1>1. ClientInv => WithinAllocation
    BY PassWithin DEF ClientInv, TypeOK, SearchInv, WithinAllocation
  <1> QED  BY <1>1, ClientAlways, PTL

(* What is found are the stops that match, once each and in order.         *)
THEOREM Found == Spec => []FoundAreTheMatches
  <1>1. ClientInv => FoundAreTheMatches
    BY FoundMatches DEF ClientInv, SearchInv, FoundAreTheMatches
  <1> QED  BY <1>1, ClientAlways, PTL

(* Arrivals are printed under the id of the stop they are for, and come    *)
(* from the query that is reported.                                        *)
THEOREM OwnArrivals == Spec => []PrintsOwnArrivals
  <1>1. ClientInv => PrintsOwnArrivals
    BY DEF ClientInv
  <1> QED  BY <1>1, ClientAlways, PTL

(* Each stop wanted is asked for and reported once, in order, however its  *)
(* predecessors' queries ended.                                            *)
THEOREM ReportedOnce == Spec => []EveryStopReportedOnce
  <1>1. ClientInv => EveryStopReportedOnce
    <2> SUFFICES ASSUME ClientInv  PROVE EveryStopReportedOnce
      OBVIOUS
    <2>1. Len(StopsWanted) \in Nat
      <3>1. indices \in Seq(Search!Indices)
        BY DEF ClientInv, TypeOK, Search!TypeOK
      <3> QED  BY <3>1, WantedLength
    <2>2. CASE pc \in {"key", "search"}
      <3>1. reported = <<>> /\ (pc = "key" => Untouched)
        BY <2>2 DEF ClientInv, SearchInv
      <3> QED  BY <2>1, <2>2, <3>1 DEF EveryStopReportedOnce, Untouched
    <2>3. CASE pc \in Looping
      <3>1. Looped
        BY <2>3 DEF ClientInv, LoopInv
      <3> QED  BY <2>1, <2>3, <3>1 DEF EveryStopReportedOnce, Looped, Looping, Asking
    <2>4. CASE pc = "exited"
      <3>1. Untouched \/ (Looped /\ i = count)
        BY <2>4 DEF ClientInv, LoopInv
      <3>2. CASE Untouched
        BY <2>1, <3>2 DEF EveryStopReportedOnce, Untouched
      <3>3. CASE Looped /\ i = count
        BY <2>1, <3>3 DEF EveryStopReportedOnce, Looped
      <3> QED  BY <3>1, <3>2, <3>3
    <2> QED  BY <2>2, <2>3, <2>4 DEF ClientInv, TypeOK, Looping, Asking
  <1> QED  BY <1>1, ClientAlways, PTL
=============================================================================
