----------------------------- MODULE History_proofs -----------------------------
(* Of the log that grows while it is read: that two pages leave no gap however  *)
(* many rows are written between the requests, as a row keeps its place from   *)
(* the old end; that the host each failure is traced to is one that explains   *)
(* it; that what a report tells of a second that is over is settled; and that  *)
(* the incidents it counts are the time an object was in a hard problem.       *)
EXTENDS History, LogReports_proofs

\* The log is a sequence, and a row has the number of its place and a known host.
Numbered == /\ log \in Seq(ToSet(log))
            /\ \A i \in DOMAIN log : log[i].n = i /\ log[i].host \in ToSet(Names)

\* The places a page at an offset is read from when the log has n rows, of backends
\* whose rows are counted together.
NewerOf(rows, i, sites, n) == Cardinality({j \in 1..n : i < j /\ rows[j].backend \in sites})
OnPage(rows, sites, n, offset) == {i \in 1..n :
    rows[i].backend \in sites /\ NewerOf(rows, i, sites, n) \in offset..(offset + Page - 1)}

\* Of the rows of some backends, those at the places have been given.
Exactly(rows, given, sites, places) == \A i \in DOMAIN rows :
    rows[i].backend \in sites => (rows[i] \in given <=> i \in places)

\* What the caller has been given: the first page as the log was when it was asked
\* for, and the second one as the log was then, wherever both counted alike.
OnePage(rows, given, first, m) == \A together \in first :
    Exactly(rows, given, together, OnPage(rows, together, m, 0))
BothPages(rows, given, alike, m, n) == \A together \in alike :
    Exactly(rows, given, together,
            OnPage(rows, together, m, 0) \cup OnPage(rows, together, n, Page))
Given ==
    /\ stage = "writing" => answer = <<>> /\ pages = <<>>
    /\ stage \in {"paging", "paged"} =>
         answer \in Seq(ToSet(log)) /\ asked.rows \in 0..Len(log)
    /\ stage = "paging" => \E first :
         pages = <<first>> /\ OnePage(log, ToSet(answer), first, asked.rows)
    /\ stage = "paged" => \E n \in asked.rows..Len(log) :
         BothPages(log, ToSet(answer), pages[1] \cap pages[2], asked.rows, n)

PagesInv == Numbered /\ Given
----------------------------------------------------------------------------
\* A reversed sequence has the same members.
LEMMA ReverseMembers ==
    ASSUME NEW S, NEW s \in Seq(S)
    PROVE  Reverse(s) \in Seq(S) /\ Len(Reverse(s)) = Len(s) /\ ToSet(Reverse(s)) = ToSet(s)
<1> DEFINE n == Len(s)
           back == Reverse(s)
<1>1. n \in Nat /\ \A i \in 1..n : s[i] \in S
  BY LenProperties, ElementOfSeq
<1>2. back = [i \in 1..n |-> s[(n - i) + 1]]
  BY DEF Reverse
<1> HIDE DEF n, back
<1>3. \A i \in 1..n : (n - i) + 1 \in 1..n /\ (n - ((n - i) + 1)) + 1 = i
  BY <1>1
<1>4. back \in [1..n -> S]
  BY <1>1, <1>2, <1>3
<1>5. back \in Seq(S) /\ Len(back) = n
  BY <1>1, <1>4, SeqDef, IsASeq, LenProperties
<1>6. ToSet(back) = {back[i] : i \in 1..n} /\ ToSet(s) = {s[i] : i \in 1..n}
  BY <1>5, Members DEF n
<1>7. \A i \in 1..n : back[i] = s[(n - i) + 1] /\ back[(n - i) + 1] = s[i]
  BY <1>2, <1>3
<1>8. ToSet(back) = ToSet(s)
  BY <1>3, <1>6, <1>7
<1> QED BY <1>5, <1>8 DEF back, n
----------------------------------------------------------------------------
(* Each step. *)

\* What the row at the end of the log is like.
NextRow(row) == row.n = Len(log) + 1 /\ row.host \in ToSet(Names)

\* Whatever happens to an object, at most one row is written, at the end.
LEMMA HappensWrites ==
    ASSUME NEW m \in Monitored, Happens(m)
    PROVE  /\ UNCHANGED report
           /\ log' = log \/ \E row : NextRow(row) /\ log' = Append(log, row)
<1>1. \A type, state, hard, detail : Write(m, type, state, hard, detail) =>
        \E row : NextRow(row) /\ log' = Append(log, row)
  <2> TAKE type, state, hard, detail
  <2> HAVE Write(m, type, state, hard, detail)
  <2> DEFINE row == [n |-> Len(log) + 1, time |-> now, backend |-> m[1], host |-> m[2],
                     service |-> m[3], type |-> type, state |-> state, hard |-> hard,
                     detail |-> detail]
  <2>1. log' = Append(log, row)
    BY DEF Write
  <2>2. NextRow(row)
    BY HistoryAssumption DEF NextRow
  <2> HIDE DEF row
  <2> QED BY <2>1, <2>2
<1>2. Event(m)
  BY DEF Happens, Alert, DowntimeBegins, DowntimeEnds, Acknowledged, AcknowledgementRemoved, Notified
<1>3. UNCHANGED report
  BY <1>2 DEF Event
<1>4. CASE \E hard \in BOOLEAN, state \in States[m] : Alert(m, state, hard)
  BY <1>1, <1>3, <1>4 DEF Alert
<1>5. CASE DowntimeBegins(m)
  BY <1>1, <1>3, <1>5 DEF DowntimeBegins
<1>6. CASE DowntimeEnds(m)
  BY <1>1, <1>3, <1>6 DEF DowntimeEnds
<1>7. CASE Acknowledged(m) \/ AcknowledgementRemoved(m)
  BY <1>1, <1>3, <1>7 DEF Acknowledged, AcknowledgementRemoved
<1>8. CASE Notified(m)
  BY <1>1, <1>3, <1>8 DEF Notified
<1> QED BY <1>4, <1>5, <1>6, <1>7, <1>8 DEF Happens

\* A row written at the end leaves every other one where it is.
LEMMA RowsStay ==
    ASSUME Numbered, NEW row, NextRow(row), log' = Append(log, row)
    PROVE  /\ Numbered'
           /\ Len(log) \in Nat /\ Len(log') = Len(log) + 1
           /\ DOMAIN log = 1..Len(log) /\ DOMAIN log' = 1..(Len(log) + 1)
           /\ \A i \in DOMAIN log : log'[i] = log[i]
           /\ log'[Len(log) + 1] = row
<1> DEFINE S == ToSet(log) \cup {row}
<1>1. log \in Seq(S)
  <2>1. ToSet(log) \subseteq S
    OBVIOUS
  <2> HIDE DEF S
  <2> QED BY <2>1, SeqMonotonic DEF Numbered
<1>2. row \in S
  OBVIOUS
<1> HIDE DEF S
<1>3. Len(log) \in Nat /\ DOMAIN log = 1..Len(log)
  BY <1>1, Members
<1>4. /\ Append(log, row) \in Seq(S) /\ Len(Append(log, row)) = Len(log) + 1
      /\ \A i \in 1..Len(log) : Append(log, row)[i] = log[i]
      /\ Append(log, row)[Len(log) + 1] = row
  BY <1>1, <1>2, AppendProperties
<1>5. log' \in Seq(S) /\ Len(log') = Len(log) + 1 /\ log'[Len(log) + 1] = row
      /\ \A i \in 1..Len(log) : log'[i] = log[i]
  BY <1>4
<1>6. log' \in Seq(ToSet(log')) /\ DOMAIN log' = 1..(Len(log) + 1)
  BY <1>5, Members
<1>7. \A i \in DOMAIN log' : log'[i].n = i /\ log'[i].host \in ToSet(Names)
  <2> TAKE i \in DOMAIN log'
  <2>1. CASE i = Len(log) + 1
    BY <1>5, <2>1 DEF NextRow
  <2>2. CASE i # Len(log) + 1
    <3>1. i \in 1..Len(log)
      BY <1>3, <1>6, <2>2
    <3> QED BY <1>3, <1>5, <3>1 DEF Numbered
  <2> QED BY <2>1, <2>2
<1> QED BY <1>3, <1>5, <1>6, <1>7 DEF Numbered

\* Rows written later do not change what a page was read from.
LEMMA OnPageStays ==
    ASSUME Numbered, NEW row, NextRow(row), log' = Append(log, row),
           NEW sites, NEW n \in 0..Len(log), NEW offset
    PROVE  /\ OnPage(log', sites, n, offset) = OnPage(log, sites, n, offset)
           /\ OnPage(log, sites, n, offset) \subseteq DOMAIN log
<1>1. Len(log) \in Nat /\ DOMAIN log = 1..Len(log) /\ \A i \in DOMAIN log : log'[i] = log[i]
  BY RowsStay
<1>2. 1..n \subseteq DOMAIN log /\ \A i \in 1..n : log'[i] = log[i]
  BY <1>1
<1>3. ASSUME NEW i PROVE NewerOf(log', i, sites, n) = NewerOf(log, i, sites, n)
  <2>1. {j \in 1..n : i < j /\ log'[j].backend \in sites} = {j \in 1..n : i < j /\ log[j].backend \in sites}
    BY <1>2
  <2> QED BY <2>1 DEF NewerOf
<1> QED BY <1>2, <1>3 DEF OnPage

\* A row that is written is none of those that were given.
LEMMA ExactlyStays ==
    ASSUME Numbered, NEW row, NextRow(row), log' = Append(log, row),
           NEW given, given \subseteq ToSet(log), NEW sites,
           NEW places, places \subseteq DOMAIN log, Exactly(log, given, sites, places)
    PROVE  Exactly(log', given, sites, places)
<1>1. /\ Len(log) \in Nat /\ DOMAIN log = 1..Len(log) /\ DOMAIN log' = 1..(Len(log) + 1)
      /\ \A i \in DOMAIN log : log'[i] = log[i]
      /\ log'[Len(log) + 1].n = Len(log) + 1
  BY RowsStay DEF NextRow
<1>2. \A r \in given : r.n \in DOMAIN log
  BY DEF Numbered, ToSet
<1>3. Len(log) + 1 \notin DOMAIN log /\ log'[Len(log) + 1] \notin given
  BY <1>1, <1>2
<1>4. ASSUME NEW i \in DOMAIN log', log'[i].backend \in sites
      PROVE  log'[i] \in given <=> i \in places
  <2>1. CASE i \in DOMAIN log
    BY <1>1, <1>4, <2>1 DEF Exactly
  <2>2. CASE i \notin DOMAIN log
    <3>1. i = Len(log) + 1
      BY <1>1, <1>4, <2>2
    <3> QED BY <1>3, <3>1
  <2> QED BY <2>1, <2>2
<1> QED BY <1>4 DEF Exactly

\* What the pages were read from stays where it is.
LEMMA GivenStays ==
    ASSUME Numbered, NEW row, NextRow(row), log' = Append(log, row), Given, UNCHANGED report
    PROVE  Given'
<1>1. /\ Len(log) \in Nat /\ Len(log') = Len(log) + 1
      /\ DOMAIN log = 1..Len(log) /\ DOMAIN log' = 1..(Len(log) + 1)
      /\ \A i \in DOMAIN log : log'[i] = log[i]
  BY RowsStay
<1>2. stage' = stage /\ answer' = answer /\ asked' = asked /\ pages' = pages
  BY DEF report
<1>3. log' \in Seq(ToSet(log')) /\ ToSet(log) \subseteq ToSet(log')
  <2>1. Numbered'
    BY RowsStay
  <2> QED BY <1>1, <2>1 DEF Numbered, ToSet
<1>4. CASE stage \in {"paging", "paged"}
  <2>1. answer \in Seq(ToSet(log)) /\ asked.rows \in 0..Len(log)
    BY <1>4 DEF Given
  <2>2. answer' \in Seq(ToSet(log'))
    BY <1>2, <1>3, <2>1, SeqMonotonic
  <2>3. asked'.rows \in 0..Len(log')
    BY <1>1, <1>2, <2>1
  <2>4. ToSet(answer) \subseteq ToSet(log)
    BY <2>1, Members
  <2>5. ASSUME NEW sites, NEW n \in 0..Len(log), NEW offset
        PROVE  /\ OnPage(log', sites, n, offset) = OnPage(log, sites, n, offset)
               /\ OnPage(log, sites, n, offset) \subseteq DOMAIN log
    BY OnPageStays
  <2>6. CASE stage = "paging"
    <3>1. PICK first : pages = <<first>> /\ OnePage(log, ToSet(answer), first, asked.rows)
      BY <2>6 DEF Given
    <3>2. ASSUME NEW together \in first
          PROVE  Exactly(log', ToSet(answer), together, OnPage(log', together, asked.rows, 0))
      <4>1. Exactly(log, ToSet(answer), together, OnPage(log, together, asked.rows, 0))
        BY <3>1 DEF OnePage
      <4>2. /\ OnPage(log', together, asked.rows, 0) = OnPage(log, together, asked.rows, 0)
            /\ OnPage(log, together, asked.rows, 0) \subseteq DOMAIN log
        BY <2>1, <2>5
      <4>3. Exactly(log', ToSet(answer), together, OnPage(log, together, asked.rows, 0))
        BY <2>4, <4>1, <4>2, ExactlyStays
      <4> QED BY <4>2, <4>3
    <3>3. OnePage(log', ToSet(answer'), first, asked'.rows)
      BY <1>2, <3>2 DEF OnePage
    <3> QED BY <1>2, <2>2, <2>3, <2>6, <3>1, <3>3 DEF Given
  <2>7. CASE stage = "paged"
    <3>1. PICK n \in asked.rows..Len(log) :
            BothPages(log, ToSet(answer), pages[1] \cap pages[2], asked.rows, n)
      BY <2>7 DEF Given
    <3>2. n \in 0..Len(log) /\ n \in asked'.rows..Len(log')
      BY <1>1, <1>2, <2>1, <3>1
    <3>3. ASSUME NEW together \in pages[1] \cap pages[2]
          PROVE  Exactly(log', ToSet(answer), together,
                   OnPage(log', together, asked.rows, 0) \cup OnPage(log', together, n, Page))
      <4> DEFINE places == OnPage(log, together, asked.rows, 0) \cup OnPage(log, together, n, Page)
      <4>1. Exactly(log, ToSet(answer), together, places)
        BY <3>1 DEF BothPages
      <4>2. /\ OnPage(log', together, asked.rows, 0) = OnPage(log, together, asked.rows, 0)
            /\ OnPage(log, together, asked.rows, 0) \subseteq DOMAIN log
        BY <2>1, <2>5
      <4>3. /\ OnPage(log', together, n, Page) = OnPage(log, together, n, Page)
            /\ OnPage(log, together, n, Page) \subseteq DOMAIN log
        BY <2>5, <3>2
      <4>4. places \subseteq DOMAIN log
        BY <4>2, <4>3
      <4>5. places = OnPage(log', together, asked.rows, 0) \cup OnPage(log', together, n, Page)
        BY <4>2, <4>3
      <4> HIDE DEF places
      <4>6. Exactly(log', ToSet(answer), together, places)
        BY <2>4, <4>1, <4>4, ExactlyStays
      <4> QED BY <4>5, <4>6
    <3>4. BothPages(log', ToSet(answer'), pages'[1] \cap pages'[2], asked'.rows, n)
      BY <1>2, <3>3 DEF BothPages
    <3> QED BY <1>2, <2>2, <2>3, <2>7, <3>1, <3>2, <3>4 DEF Given
  <2> QED BY <1>4, <2>6, <2>7
<1>5. CASE stage \notin {"paging", "paged"}
  BY <1>2, <1>5 DEF Given
<1> QED BY <1>4, <1>5
----------------------------------------------------------------------------
(* The pages. *)

\* The rows of some backends that are given are those at their places.
LEMMA SliceGiven ==
    ASSUME Numbered, NEW sites, NEW offset
    PROVE  /\ Slice(sites, offset) \in Seq(ToSet(log))
           /\ ToSet(Slice(sites, offset)) = {log[i] : i \in OnPage(log, sites, Len(log), offset)}
<1> DEFINE places == {i \in DOMAIN log :
                log[i].backend \in sites /\ Newer(i, sites) \in offset..(offset + Page - 1)}
           rows == Chosen(log, places)
           S == ToSet(log)
<1>1. log \in Seq(S) /\ DOMAIN log = 1..Len(log)
  BY Members DEF Numbered
<1>2. places = OnPage(log, sites, Len(log), offset)
  BY <1>1 DEF OnPage, NewerOf, Newer
<1>3. Slice(sites, offset) = Reverse(rows)
  BY DEF Slice
<1>4. places \in SUBSET DOMAIN log
  OBVIOUS
<1> HIDE DEF S, places
<1>5. rows \in Seq(S) /\ ToSet(rows) = {log[i] : i \in places}
  <2>1. rows = Chosen(log, places)
    OBVIOUS
  <2> HIDE DEF rows
  <2> QED BY <1>1, <1>4, <2>1, ChosenProperties
<1> HIDE DEF rows
<1>6. Reverse(rows) \in Seq(S) /\ ToSet(Reverse(rows)) = ToSet(rows)
  BY <1>5, ReverseMembers
<1> QED BY <1>2, <1>3, <1>5, <1>6 DEF S

\* What is counted together is given as if there was nothing else.
LEMMA PagedGives ==
    ASSUME Numbered, NEW offset, NEW page \in Paged(offset)
    PROVE  /\ page.rows \in Seq(ToSet(log))
           /\ \A together \in page.together : Exactly(log, ToSet(page.rows), together,
                OnPage(log, together, Len(log), offset))
<1> DEFINE S == ToSet(log)
           Place(sites) == OnPage(log, sites, Len(log), offset)
           Parts(answering) == [k \in DOMAIN Backends |-> Slice(answering \cap {Backends[k]}, offset)]
<1>1. \A i \in DOMAIN log, j \in DOMAIN log : log[i] = log[j] => i = j
  BY DEF Numbered
<1>2. \A sites : Place(sites) \subseteq DOMAIN log /\ \A i \in Place(sites) : log[i].backend \in sites
  <2>1. DOMAIN log = 1..Len(log)
    BY Members DEF Numbered
  <2> QED BY <2>1 DEF OnPage
<1>3. \A sites : Slice(sites, offset) \in Seq(S) /\ ToSet(Slice(sites, offset)) = {log[i] : i \in Place(sites)}
  BY SliceGiven
<1> HIDE DEF Place
<1>4. CASE page = [together |-> {Sites}, missing |-> FALSE, rows |-> Slice(Sites, offset)]
  <2>1. page.together = {Sites} /\ page.rows = Slice(Sites, offset)
    BY <1>4
  <2>2. page.rows \in Seq(S) /\ ToSet(page.rows) = {log[i] : i \in Place(Sites)}
    BY <1>3, <2>1
  <2>3. Exactly(log, ToSet(page.rows), Sites, Place(Sites))
    BY <1>1, <1>2, <2>2 DEF Exactly
  <2> QED BY <2>1, <2>2, <2>3 DEF Place
<1>5. ASSUME NEW answering \in SUBSET Sites, page.together = {{s} : s \in answering},
             page.rows = FlattenSeq(Parts(answering))
      PROVE  /\ page.rows \in Seq(S)
             /\ \A together \in page.together : Exactly(log, ToSet(page.rows), together, Place(together))
  <2> DEFINE parts == Parts(answering)
  <2>1. Len(Backends) \in Nat /\ DOMAIN Backends = 1..Len(Backends) /\ DOMAIN parts = DOMAIN Backends
    BY HistoryAssumption, Members
  <2>2. \A k \in DOMAIN Backends : /\ parts[k] \in Seq(S)
                                  /\ ToSet(parts[k]) = {log[i] : i \in Place(answering \cap {Backends[k]})}
    BY <1>3
  <2>3. parts = [k \in DOMAIN Backends |-> parts[k]] /\ page.rows = FlattenSeq(parts)
    BY <1>5
  <2> HIDE DEF parts, S
  <2>4. parts \in Seq(Seq(S))
    <3> DEFINE T == Seq(S)
    <3>1. \A k \in DOMAIN Backends : parts[k] \in T
      BY <2>2
    <3> HIDE DEF T
    <3>2. parts \in [1..Len(Backends) -> T]
      BY <2>1, <2>3, <3>1
    <3>3. parts \in Seq(T)
      BY <2>1, <3>2, SeqDef
    <3> QED BY <3>3 DEF T
  <2>5. page.rows \in Seq(S) /\ ToSet(page.rows) = UNION {ToSet(parts[k]) : k \in DOMAIN parts}
    BY <2>3, <2>4, Flattened
  <2>6. ASSUME NEW s \in answering, NEW i \in DOMAIN log, log[i].backend \in {s}
        PROVE  log[i] \in ToSet(page.rows) <=> i \in Place({s})
    <3>1. PICK k \in DOMAIN Backends : Backends[k] = s
      BY HistoryAssumption DEF ToSet
    <3>2. answering \cap {Backends[k]} = {s}
      BY <3>1
    <3>3. ASSUME i \in Place({s}) PROVE log[i] \in ToSet(page.rows)
      <4>1. log[i] \in ToSet(parts[k])
        BY <2>2, <3>2, <3>3
      <4> QED BY <2>1, <2>5, <4>1
    <3>4. ASSUME log[i] \in ToSet(page.rows) PROVE i \in Place({s})
      <4>1. PICK m \in DOMAIN Backends : log[i] \in ToSet(parts[m])
        BY <2>1, <2>5, <3>4
      <4> DEFINE here == Place(answering \cap {Backends[m]})
      <4>6. log[i] \in {log[j] : j \in here}
        BY <2>2, <4>1
      <4> HIDE DEF here
      <4>7. PICK j \in here : log[i] = log[j]
        BY <4>6
      <4>2. j \in Place(answering \cap {Backends[m]}) /\ log[i] = log[j]
        BY <4>7 DEF here
      <4>3. j \in DOMAIN log /\ log[j].backend \in answering \cap {Backends[m]}
        BY <1>2, <4>2
      <4>4. i = j
        BY <1>1, <4>2, <4>3
      <4>5. answering \cap {Backends[m]} = {s}
        BY <2>6, <4>3, <4>4
      <4> QED BY <4>2, <4>4, <4>5
    <3> QED BY <3>3, <3>4
  <2>7. \A s \in answering : Exactly(log, ToSet(page.rows), {s}, Place({s}))
    BY <2>6 DEF Exactly
  <2> QED BY <1>5, <2>5, <2>7
<1>6. CASE page # [together |-> {Sites}, missing |-> FALSE, rows |-> Slice(Sites, offset)]
  <2>1. PICK f \in Fallbacks :
          page = [together |-> {{s} : s \in f.answering}, missing |-> f.answering # f.connected,
                  rows |-> FlattenSeq(Parts(f.answering))]
    BY <1>6 DEF Paged
  <2>2. f.answering \in SUBSET Sites
    BY DEF Fallbacks
  <2> DEFINE rows == FlattenSeq(Parts(f.answering))
  <2>3. page = [together |-> {{s} : s \in f.answering}, missing |-> f.answering # f.connected, rows |-> rows]
    BY <2>1
  <2>4. page.together = {{s} : s \in f.answering} /\ page.rows = rows
    <3> HIDE DEF rows
    <3> QED BY <2>3
  <2> QED BY <1>5, <2>2, <2>4 DEF Place, S
<1> QED BY <1>4, <1>6 DEF Place, S

\* The first page is the newest rows.
LEMMA FirstPageGiven ==
    ASSUME Numbered, Given, FirstPage
    PROVE  PagesInv'
<1>1. PICK page \in Paged(0) : answer' = answer \o page.rows /\ pages' = Append(pages, page.together)
  BY DEF FirstPage, Turned
<1>2. /\ stage = "writing" /\ stage' = "paging" /\ log' = log /\ asked'.rows = Len(log)
  BY DEF FirstPage, core
<1> DEFINE rows == page.rows
           first == page.together
<1>3. rows \in Seq(ToSet(log)) /\ \A together \in first : Exactly(log, ToSet(rows), together,
        OnPage(log, together, Len(log), 0))
  BY PagedGives
<1> HIDE DEF rows, first
<1>4. answer' = rows /\ pages' = <<first>>
  <2>1. answer = <<>> /\ pages = <<>>
    BY <1>2 DEF Given
  <2>2. answer' = <<>> \o rows /\ pages' = Append(<<>>, first)
    BY <1>1, <2>1 DEF rows, first
  <2>3. <<>> \o rows = rows
    BY <1>3, ConcatEmptySeq
  <2>4. Append(<<>>, first) = <<first>>
    OBVIOUS
  <2> QED BY <2>2, <2>3, <2>4
<1>5. Len(log) \in 0..Len(log)
  <2>1. Len(log) \in Nat
    BY LenProperties DEF Numbered
  <2> QED BY <2>1
<1>6. OnePage(log', ToSet(answer'), first, asked'.rows)
  BY <1>2, <1>3, <1>4 DEF OnePage
<1>7. Given'
  BY <1>2, <1>3, <1>4, <1>5, <1>6 DEF Given
<1>8. Numbered'
  BY <1>2 DEF Numbered
<1> QED BY <1>7, <1>8 DEF PagesInv

\* The second page is read from the log as it is by then.
LEMMA NextPageGiven ==
    ASSUME Numbered, Given, NextPage
    PROVE  PagesInv'
<1>1. PICK page \in Paged(Page) : answer' = answer \o page.rows /\ pages' = Append(pages, page.together)
  BY DEF NextPage, Turned
<1>2. /\ stage = "paging" /\ stage' = "paged" /\ log' = log /\ asked' = asked
  BY DEF NextPage, core
<1> DEFINE rows == page.rows
           second == page.together
           n == Len(log)
<1>3. rows \in Seq(ToSet(log)) /\ \A together \in second : Exactly(log, ToSet(rows), together,
        OnPage(log, together, n, Page))
  BY PagedGives
<1>4. answer' = answer \o rows /\ pages' = Append(pages, second)
  BY <1>1
<1> HIDE DEF rows, second
<1>5. PICK first : pages = <<first>> /\ OnePage(log, ToSet(answer), first, asked.rows)
  BY <1>2 DEF Given
<1>6. answer \in Seq(ToSet(log)) /\ asked.rows \in 0..n
  BY <1>2 DEF Given
<1>7. answer' \in Seq(ToSet(log)) /\ ToSet(answer') = ToSet(answer) \cup ToSet(rows)
  BY <1>3, <1>4, <1>6, MembersOfBoth
<1>8. pages'[1] = first /\ pages'[2] = second
  <2> DEFINE S == {first, second}
  <2>1. first \in S /\ second \in S
    OBVIOUS
  <2> HIDE DEF S
  <2>2. <<first>> \in Seq(S) /\ Len(<<first>>) = 1 /\ <<first>>[1] = first
    BY <2>1
  <2>3. /\ \A k \in 1..Len(<<first>>) : Append(<<first>>, second)[k] = <<first>>[k]
        /\ Append(<<first>>, second)[Len(<<first>>) + 1] = second
    BY <2>1, <2>2, AppendProperties
  <2> QED BY <1>4, <1>5, <2>2, <2>3
<1>9. n \in Nat /\ n \in asked.rows..n
  <2>1. n \in Nat
    BY LenProperties DEF Numbered
  <2> QED BY <1>6, <2>1
<1>10. BothPages(log, ToSet(answer'), pages'[1] \cap pages'[2], asked.rows, n)
  BY <1>3, <1>5, <1>7, <1>8 DEF OnePage, BothPages, Exactly
<1>11. Given'
  BY <1>2, <1>6, <1>7, <1>9, <1>10 DEF Given
<1>12. Numbered'
  BY <1>2 DEF Numbered
<1> QED BY <1>11, <1>12 DEF PagesInv
----------------------------------------------------------------------------
\* At first nothing is written and nothing has been asked for.
LEMMA PagesInit == Init => PagesInv
<1> SUFFICES ASSUME Init PROVE PagesInv
  OBVIOUS
<1>1. log = <<>> /\ stage = "writing" /\ answer = <<>> /\ pages = <<>>
  BY DEF Init
<1>2. log \in Seq(ToSet(log)) /\ DOMAIN log = {}
  <2>1. log \in Seq({})
    BY <1>1, EmptySeq
  <2> QED BY <1>1, <2>1, Members
<1> QED BY <1>1, <1>2 DEF PagesInv, Numbered, Given

\* No step disturbs the numbers of the rows or what the pages were read from.
LEMMA PagesNext == PagesInv /\ [Next]_vars => PagesInv'
<1> SUFFICES ASSUME PagesInv, [Next]_vars PROVE PagesInv'
  OBVIOUS
<1>0. Numbered /\ Given
  BY DEF PagesInv
<1>1. ASSUME UNCHANGED <<log, stage, asked, answer, pages>> PROVE PagesInv'
  BY <1>0, <1>1 DEF PagesInv, Numbered, Given
<1>2. CASE \E m \in Monitored : Happens(m)
  <2>1. UNCHANGED report /\ (log' = log \/ \E row : NextRow(row) /\ log' = Append(log, row))
    BY <1>2, HappensWrites
  <2>2. CASE log' = log
    BY <1>1, <2>1, <2>2 DEF report
  <2>3. CASE \E row : NextRow(row) /\ log' = Append(log, row)
    BY <1>0, <2>1, <2>3, RowsStay, GivenStays DEF PagesInv
  <2> QED BY <2>1, <2>2, <2>3
<1>3. CASE Tick
  BY <1>1, <1>3 DEF Tick, report
<1>4. ASSUME log' = log, stage' \notin {"writing", "paging", "paged"} PROVE PagesInv'
  BY <1>0, <1>4 DEF PagesInv, Numbered, Given
<1>5. CASE Count
  BY <1>4, <1>5 DEF Count, core
<1>6. CASE FetchWhole \/ FetchEach
  BY <1>4, <1>6 DEF FetchWhole, FetchEach, Reported, core
<1>7. CASE FirstPage
  BY <1>0, <1>7, FirstPageGiven
<1>8. CASE NextPage
  BY <1>0, <1>8, NextPageGiven
<1>9. CASE UNCHANGED vars
  BY <1>1, <1>9 DEF vars, core, report
<1> QED BY <1>2, <1>3, <1>5, <1>6, <1>7, <1>8, <1>9 DEF Next

\* Rows keep their numbers, and of the backends whose rows were counted together for
\* both pages a caller has been given just the rows of two pages, each of the log as
\* it was at that moment, whether the pages came whole or on the fallback.
THEOREM PagesInvariant == Spec => []PagesInv
<1> QED BY PagesInit, PagesNext, PTL DEF Spec

\* Of newer rows there are fewer newer ones, and the fewer the shorter the log is.
LEMMA FewerNewer ==
    ASSUME NEW rows, NEW sites, NEW n \in Nat, NEW m \in 0..n,
           NEW i \in Nat, NEW j \in Nat, i <= j
    PROVE  /\ NewerOf(rows, j, sites, m) \in Nat /\ NewerOf(rows, i, sites, n) \in Nat
           /\ NewerOf(rows, j, sites, m) <= NewerOf(rows, i, sites, n)
<1> DEFINE fewer == {k \in 1..m : j < k /\ rows[k].backend \in sites}
           more == {k \in 1..n : i < k /\ rows[k].backend \in sites}
<1>1. IsFiniteSet(1..n) /\ more \subseteq 1..n /\ fewer \subseteq more
  <2>1. IsFiniteSet(1..n)
    BY FS_Interval
  <2> QED BY <2>1
<1>2. IsFiniteSet(more) /\ IsFiniteSet(fewer) /\ Cardinality(fewer) <= Cardinality(more)
  <2>1. IsFiniteSet(more)
    BY <1>1, FS_Subset
  <2> QED BY <1>1, <2>1, FS_Subset
<1>3. Cardinality(more) \in Nat /\ Cardinality(fewer) \in Nat
  BY <1>2, FS_CardinalityType
<1>4. Cardinality(fewer) = NewerOf(rows, j, sites, m) /\ Cardinality(more) = NewerOf(rows, i, sites, n)
  BY DEF NewerOf
<1> QED BY <1>2, <1>3, <1>4

\* What the invariant says of the pages is enough.
LEMMA PagesMeet == PagesInv => PagesLeaveNoGap
<1> SUFFICES ASSUME PagesInv, stage = "paged", NEW together \in pages[1] \cap pages[2],
                    NEW i \in DOMAIN log, NEW j \in DOMAIN log,
                    log[i].backend \in together, log[j].backend \in together,
                    i < j, j <= asked.rows, log[i] \in ToSet(answer)
             PROVE  log[j] \in ToSet(answer)
  BY DEF PagesLeaveNoGap
<1>1. Len(log) \in Nat /\ DOMAIN log = 1..Len(log) /\ Page \in Nat \ {0}
  BY Members, HistoryAssumption DEF PagesInv, Numbered
<1>2. PICK n \in asked.rows..Len(log) :
        BothPages(log, ToSet(answer), pages[1] \cap pages[2], asked.rows, n)
  BY DEF PagesInv, Given
<1> DEFINE m == asked.rows
<1>3. m \in Nat /\ n \in Nat /\ m <= n /\ j \in 1..m /\ i \in 1..m
  <2>1. asked.rows \in 0..Len(log)
    BY DEF PagesInv, Given
  <2> QED BY <1>1, <1>2, <2>1
<1> DEFINE places == OnPage(log, together, m, 0) \cup OnPage(log, together, n, Page)
           N(k, rows) == NewerOf(log, k, together, rows)
<1>4. Exactly(log, ToSet(answer), together, places)
  BY <1>2 DEF BothPages
<1>5. i \in places
  BY <1>4 DEF Exactly
<1>6. /\ N(i, m) \in Nat /\ N(j, m) \in Nat /\ N(i, n) \in Nat /\ N(j, n) \in Nat
      /\ N(j, m) <= N(i, m) /\ N(j, n) <= N(i, n) /\ N(j, m) <= N(j, n)
  BY <1>3, FewerNewer
<1>7. /\ i \in OnPage(log, together, m, 0) => N(i, m) < Page
      /\ i \in OnPage(log, together, n, Page) => N(i, n) < Page + Page
  BY <1>1, <1>6 DEF OnPage
<1>8. /\ N(j, m) < Page => j \in OnPage(log, together, m, 0)
      /\ N(j, n) >= Page /\ N(j, n) < Page + Page => j \in OnPage(log, together, n, Page)
  BY <1>1, <1>3, <1>6 DEF OnPage
<1> HIDE DEF N
<1>9. j \in places
  BY <1>1, <1>5, <1>6, <1>7, <1>8
<1> QED BY <1>4, <1>9 DEF Exactly

\* Two pages read one after the other leave no gap in the rows that were counted
\* together for both, all rows or those of each backend that answered for itself,
\* whatever is written in between, for every size of a page and every number of
\* backends (history.py:162-222, 2012-2059, client.py:216-291).
THEOREM NoGapBetweenPages == Spec => []PagesLeaveNoGap
<1> QED BY PagesInvariant, PagesMeet, PTL
----------------------------------------------------------------------------
(* The hosts above a host. *)

\* There are finitely many hosts.
LEMMA FinitelyManyHosts == IsFiniteSet(ToSet(Names)) /\ DOMAIN Names \subseteq Nat
<1> DEFINE places == 1..Len(Names)
<1>1. Len(Names) \in Nat /\ DOMAIN Names = places /\ Names \in Seq(ToSet(Names))
  BY NamesAssumption, Members, Zenon
<1>2. IsFiniteSet(places) /\ places \subseteq Nat
  BY <1>1, FS_Interval
<1> HIDE DEF places
<1>3. Names \in [places -> ToSet(Names)]
  BY <1>1, LenProperties
<1>4. Names \in Surjection(places, ToSet(Names))
  BY <1>1, <1>3 DEF Surjection, ToSet
<1> QED BY <1>1, <1>2, <1>4, FS_Surjection

\* The first of some hosts is one of them.
LEMMA FirstIsOne ==
    ASSUME NEW hosts \in SUBSET ToSet(Names), hosts # {}
    PROVE  First(hosts) \in hosts
<1> DEFINE places == {i \in DOMAIN Names : Names[i] \in hosts}
<1>1. places \in SUBSET Nat /\ places # {}
  BY FinitelyManyHosts DEF ToSet
<1>2. PICK n \in places : \A m \in places : n <= m
  BY <1>1, LeastNat
<1>3. Min(places) \in places
  BY <1>2 DEF Min
<1> QED BY <1>3 DEF First
----------------------------------------------------------------------------
(* The walks upwards. *)

\* The parents of a host, all that is above it, and sets that miss no parent.
AboveOf(h, parents) == IF h \in DOMAIN parents THEN parents[h] ELSE {}
StrictlyAbove(h, parents) == Upwards(AboveOf(h, parents), parents)
IsClosed(S, parents) == \A h \in S \cap DOMAIN parents : parents[h] \subseteq S

\* What is reached upwards from some hosts is the least closed set with them.
LEMMA UpwardsIsLeast ==
    ASSUME NEW parents \in Topologies, NEW hosts \in SUBSET ToSet(Names)
    PROVE  /\ Upwards(hosts, parents) \subseteq ToSet(Names)
           /\ hosts \subseteq Upwards(hosts, parents)
           /\ IsClosed(Upwards(hosts, parents), parents)
           /\ \A S \in SUBSET ToSet(Names) : hosts \subseteq S /\ IsClosed(S, parents)
                => Upwards(hosts, parents) \subseteq S
<1> DEFINE closed == {S \in SUBSET ToSet(Names) : hosts \subseteq S /\ IsClosed(S, parents)}
           up == {k \in ToSet(Names) : \A S \in closed : k \in S}
<1>1. Upwards(hosts, parents) = up
  <2>1. {S \in {hosts \cup more : more \in SUBSET (ToSet(Names) \ hosts)} : IsClosed(S, parents)} = closed
    <3> DEFINE from == {hosts \cup more : more \in SUBSET (ToSet(Names) \ hosts)}
    <3>1. ASSUME NEW S \in from PROVE S \in SUBSET ToSet(Names) /\ hosts \subseteq S
      OBVIOUS
    <3>2. ASSUME NEW S \in SUBSET ToSet(Names), hosts \subseteq S PROVE S \in from
      <4>1. S = hosts \cup (S \ hosts) /\ S \ hosts \in SUBSET (ToSet(Names) \ hosts)
        BY <3>2
      <4> QED BY <4>1
    <3> HIDE DEF from
    <3>3. {S \in from : IsClosed(S, parents)} = closed
      BY <3>1, <3>2
    <3> QED BY <3>3 DEF from
  <2> QED BY <2>1 DEF Upwards, IsClosed
<1>2. IsClosed(up, parents)
  <2> SUFFICES ASSUME NEW h \in up \cap DOMAIN parents, NEW k \in parents[h] PROVE k \in up
    BY DEF IsClosed
  <2>1. k \in ToSet(Names)
    BY HistoryAssumption
  <2>2. \A S \in closed : k \in S
    BY DEF IsClosed
  <2> QED BY <2>1, <2>2
<1>3. up \subseteq ToSet(Names) /\ hosts \subseteq up
  OBVIOUS
<1>4. \A S \in closed : up \subseteq S
  OBVIOUS
<1> HIDE DEF up
<1> QED BY <1>1, <1>2, <1>3, <1>4

\* The hosts above one are known.
LEMMA AboveIsKnown ==
    ASSUME NEW parents \in Topologies, NEW h
    PROVE  AboveOf(h, parents) \in SUBSET ToSet(Names)
BY HistoryAssumption DEF AboveOf

\* From a host one reaches itself and what is strictly above it.
LEMMA UpwardsFromOne ==
    ASSUME NEW parents \in Topologies, NEW h \in ToSet(Names)
    PROVE  /\ Upwards({h}, parents) = {h} \cup StrictlyAbove(h, parents)
           /\ StrictlyAbove(h, parents) \subseteq ToSet(Names)
           /\ AboveOf(h, parents) \subseteq StrictlyAbove(h, parents)
<1> DEFINE up == Upwards({h}, parents)
           above == StrictlyAbove(h, parents)
<1>1. AboveOf(h, parents) \in SUBSET ToSet(Names) /\ {h} \in SUBSET ToSet(Names)
  BY AboveIsKnown
<1>2. /\ up \subseteq ToSet(Names) /\ h \in up /\ IsClosed(up, parents)
      /\ \A S \in SUBSET ToSet(Names) : {h} \subseteq S /\ IsClosed(S, parents) => up \subseteq S
  BY <1>1, UpwardsIsLeast
<1>3. /\ above \subseteq ToSet(Names) /\ AboveOf(h, parents) \subseteq above /\ IsClosed(above, parents)
      /\ \A S \in SUBSET ToSet(Names) :
           AboveOf(h, parents) \subseteq S /\ IsClosed(S, parents) => above \subseteq S
  BY <1>1, UpwardsIsLeast DEF StrictlyAbove
<1> HIDE DEF up, above
<1>4. above \subseteq up
  <2>1. AboveOf(h, parents) \subseteq up
    BY <1>2 DEF AboveOf, IsClosed
  <2> QED BY <1>2, <1>3, <2>1
<1>5. IsClosed({h} \cup above, parents)
  BY <1>3 DEF AboveOf, IsClosed
<1>6. up \subseteq {h} \cup above
  BY <1>1, <1>2, <1>3, <1>5
<1> QED BY <1>2, <1>3, <1>4, <1>6 DEF up, above

\* What is above a host that is reached is reached too.
LEMMA AboveIsReached ==
    ASSUME NEW parents \in Topologies, NEW hosts \in SUBSET ToSet(Names),
           NEW a \in Upwards(hosts, parents)
    PROVE  StrictlyAbove(a, parents) \subseteq Upwards(hosts, parents)
<1>1. /\ Upwards(hosts, parents) \subseteq ToSet(Names)
      /\ IsClosed(Upwards(hosts, parents), parents)
  BY UpwardsIsLeast
<1>2. AboveOf(a, parents) \subseteq Upwards(hosts, parents)
  BY <1>1 DEF AboveOf, IsClosed
<1> QED BY <1>1, <1>2, AboveIsKnown, UpwardsIsLeast DEF StrictlyAbove

\* The code's test for a host that is down above another.
LEMMA DownAboveIs ==
    ASSUME NEW parents \in Topologies, NEW h, NEW down
    PROVE  HasDownAbove(h, down, parents) <=> StrictlyAbove(h, parents) \cap down # {}
<1>1. CASE h \in DOMAIN parents
  BY <1>1 DEF HasDownAbove, StrictlyAbove, AboveOf
<1>2. CASE h \notin DOMAIN parents
  <2>1. AboveOf(h, parents) = {}
    BY <1>2 DEF AboveOf
  <2>2. IsClosed({}, parents)
    BY DEF IsClosed
  <2>3. Upwards({}, parents) \subseteq {}
    BY <2>2, UpwardsIsLeast
  <2> QED BY <1>2, <2>1, <2>3 DEF HasDownAbove, StrictlyAbove
<1> QED BY <1>1, <1>2
----------------------------------------------------------------------------
(* The roots. *)

Loops(h, parents) == \E a \in Upwards({h}, parents) : a \in StrictlyAbove(a, parents)
Tops(h, down, parents) ==
    {a \in DownAncestors(h, down, parents) : ~HasDownAbove(a, down, parents)}

\* Above a host in no loop one that is down is topmost: take the one with the
\* fewest hosts above it.
LEMMA SomeTop ==
    ASSUME NEW parents \in Topologies, NEW h \in ToSet(Names), NEW down,
           DownAncestors(h, down, parents) # {}, ~Loops(h, parents)
    PROVE  Tops(h, down, parents) # {}
<1> DEFINE above(a) == StrictlyAbove(a, parents)
           size(a) == Cardinality(above(a))
           ancestors == DownAncestors(h, down, parents)
           sizes == {size(a) : a \in ancestors}
<1>1. \A a \in ancestors : a \in Upwards({h}, parents) /\ a \in down /\ a \in ToSet(Names)
  BY UpwardsIsLeast DEF DownAncestors
<1>2. \A a \in ancestors : IsFiniteSet(above(a)) /\ size(a) \in Nat
  <2> TAKE a \in ancestors
  <2>1. above(a) \in SUBSET ToSet(Names)
    BY <1>1, UpwardsFromOne
  <2> HIDE DEF above
  <2> QED BY <2>1, FinitelyManyHosts, FS_Subset, FS_CardinalityType
<1>3. \A a \in ancestors : \A b \in above(a) \cap down : b \in ancestors /\ size(b) < size(a)
  <2> TAKE a \in ancestors
  <2> TAKE b \in above(a) \cap down
  <2>1. b \in Upwards({h}, parents)
    BY <1>1, AboveIsReached
  <2>2. b \in ancestors
    BY <2>1 DEF DownAncestors
  <2>3. above(b) \subseteq above(a)
    BY AboveIsKnown, AboveIsReached DEF StrictlyAbove
  <2>4. b \in above(a) /\ b \notin above(b)
    BY <2>1 DEF Loops
  <2>5. size(b) <= size(a) /\ size(a) # size(b)
    <3> HIDE DEF above
    <3> QED BY <1>2, <2>3, <2>4, FS_Subset
  <2> QED BY <1>2, <2>2, <2>5
<1>4. sizes \in SUBSET Nat /\ sizes # {}
  BY <1>2
<1> HIDE DEF sizes
<1>5. PICK n \in sizes : \A m \in sizes : n <= m
  BY <1>4, LeastNat
<1>6. PICK a \in ancestors : n = size(a)
  BY DEF sizes
<1>7. above(a) \cap down = {}
  <2> SUFFICES ASSUME NEW b \in above(a) \cap down PROVE FALSE
    OBVIOUS
  <2>1. size(b) \in sizes /\ size(b) < size(a) /\ size(b) \in Nat /\ size(a) \in Nat
    BY <1>2, <1>3 DEF sizes
  <2> HIDE DEF size
  <2> QED BY <1>5, <1>6, <2>1
<1>8. ~HasDownAbove(a, down, parents)
  BY <1>7, DownAboveIs
<1> QED BY <1>6, <1>8 DEF Tops

\* The root of a host is a host that is down, itself or above it, and topmost
\* where there are no loops.
LEMMA RootProperties ==
    ASSUME NEW parents \in Topologies, NEW h \in ToSet(Names), NEW down,
           DownAncestors(h, down, parents) # {}
    PROVE  LET root == RootOf(h, down, parents) IN
           /\ root \in DownAncestors(h, down, parents)
           /\ root \in down /\ root \in {h} \cup StrictlyAbove(h, parents)
           /\ ~Loops(h, parents) => StrictlyAbove(root, parents) \cap down = {}
<1> DEFINE ancestors == DownAncestors(h, down, parents)
           tops == Tops(h, down, parents)
           root == RootOf(h, down, parents)
<1>1. root = First(IF tops # {} THEN tops ELSE ancestors)
  BY DEF RootOf, Tops
<1>2. ancestors \subseteq ToSet(Names) /\ ancestors \subseteq down
      /\ ancestors \subseteq {h} \cup StrictlyAbove(h, parents)
  BY UpwardsFromOne DEF DownAncestors
<1>3. tops \subseteq ancestors
  BY DEF Tops
<1>4. root \in ancestors /\ (tops # {} => root \in tops)
  <2>1. CASE tops # {}
    BY <1>1, <1>2, <1>3, <2>1, FirstIsOne
  <2>2. CASE tops = {}
    BY <1>1, <1>2, <2>2, FirstIsOne
  <2> QED BY <2>1, <2>2
<1>5. ASSUME ~Loops(h, parents) PROVE StrictlyAbove(root, parents) \cap down = {}
  <2>1. root \in tops
    BY <1>4, <1>5, SomeTop
  <2> QED BY <2>1, DownAboveIs DEF Tops
<1> QED BY <1>2, <1>4, <1>5

\* A host behind a single parent that is down, or has a host that is down above
\* it, has the root of that parent.
LEMMA RootOfParent ==
    ASSUME NEW parents \in Topologies, NEW h \in ToSet(Names), NEW p, NEW down,
           ~Loops(h, parents), AboveOf(h, parents) = {p},
           ({p} \cup StrictlyAbove(p, parents)) \cap down # {}
    PROVE  RootOf(h, down, parents) = RootOf(p, down, parents)
<1>1. p \in ToSet(Names)
  BY AboveIsKnown
<1>2. StrictlyAbove(h, parents) = {p} \cup StrictlyAbove(p, parents)
  BY <1>1, UpwardsFromOne DEF StrictlyAbove
<1>3. /\ Upwards({h}, parents) = {h} \cup StrictlyAbove(h, parents)
      /\ Upwards({p}, parents) = {p} \cup StrictlyAbove(p, parents)
  BY <1>1, UpwardsFromOne
<1>4. Tops(h, down, parents) = Tops(p, down, parents)
  <2>1. HasDownAbove(h, down, parents)
    BY <1>2, DownAboveIs
  <2> QED BY <1>2, <1>3, <2>1 DEF Tops, DownAncestors
<1>5. Tops(h, down, parents) # {}
  <2>1. DownAncestors(h, down, parents) # {}
    BY <1>2, <1>3 DEF DownAncestors
  <2> QED BY <2>1, SomeTop
<1>6. /\ RootOf(h, down, parents) = First(Tops(h, down, parents))
      /\ RootOf(p, down, parents) = First(Tops(p, down, parents))
  BY <1>4, <1>5 DEF RootOf, Tops
<1> QED BY <1>4, <1>6

\* What it means that some clusters of hosts and some hosts left alone explain it all.
Explained(down, affected, clusters, alone, parents) ==
    /\ (UNION Range(clusters)) \cup alone = affected
    /\ \A r, s \in DOMAIN clusters : r # s => clusters[r] \cap clusters[s] = {}
    /\ \A h \in alone : ({h} \cup StrictlyAbove(h, parents)) \cap down = {}
    /\ \A r \in DOMAIN clusters : \A h \in clusters[r] :
         /\ r \in down /\ r \in {h} \cup StrictlyAbove(h, parents)
         /\ ~Loops(h, parents) => StrictlyAbove(r, parents) \cap down = {}
         /\ ~Loops(h, parents) => \A p \in AboveOf(h, parents) :
              AboveOf(h, parents) = {p} /\ ({p} \cup StrictlyAbove(p, parents)) \cap down # {}
                  => r = RootOf(p, down, parents)

\* The rows of the log are of known hosts, so that the roots explain them.
LEMMA RowsExplained == Numbered => RootsExplain
<1> SUFFICES ASSUME Numbered, NEW parents \in Topologies
             PROVE  Explained(UnreachableVsDown(log).down,
                              UnreachableVsDown(log).down \cup UnreachableVsDown(log).unreachable,
                              RootCause(log, parents).root_causes,
                              RootCause(log, parents).unattributed, parents)
  BY DEF RootsExplain, Explained, StrictlyAbove, AboveOf, Loops
<1> DEFINE down == Down(log)
           affected == Down(log) \cup Unreachable(log)
           attributed == Attributed(affected, down, parents)
           root(h) == RootOf(h, down, parents)
           clusters == Clusters(affected, down, parents)
           alone == Unattributed(affected, down, parents)
<1>1. /\ UnreachableVsDown(log).down = down
      /\ UnreachableVsDown(log).unreachable = Unreachable(log)
      /\ RootCause(log, parents).root_causes = clusters
      /\ RootCause(log, parents).unattributed = alone
  BY DEF UnreachableVsDown, RootCause
<1>2. affected \subseteq ToSet(Names)
  BY DEF Down, Unreachable, Affected, Numbered, ToSet
<1>3. /\ attributed \subseteq affected
      /\ \A h \in affected : h \in attributed <=> DownAncestors(h, down, parents) # {}
  BY DEF Attributed
<1>4. /\ DOMAIN clusters = {root(h) : h \in attributed}
      /\ \A r \in DOMAIN clusters : clusters[r] = {h \in attributed : root(h) = r}
      /\ alone = affected \ attributed
  BY DEF Clusters, Unattributed
<1> HIDE DEF down, affected, attributed, root, clusters, alone
<1>5. (UNION Range(clusters)) \cup alone = affected
  <2>1. UNION Range(clusters) = attributed
    BY <1>4 DEF Range
  <2> QED BY <1>3, <1>4, <2>1
<1>6. \A r, s \in DOMAIN clusters : r # s => clusters[r] \cap clusters[s] = {}
  BY <1>4
<1>7. \A h \in alone : ({h} \cup StrictlyAbove(h, parents)) \cap down = {}
  BY <1>2, <1>3, <1>4, UpwardsFromOne DEF DownAncestors
<1>8. ASSUME NEW r \in DOMAIN clusters, NEW h \in clusters[r]
      PROVE  /\ r \in down /\ r \in {h} \cup StrictlyAbove(h, parents)
             /\ ~Loops(h, parents) => StrictlyAbove(r, parents) \cap down = {}
             /\ ~Loops(h, parents) => \A p \in AboveOf(h, parents) :
                  AboveOf(h, parents) = {p} /\ ({p} \cup StrictlyAbove(p, parents)) \cap down # {}
                      => r = RootOf(p, down, parents)
  <2>1. h \in ToSet(Names) /\ DownAncestors(h, down, parents) # {} /\ r = RootOf(h, down, parents)
    BY <1>2, <1>3, <1>4, <1>8 DEF root
  <2>2. ASSUME ~Loops(h, parents), NEW p, AboveOf(h, parents) = {p},
               ({p} \cup StrictlyAbove(p, parents)) \cap down # {}
        PROVE  r = RootOf(p, down, parents)
    BY <2>1, <2>2, RootOfParent
  <2> QED BY <2>1, <2>2, RootProperties
<1>9. Explained(down, affected, clusters, alone, parents)
  BY <1>5, <1>6, <1>7, <1>8 DEF Explained
<1> QED BY <1>1, <1>9 DEF affected, down

\* Each host that failed is explained by one host that is down and topmost, or by
\* none if there is none, whatever parents the hosts have (triage.py:676-753).
THEOREM RootsAlwaysExplain == Spec => []RootsExplain
<1>1. PagesInv => RootsExplain
  BY RowsExplained DEF PagesInv
<1> QED BY <1>1, PagesInvariant, PTL
----------------------------------------------------------------------------
(* The past that is over, and what is told of it. *)

\* What the cores know of an object, and the rows written about it by a second.
Knowledge == [state : Nat, hardstate : Nat, depth : Nat, acked : BOOLEAN]
RowsOf(m, s) == {r \in ToSet(log) : r.backend = m[1] /\ Key(r) = KeyOf(m) /\ r.time <= s}
Hard(R) == {r \in Alerts(R) : r.hard}
\* The rows of an object say what is known of it.
Knows(l, R) ==
    /\ Shows(Alerts(R), l.state, 0) /\ Shows(Hard(R), l.hardstate, 0)
    /\ l.depth > 0 <=> Standing(Begun(R), Ended(R))
    /\ l.acked <=> Standing(Taken(R), Dropped(R))

\* A hard recovery ends a hard problem.
Relieved(H) == \A r \in H : r.state = 0 =>
    \E q \in H : q.state # 0 /\ q.n < r.n /\ \A p \in H : p.n <= q.n \/ r.n <= p.n

\* The rows are of what is monitored and in the order of their times.
Written ==
    /\ now \in Nat
    /\ \A i \in DOMAIN log : /\ IsRow(log[i]) /\ log[i].time \in 0..now
                             /\ <<log[i].backend, log[i].host, log[i].service>> \in Monitored
    /\ \A i, j \in DOMAIN log : i < j => log[i].time <= log[j].time
\* Of each second up to this one the log has said what the cores knew at its end.
Recorded ==
    /\ live \in [Monitored -> Knowledge]
    /\ past \in Seq([Monitored -> Knowledge]) /\ Len(past) = now
    /\ \A m \in Monitored, s \in 0..now : Knows(At(s)[m], RowsOf(m, s))
    /\ \A m \in Monitored : Relieved(Hard(RowsOf(m, now)))
\* A count of all backends is the number of rows there are, and an answer without
\* a warning has them all.
Complete ==
    /\ stage \in {"counted", "reported"} =>
         /\ asked.now = now
         /\ total.complete => total.rows = Cardinality(Settled(now, Sites))
    /\ stage = "reported" /\ ~warned /\ total.complete =>
         /\ answer \in Seq(ToSet(log))
         /\ ToSet(answer) = {log[i] : i \in Settled(now, Sites)}

PastInv == Numbered /\ Written /\ Recorded /\ Complete
----------------------------------------------------------------------------
(* One more row. *)

\* What is known after an alert, the change of a downtime or of an acknowledgement,
\* and any other row.
AfterAlert(k, l, r) ==
    /\ k.state = r.state /\ k.hardstate = IF r.hard THEN r.state ELSE l.hardstate
    /\ k.depth = l.depth /\ k.acked = (l.acked /\ r.state # 0)
    /\ r.state = 0 /\ r.hard => l.hardstate # 0
AfterDowntime(k, l, r) ==
    /\ k.state = l.state /\ k.hardstate = l.hardstate /\ k.acked = l.acked
    /\ \/ r.detail = "STARTED" /\ k.depth > 0
       \/ r.detail \in Over /\ ~(k.depth > 0)
AfterAcknowledge(k, l, r) ==
    /\ k.state = l.state /\ k.hardstate = l.hardstate /\ k.depth = l.depth
    /\ k.acked = (r.detail \notin Over)
After(k, l, r) ==
    \/ r.type = "ALERT" /\ AfterAlert(k, l, r)
    \/ r.type = "DOWNTIME" /\ AfterDowntime(k, l, r)
    \/ r.type = "ACKNOWLEDGE" /\ AfterAcknowledge(k, l, r)
    \/ r.type = "NOTIFICATION" /\ k = l

\* What is known after a row is what the rows say with it.
LEMMA KnownAfter ==
    ASSUME NEW R, NEW r, \A q \in R \cup {r} : IsRow(q), Newest(r, R),
           NEW k, NEW l, Knows(l, R), After(k, l, r)
    PROVE  Knows(k, R \cup {r})
<1> DEFINE Q == R \cup {r}
<1>0. \A q \in Q : q.n \in Nat
  BY DEF IsRow
<1>1. CASE r.type = "ALERT"
  <2>0. AfterAlert(k, l, r)
    BY <1>1 DEF After
  <2>1. /\ Alerts(Q) = Alerts(R) \cup {r} /\ Begun(Q) = Begun(R) /\ Ended(Q) = Ended(R)
        /\ Taken(Q) = Taken(R)
    BY <1>1 DEF Alerts, Begun, Ended, Taken
  <2>2. Shows(Alerts(Q), k.state, 0)
    <3>1. Newest(r, Alerts(R)) /\ \A q \in Alerts(R) \cup {r} : q.n \in Nat
      BY <1>0 DEF Newest, Alerts
    <3>2. Shows(Alerts(R) \cup {r}, r.state, 0)
      BY <3>1, ShowsNewest
    <3> QED BY <2>0, <2>1, <3>2 DEF AfterAlert
  <2>3. Shows(Hard(Q), k.hardstate, 0)
    <3>1. CASE r.hard
      <4>1. Hard(Q) = Hard(R) \cup {r}
        BY <2>1, <3>1 DEF Hard
      <4>2. Newest(r, Hard(R)) /\ \A q \in Hard(R) \cup {r} : q.n \in Nat
        BY <1>0 DEF Newest, Hard, Alerts
      <4>3. Shows(Hard(R) \cup {r}, r.state, 0)
        BY <4>2, ShowsNewest
      <4> QED BY <2>0, <3>1, <4>1, <4>3 DEF AfterAlert
    <3>2. CASE ~r.hard
      <4>1. Hard(Q) = Hard(R)
        BY <2>1, <3>2 DEF Hard
      <4> QED BY <2>0, <3>2, <4>1 DEF AfterAlert, Knows
    <3> QED BY <3>1, <3>2
  <2>4. k.acked <=> Standing(Taken(Q), Dropped(Q))
    <3>1. CASE r.state = 0
      <4>1. Dropped(Q) = Dropped(R) \cup {r}
        BY <1>1, <3>1 DEF Dropped
      <4>2. Newest(r, Taken(R) \cup Dropped(R)) /\ \A q \in Taken(R) \cup Dropped(R) \cup {r} : q.n \in Nat
        BY <1>0 DEF Newest, Taken, Dropped
      <4>3. ~Standing(Taken(R), Dropped(R) \cup {r})
        BY <4>2, EndsStanding
      <4> QED BY <2>0, <2>1, <3>1, <4>1, <4>3 DEF AfterAlert
    <3>2. CASE r.state # 0
      <4>1. Dropped(Q) = Dropped(R)
        BY <1>1, <3>2 DEF Dropped
      <4> QED BY <2>0, <2>1, <3>2, <4>1 DEF AfterAlert, Knows
    <3> QED BY <3>1, <3>2
  <2> QED BY <2>0, <2>1, <2>2, <2>3, <2>4 DEF Knows, AfterAlert
<1>2. CASE r.type = "DOWNTIME"
  <2>0. AfterDowntime(k, l, r)
    BY <1>2 DEF After
  <2>1. /\ Alerts(Q) = Alerts(R) /\ Hard(Q) = Hard(R)
        /\ Taken(Q) = Taken(R) /\ Dropped(Q) = Dropped(R)
    BY <1>2 DEF Alerts, Hard, Taken, Dropped
  <2>2. Newest(r, Begun(R) \cup Ended(R)) /\ \A q \in Begun(R) \cup Ended(R) \cup {r} : q.n \in Nat
    BY <1>0 DEF Newest, Begun, Ended
  <2>3. k.depth > 0 <=> Standing(Begun(Q), Ended(Q))
    <3>1. CASE r.detail = "STARTED"
      <4>1. Begun(Q) = Begun(R) \cup {r} /\ Ended(Q) = Ended(R) /\ r \notin Ended(R)
        BY <1>2, <3>1 DEF Begun, Ended, Over
      <4>2. k.depth > 0
        BY <2>0, <3>1 DEF AfterDowntime, Over
      <4> QED BY <2>2, <4>1, <4>2, BeginsStanding
    <3>2. CASE r.detail \in Over
      <4>1. Begun(Q) = Begun(R) /\ Ended(Q) = Ended(R) \cup {r} /\ r.detail # "STARTED"
        BY <1>2, <3>2 DEF Begun, Ended, Over
      <4>2. ~Standing(Begun(R), Ended(R) \cup {r})
        BY <2>2, EndsStanding
      <4>3. ~(k.depth > 0)
        BY <2>0, <4>1 DEF AfterDowntime
      <4> QED BY <4>1, <4>2, <4>3
    <3> QED BY <2>0, <3>1, <3>2 DEF AfterDowntime
  <2> QED BY <2>0, <2>1, <2>3 DEF Knows, AfterDowntime
<1>3. CASE r.type = "ACKNOWLEDGE"
  <2>0. AfterAcknowledge(k, l, r)
    BY <1>3 DEF After
  <2>1. Alerts(Q) = Alerts(R) /\ Hard(Q) = Hard(R) /\ Begun(Q) = Begun(R) /\ Ended(Q) = Ended(R)
    BY <1>3 DEF Alerts, Hard, Begun, Ended
  <2>2. Newest(r, Taken(R) \cup Dropped(R)) /\ \A q \in Taken(R) \cup Dropped(R) \cup {r} : q.n \in Nat
    BY <1>0 DEF Newest, Taken, Dropped
  <2>3. k.acked <=> Standing(Taken(Q), Dropped(Q))
    <3>1. CASE r.detail \notin Over
      <4>1. Taken(Q) = Taken(R) \cup {r} /\ Dropped(Q) = Dropped(R) /\ r \notin Dropped(R)
        BY <1>3, <3>1 DEF Taken, Dropped
      <4> QED BY <2>0, <2>2, <3>1, <4>1, BeginsStanding DEF AfterAcknowledge
    <3>2. CASE r.detail \in Over
      <4>1. Taken(Q) = Taken(R) /\ Dropped(Q) = Dropped(R) \cup {r}
        BY <1>3, <3>2 DEF Taken, Dropped
      <4>2. ~Standing(Taken(R), Dropped(R) \cup {r})
        BY <2>2, EndsStanding
      <4> QED BY <2>0, <3>2, <4>1, <4>2 DEF AfterAcknowledge
    <3> QED BY <3>1, <3>2
  <2> QED BY <2>0, <2>1, <2>3 DEF Knows, AfterAcknowledge
<1>4. CASE r.type = "NOTIFICATION"
  <2>1. /\ Alerts(Q) = Alerts(R) /\ Hard(Q) = Hard(R) /\ Begun(Q) = Begun(R) /\ Ended(Q) = Ended(R)
        /\ Taken(Q) = Taken(R) /\ Dropped(Q) = Dropped(R)
    BY <1>4 DEF Alerts, Hard, Begun, Ended, Taken, Dropped
  <2> QED BY <1>4, <2>1 DEF Knows, After
<1> QED BY <1>1, <1>2, <1>3, <1>4 DEF After

\* A hard recovery that is written ends the problem that was known.
LEMMA RelievedAfter ==
    ASSUME NEW R, NEW r, \A q \in R \cup {r} : IsRow(q), Newest(r, R),
           NEW k, NEW l, Knows(l, R), After(k, l, r), Relieved(Hard(R))
    PROVE  Relieved(Hard(R \cup {r}))
<1>0. \A q \in R \cup {r} : q.n \in Nat
  BY DEF IsRow
<1>1. Hard(R) \subseteq R
  BY DEF Hard, Alerts
<1>2. CASE r.type = "ALERT" /\ r.hard
  <2>1. Hard(R \cup {r}) = Hard(R) \cup {r}
    BY <1>2 DEF Hard, Alerts
  <2>2. \A q \in Hard(R) : q.n <= r.n
    BY <1>1 DEF Newest
  <2>3. ASSUME r.state = 0
        PROVE  \E q \in Hard(R) : q.state # 0 /\ q.n < r.n /\ \A p \in Hard(R) : p.n <= q.n
    <3>1. l.hardstate # 0
      BY <1>2, <2>3 DEF After, AfterAlert
    <3>2. PICK q \in Hard(R) : q.state = l.hardstate /\ \A p \in Hard(R) : p.n <= q.n
      BY <3>1 DEF Knows, Shows
    <3>3. q.n <= r.n /\ (q.n = r.n => q = r)
      BY <1>1 DEF Newest
    <3>4. q # r
      BY <2>3, <3>1, <3>2
    <3>5. q.n < r.n
      BY <1>0, <1>1, <3>3, <3>4
    <3> QED BY <3>1, <3>2, <3>5
  <2>4. ASSUME NEW o \in Hard(R) \cup {r}, o.state = 0
        PROVE  \E q \in Hard(R) \cup {r} :
                 q.state # 0 /\ q.n < o.n /\ \A p \in Hard(R) \cup {r} : p.n <= q.n \/ o.n <= p.n
    <3>1. CASE o = r
      BY <1>0, <2>3, <2>4, <3>1
    <3>2. CASE o \in Hard(R)
      <4>1. PICK q \in Hard(R) : q.state # 0 /\ q.n < o.n /\ \A p \in Hard(R) : p.n <= q.n \/ o.n <= p.n
        BY <2>4, <3>2 DEF Relieved
      <4>2. o.n <= r.n
        BY <2>2, <3>2
      <4> QED BY <4>1, <4>2
    <3> QED BY <3>1, <3>2
  <2> QED BY <2>1, <2>4 DEF Relieved
<1>3. CASE ~(r.type = "ALERT" /\ r.hard)
  <2>1. Hard(R \cup {r}) = Hard(R)
    BY <1>3 DEF Hard, Alerts
  <2> QED BY <2>1
<1> QED BY <1>2, <1>3
----------------------------------------------------------------------------
(* What a core does. *)

\* A row about an object of this second is added to the log.
RowAbout(row, m) ==
    /\ NextRow(row) /\ IsRow(row) /\ row.time = now
    /\ row.backend = m[1] /\ row.host = m[2] /\ row.service = m[3]
Added(m, type, state, hard, detail) ==
    \E row : /\ RowAbout(row, m) /\ log' = Append(log, row)
             /\ row.type = type /\ row.state = state /\ row.hard = hard /\ row.detail = detail
LEMMA WriteAdds ==
    ASSUME Numbered, Written, NEW m \in Monitored, NEW type, NEW state, state \in Int, NEW hard, NEW detail,
           Write(m, type, state, hard, detail)
    PROVE  Added(m, type, state, hard, detail)
<1> DEFINE row == [n |-> Len(log) + 1, time |-> now, backend |-> m[1], host |-> m[2],
                   service |-> m[3], type |-> type, state |-> state, hard |-> hard,
                   detail |-> detail]
<1>1. log' = Append(log, row)
  BY DEF Write
<1>2. Len(log) + 1 \in Nat
  BY Members DEF Numbered
<1>3. /\ row.n = Len(log) + 1 /\ row.time = now /\ row.backend = m[1] /\ row.host = m[2]
      /\ row.service = m[3] /\ row.type = type /\ row.state = state /\ row.hard = hard
      /\ row.detail = detail
  OBVIOUS
<1> HIDE DEF row
<1>4. RowAbout(row, m)
  BY <1>2, <1>3, HistoryAssumption DEF RowAbout, NextRow, IsRow, Written
<1> QED BY <1>1, <1>3, <1>4 DEF Added

\* What happens to an object is known, and a row says so unless nothing is to be said.
Moves(m) ==
    /\ live' \in [Monitored -> Knowledge]
    /\ \A o \in Monitored \ {m} : live'[o] = live[o]
    /\ UNCHANGED <<now, past, report>>
Said(m) == \E row : RowAbout(row, m) /\ log' = Append(log, row) /\ After(live'[m], live[m], row)
Unsaid(m) == /\ log' = log /\ live'[m].state = live[m].state /\ live'[m].hardstate = live[m].hardstate
             /\ live'[m].depth > 0 <=> live[m].depth > 0
             /\ live'[m].acked = live[m].acked

LEMMA AlertMoves ==
    ASSUME Numbered, Written, Recorded, NEW m \in Monitored, NEW hard \in BOOLEAN,
           NEW state \in States[m], Alert(m, state, hard)
    PROVE  Moves(m) /\ Said(m)
<1>1. state \in Nat /\ live \in [Monitored -> Knowledge] /\ live[m] \in Knowledge
  BY HistoryAssumption DEF Recorded
<1>2. /\ live' = [live EXCEPT ![m].state = state,
                              ![m].hardstate = IF hard THEN state ELSE live[m].hardstate,
                              ![m].acked = live[m].acked /\ state # 0]
      /\ Write(m, "ALERT", state, hard, "") /\ UNCHANGED <<now, past, report>>
      /\ state = 0 /\ hard => live[m].hardstate # 0
  BY DEF Alert, Event
<1>3. PICK row : /\ RowAbout(row, m) /\ log' = Append(log, row)
                 /\ row.type = "ALERT" /\ row.state = state /\ row.hard = hard
  <2>1. state \in Int
    BY <1>1
  <2>2. Added(m, "ALERT", state, hard, "")
    BY <1>2, <2>1, WriteAdds, Zenon
  <2> QED BY <2>2 DEF Added
<1>4. live' \in [Monitored -> Knowledge] /\ \A o \in Monitored \ {m} : live'[o] = live[o]
  BY <1>1, <1>2 DEF Knowledge
<1>5. AfterAlert(live'[m], live[m], row)
  BY <1>1, <1>2, <1>3 DEF Knowledge, AfterAlert
<1> QED BY <1>2, <1>3, <1>4, <1>5 DEF Moves, Said, After

LEMMA DowntimeMoves ==
    ASSUME Numbered, Written, Recorded, NEW m \in Monitored, DowntimeBegins(m) \/ DowntimeEnds(m)
    PROVE  Moves(m) /\ (Said(m) \/ Unsaid(m))
<1>1. live \in [Monitored -> Knowledge] /\ live[m] \in Knowledge
  BY DEF Recorded
<1>2. CASE DowntimeBegins(m)
  <2>1. /\ live' = [live EXCEPT ![m].depth = live[m].depth + 1] /\ UNCHANGED <<now, past, report>>
        /\ IF live[m].depth = 0 THEN Write(m, "DOWNTIME", None, FALSE, "STARTED") ELSE UNCHANGED log
    BY <1>2 DEF DowntimeBegins, Event
  <2>2. /\ live' \in [Monitored -> Knowledge] /\ \A o \in Monitored \ {m} : live'[o] = live[o]
        /\ live'[m].state = live[m].state /\ live'[m].hardstate = live[m].hardstate
        /\ live'[m].depth = live[m].depth + 1 /\ live'[m].acked = live[m].acked
        /\ live[m].depth \in Nat
    BY <1>1, <2>1 DEF Knowledge
  <2>3. CASE live[m].depth = 0
    <3>1. PICK row : /\ RowAbout(row, m) /\ log' = Append(log, row)
                     /\ row.type = "DOWNTIME" /\ row.detail = "STARTED"
      <4>1. None \in Int
        BY DEF None
      <4>2. Write(m, "DOWNTIME", None, FALSE, "STARTED")
        BY <2>1, <2>3
      <4>3. Added(m, "DOWNTIME", None, FALSE, "STARTED")
        BY <4>1, <4>2, WriteAdds, Zenon
      <4> QED BY <4>3 DEF Added
    <3>2. AfterDowntime(live'[m], live[m], row)
      BY <2>2, <3>1 DEF AfterDowntime
    <3> QED BY <2>1, <2>2, <3>1, <3>2 DEF Moves, Said, After
  <2>4. CASE live[m].depth # 0
    BY <2>1, <2>2, <2>4 DEF Moves, Unsaid
  <2> QED BY <2>3, <2>4
<1>3. CASE DowntimeEnds(m)
  <2>1. /\ live' = [live EXCEPT ![m].depth = live[m].depth - 1] /\ UNCHANGED <<now, past, report>>
        /\ live[m].depth > 0
        /\ IF live[m].depth = 1
           THEN \E detail \in {"STOPPED", "CANCELLED"} : Write(m, "DOWNTIME", None, FALSE, detail)
           ELSE UNCHANGED log
    BY <1>3 DEF DowntimeEnds, Event
  <2>2. /\ live' \in [Monitored -> Knowledge] /\ \A o \in Monitored \ {m} : live'[o] = live[o]
        /\ live'[m].state = live[m].state /\ live'[m].hardstate = live[m].hardstate
        /\ live'[m].depth = live[m].depth - 1 /\ live'[m].acked = live[m].acked
        /\ live[m].depth \in Nat
    BY <1>1, <2>1 DEF Knowledge
  <2>3. CASE live[m].depth = 1
    <3>1. PICK detail \in {"STOPPED", "CANCELLED"} : Write(m, "DOWNTIME", None, FALSE, detail)
      BY <2>1, <2>3
    <3>2. PICK row : /\ RowAbout(row, m) /\ log' = Append(log, row)
                     /\ row.type = "DOWNTIME" /\ row.detail = detail
      <4>1. None \in Int
        BY DEF None
      <4>2. Added(m, "DOWNTIME", None, FALSE, detail)
        BY <3>1, <4>1, WriteAdds, Zenon
      <4> QED BY <4>2 DEF Added
    <3>3. AfterDowntime(live'[m], live[m], row)
      BY <2>2, <2>3, <3>1, <3>2 DEF AfterDowntime, Over
    <3> QED BY <2>1, <2>2, <3>2, <3>3 DEF Moves, Said, After
  <2>4. CASE live[m].depth # 1
    BY <2>1, <2>2, <2>4 DEF Moves, Unsaid
  <2> QED BY <2>3, <2>4
<1> QED BY <1>2, <1>3

\* The acknowledgement of an object is changed, and a row says so.
Acks(m, acked, detail) ==
    /\ acked \in BOOLEAN
    /\ live' = [live EXCEPT ![m].acked = acked] /\ UNCHANGED <<now, past, report>>
    /\ Write(m, "ACKNOWLEDGE", None, FALSE, detail) /\ acked = (detail \notin Over)
LEMMA AcknowledgeMoves ==
    ASSUME Numbered, Written, Recorded, NEW m \in Monitored,
           Acknowledged(m) \/ AcknowledgementRemoved(m)
    PROVE  Moves(m) /\ Said(m)
<1>1. live \in [Monitored -> Knowledge] /\ live[m] \in Knowledge
  BY DEF Recorded
<1>2. PICK acked, detail : Acks(m, acked, detail)
  <2>1. CASE Acknowledged(m)
    <3>1. Acks(m, TRUE, "")
      BY <2>1 DEF Acknowledged, Event, Over, Acks
    <3> QED BY <3>1, Zenon
  <2>2. CASE AcknowledgementRemoved(m)
    <3>1. Acks(m, FALSE, "STOPPED")
      BY <2>2 DEF AcknowledgementRemoved, Event, Over, Acks
    <3> QED BY <3>1, Zenon
  <2> QED BY <2>1, <2>2
<1>0. /\ acked \in BOOLEAN
      /\ live' = [live EXCEPT ![m].acked = acked] /\ UNCHANGED <<now, past, report>>
      /\ Write(m, "ACKNOWLEDGE", None, FALSE, detail) /\ acked = (detail \notin Over)
  BY <1>2 DEF Acks
<1>3. PICK row : /\ RowAbout(row, m) /\ log' = Append(log, row)
                 /\ row.type = "ACKNOWLEDGE" /\ row.detail = detail
  <2>1. None \in Int
    BY DEF None
  <2>2. Added(m, "ACKNOWLEDGE", None, FALSE, detail)
    BY <1>0, <2>1, WriteAdds, Zenon
  <2> QED BY <2>2 DEF Added
<1>4. live' \in [Monitored -> Knowledge] /\ \A o \in Monitored \ {m} : live'[o] = live[o]
  BY <1>1, <1>0 DEF Knowledge
<1>5. AfterAcknowledge(live'[m], live[m], row)
  BY <1>1, <1>0, <1>3 DEF Knowledge, AfterAcknowledge
<1> QED BY <1>0, <1>3, <1>4, <1>5 DEF Moves, Said, After

LEMMA NotifiedMoves ==
    ASSUME Numbered, Written, Recorded, NEW m \in Monitored, Notified(m)
    PROVE  Moves(m) /\ Said(m)
<1>1. live \in [Monitored -> Knowledge] /\ live[m].state \in Int
  BY DEF Recorded, Knowledge
<1>2. /\ Write(m, "NOTIFICATION", live[m].state, FALSE, "")
      /\ live' = live /\ UNCHANGED <<now, past, report>>
  BY DEF Notified, Event
<1>3. PICK row : RowAbout(row, m) /\ log' = Append(log, row) /\ row.type = "NOTIFICATION"
  <2>1. Added(m, "NOTIFICATION", live[m].state, FALSE, "")
    BY <1>1, <1>2, WriteAdds, Zenon
  <2> QED BY <2>1 DEF Added
<1> QED BY <1>1, <1>2, <1>3 DEF Moves, Said, After

\* Whatever happens to an object.
LEMMA HappensMoves ==
    ASSUME Numbered, Written, Recorded, NEW m \in Monitored, Happens(m)
    PROVE  Moves(m) /\ (Said(m) \/ Unsaid(m))
BY AlertMoves, DowntimeMoves, AcknowledgeMoves, NotifiedMoves DEF Happens
----------------------------------------------------------------------------
(* What is known and what is written stay together. *)

\* A row is of the object and of the second it is written about, and is the newest.
LEMMA RowsGrow ==
    ASSUME Numbered, Written, NEW m \in Monitored, NEW row, RowAbout(row, m),
           log' = Append(log, row), now' = now
    PROVE  /\ Numbered' /\ Written'
           /\ RowsOf(m, now)' = RowsOf(m, now) \cup {row} /\ Newest(row, RowsOf(m, now))
           /\ \A o \in Monitored, s \in 0..now : o # m \/ s # now => RowsOf(o, s)' = RowsOf(o, s)
<1>1. /\ Numbered'
      /\ Len(log) \in Nat /\ Len(log') = Len(log) + 1
      /\ DOMAIN log = 1..Len(log) /\ DOMAIN log' = 1..(Len(log) + 1)
      /\ \A i \in DOMAIN log : log'[i] = log[i]
      /\ log'[Len(log) + 1] = row
  BY RowsStay DEF RowAbout
<1>2. /\ now \in Nat /\ IsRow(row) /\ row.time = now /\ row.n = Len(log) + 1
      /\ row.backend = m[1] /\ row.host = m[2] /\ row.service = m[3]
  BY DEF RowAbout, NextRow, Written
<1>3. ASSUME NEW i \in DOMAIN log'
      PROVE  \/ i \in DOMAIN log /\ log'[i] = log[i]
             \/ i = Len(log) + 1 /\ i \notin DOMAIN log /\ log'[i] = row
  BY <1>1
<1>4. ToSet(log') = ToSet(log) \cup {row}
  <2>1. Len(log) + 1 \in DOMAIN log' /\ DOMAIN log \subseteq DOMAIN log'
    BY <1>1
  <2> QED BY <1>1, <1>3, <2>1 DEF ToSet
<1>5. Written'
  <2>1. ASSUME NEW i \in DOMAIN log'
        PROVE  /\ IsRow(log'[i]) /\ log'[i].time \in 0..now
               /\ <<log'[i].backend, log'[i].host, log'[i].service>> \in Monitored
    <3>1. CASE i \in DOMAIN log /\ log'[i] = log[i]
      BY <3>1 DEF Written
    <3>2. CASE log'[i] = row
      <4>1. <<row.backend, row.host, row.service>> = m
        BY <1>2, HistoryAssumption
      <4>2. row.time \in 0..now
        BY <1>2
      <4> QED BY <1>2, <3>2, <4>1, <4>2
    <3> QED BY <1>3, <3>1, <3>2
  <2>2. ASSUME NEW i \in DOMAIN log', NEW j \in DOMAIN log', i < j
        PROVE  log'[i].time <= log'[j].time
    <3>1. CASE j \in DOMAIN log
      <4>1. i \in DOMAIN log
        BY <1>1, <2>2, <3>1
      <4> QED BY <1>1, <2>2, <3>1, <4>1 DEF Written
    <3>2. CASE j \notin DOMAIN log
      <4>1. log'[j].time = now
        BY <1>2, <1>3, <3>2
      <4>2. log'[i].time \in 0..now
        BY <2>1
      <4> QED BY <4>1, <4>2
    <3> QED BY <3>1, <3>2
  <2> QED BY <1>2, <2>1, <2>2 DEF Written
<1>6. \A r \in ToSet(log) : r.n \in Nat /\ r.n <= Len(log)
  <2>1. \A i \in DOMAIN log : log[i].n \in Nat /\ log[i].n <= Len(log)
    BY <1>1 DEF Numbered
  <2> QED BY <2>1 DEF ToSet
<1>7. Newest(row, RowsOf(m, now))
  BY <1>1, <1>2, <1>6 DEF Newest, RowsOf
<1>8. RowsOf(m, now)' = RowsOf(m, now) \cup {row}
  <2>1. Key(row) = KeyOf(m) /\ row.time <= now
    BY <1>2 DEF Key, KeyOf
  <2> QED BY <1>2, <1>4, <2>1 DEF RowsOf
<1>9. ASSUME NEW o \in Monitored, NEW s \in 0..now, o # m \/ s # now
      PROVE  RowsOf(o, s)' = RowsOf(o, s)
  <2>1. ~(row.backend = o[1] /\ Key(row) = KeyOf(o) /\ row.time <= s)
    <3>1. CASE s # now
      BY <1>2, <3>1
    <3>2. CASE o # m
      <4>1. o = <<o[1], o[2], o[3]>> /\ m = <<m[1], m[2], m[3]>>
        BY HistoryAssumption
      <4> QED BY <1>2, <3>2, <4>1 DEF Key, KeyOf
    <3> QED BY <1>9, <3>1, <3>2
  <2> QED BY <1>4, <2>1 DEF RowsOf
<1> QED BY <1>1, <1>5, <1>7, <1>8, <1>9

\* The rows of an object are rows.
LEMMA AreRows ==
    ASSUME Written, NEW m, NEW s
    PROVE  \A q \in RowsOf(m, s) : IsRow(q)
BY DEF RowsOf, ToSet, Written

\* Whatever happens to an object is on record.
LEMMA HappensRecorded ==
    ASSUME Numbered, Written, Recorded, NEW m \in Monitored, Happens(m)
    PROVE  Numbered' /\ Written' /\ Recorded'
<1>1. /\ live' \in [Monitored -> Knowledge] /\ \A o \in Monitored \ {m} : live'[o] = live[o]
      /\ now' = now /\ past' = past
  BY HappensMoves DEF Moves
<1>2. /\ now \in Nat /\ past \in Seq([Monitored -> Knowledge]) /\ Len(past) = now
      /\ \A o \in Monitored, s \in 0..now : Knows(At(s)[o], RowsOf(o, s))
      /\ \A o \in Monitored : Relieved(Hard(RowsOf(o, now)))
  BY DEF Written, Recorded
<1>3. At(now) = live /\ At(now)' = live' /\ \A s \in 0..now : s # now => At(s)' = At(s)
  BY <1>1, <1>2 DEF At
<1>4. now \in 0..now
  BY <1>2
<1>5. Knows(live[m], RowsOf(m, now))
  BY <1>2, <1>3, <1>4
<1>6. CASE Said(m)
  <2>1. PICK row : RowAbout(row, m) /\ log' = Append(log, row) /\ After(live'[m], live[m], row)
    BY <1>6 DEF Said
  <2>2. /\ Numbered' /\ Written'
        /\ RowsOf(m, now)' = RowsOf(m, now) \cup {row} /\ Newest(row, RowsOf(m, now))
        /\ \A o \in Monitored, s \in 0..now : o # m \/ s # now => RowsOf(o, s)' = RowsOf(o, s)
    BY <1>1, <2>1, RowsGrow
  <2>3. \A q \in RowsOf(m, now) \cup {row} : IsRow(q)
    BY <2>1, AreRows DEF RowAbout
  <2>4. Knows(live'[m], RowsOf(m, now) \cup {row})
    BY <1>5, <2>1, <2>2, <2>3, KnownAfter
  <2>5. ASSUME NEW o \in Monitored, NEW s \in 0..now
        PROVE  Knows(At(s)'[o], RowsOf(o, s)')
    <3>1. CASE s = now /\ o = m
      BY <1>1, <1>3, <2>2, <2>4, <3>1
    <3>2. CASE s = now /\ o # m
      <4>1. At(s)'[o] = At(s)[o] /\ RowsOf(o, s)' = RowsOf(o, s)
        BY <1>1, <1>3, <2>2, <3>2
      <4> QED BY <1>2, <4>1
    <3>3. CASE s # now
      <4>1. At(s)'[o] = At(s)[o] /\ RowsOf(o, s)' = RowsOf(o, s)
        BY <1>3, <2>2, <3>3
      <4> QED BY <1>2, <4>1
    <3> QED BY <3>1, <3>2, <3>3
  <2>6. ASSUME NEW o \in Monitored
        PROVE  Relieved(Hard(RowsOf(o, now)'))
    <3>1. CASE o = m
      <4>1. Relieved(Hard(RowsOf(m, now) \cup {row}))
        BY <1>2, <1>5, <2>1, <2>2, <2>3, RelievedAfter
      <4> QED BY <2>2, <3>1, <4>1
    <3>2. CASE o # m
      BY <1>1, <1>2, <1>4, <2>2, <3>2
    <3> QED BY <3>1, <3>2
  <2> QED BY <1>1, <1>2, <2>2, <2>5, <2>6 DEF Recorded
<1>7. CASE Unsaid(m)
  <2>1. /\ log' = log /\ live'[m].state = live[m].state /\ live'[m].hardstate = live[m].hardstate
        /\ live'[m].depth > 0 <=> live[m].depth > 0
        /\ live'[m].acked = live[m].acked
    BY <1>7 DEF Unsaid
  <2>2. Knows(live'[m], RowsOf(m, now))
    BY <1>5, <2>1 DEF Knows
  <2>3. ASSUME NEW o \in Monitored, NEW s \in 0..now
        PROVE  Knows(At(s)'[o], RowsOf(o, s)')
    <3>0. RowsOf(o, s)' = RowsOf(o, s)
      BY <2>1 DEF RowsOf
    <3>1. CASE s = now /\ o = m
      BY <1>1, <1>3, <2>2, <3>0, <3>1
    <3>2. CASE s # now \/ o # m
      <4>1. At(s)'[o] = At(s)[o]
        BY <1>1, <1>3, <3>2
      <4> QED BY <1>2, <3>0, <4>1
    <3> QED BY <3>1, <3>2
  <2>4. Numbered' /\ Written'
    BY <1>1, <2>1 DEF Numbered, Written
  <2>5. \A o \in Monitored : Relieved(Hard(RowsOf(o, now)'))
    <3>1. \A o : RowsOf(o, now)' = RowsOf(o, now)
      BY <1>1, <2>1 DEF RowsOf
    <3> QED BY <1>2, <3>1
  <2> QED BY <1>1, <1>2, <2>3, <2>4, <2>5 DEF Recorded
<1> QED BY <1>6, <1>7, HappensMoves

\* A second that is over is kept as it was.
LEMMA TickRecorded ==
    ASSUME Written, Recorded, Tick
    PROVE  Written' /\ Recorded'
<1> DEFINE V == [Monitored -> Knowledge]
<1>1. /\ now' = now + 1 /\ past' = Append(past, live) /\ log' = log /\ live' = live
  BY DEF Tick
<1>2. /\ now \in Nat /\ live \in V /\ past \in Seq(V) /\ Len(past) = now
      /\ \A o \in Monitored, s \in 0..now : Knows(At(s)[o], RowsOf(o, s))
      /\ \A o \in Monitored : Relieved(Hard(RowsOf(o, now)))
  BY DEF Written, Recorded
<1> HIDE DEF V
<1>3. /\ past' \in Seq(V) /\ Len(past') = now + 1 /\ past'[now + 1] = live
      /\ \A i \in 1..now : past'[i] = past[i]
  BY <1>1, <1>2, AppendProperties
<1>4. Written'
  <2>1. now' \in Nat /\ 0..now \subseteq 0..now'
    BY <1>1, <1>2
  <2> QED BY <1>1, <2>1 DEF Written
<1>5. ASSUME NEW o
      PROVE  RowsOf(o, now + 1) = RowsOf(o, now)
  <2>1. \A r \in ToSet(log) : r.time \in 0..now
    BY DEF Written, ToSet
  <2>2. \A r \in ToSet(log) : r.time <= now /\ r.time <= now + 1
    BY <1>2, <2>1
  <2> QED BY <2>2 DEF RowsOf
<1>6. ASSUME NEW o \in Monitored, NEW s \in 0..now'
      PROVE  Knows(At(s)'[o], RowsOf(o, s)')
  <2>1. RowsOf(o, s)' = RowsOf(o, s)
    BY <1>1 DEF RowsOf
  <2>2. CASE s \in 0..now
    <3>1. At(s)' = At(s)
      BY <1>1, <1>2, <1>3, <2>2 DEF At
    <3> QED BY <1>2, <2>1, <2>2, <3>1
  <2>3. CASE s \notin 0..now
    <3>1. s = now + 1 /\ now \in 0..now
      BY <1>1, <1>2, <2>3
    <3>2. RowsOf(o, s) = RowsOf(o, now)
      BY <1>5, <3>1
    <3>3. At(s)' = At(now)
      BY <1>1, <1>2, <3>1 DEF At
    <3> QED BY <1>2, <2>1, <3>1, <3>2, <3>3
  <2> QED BY <2>2, <2>3
<1>7. ASSUME NEW o \in Monitored
      PROVE  Relieved(Hard(RowsOf(o, now)'))
  <2>1. RowsOf(o, now)' = RowsOf(o, now + 1)
    BY <1>1 DEF RowsOf
  <2> QED BY <1>2, <1>5, <2>1
<1> QED BY <1>1, <1>2, <1>3, <1>4, <1>6, <1>7 DEF Recorded, V
----------------------------------------------------------------------------
(* What is received. *)

\* Rows that are within the limit are all given, whatever the order of ties.
LEMMA WithinLimit ==
    ASSUME NEW S, NEW rows \in Seq(S), \A r \in S : r.time \in Int, Len(rows) <= Cap,
           NEW ties
    PROVE  LET given == Limited(NewestFirst(rows, ties), Cap) IN
           given \in Seq(S) /\ ToSet(given) = ToSet(rows)
<1> DEFINE first == NewestFirst(rows, ties)
           sorted == ByTime(Reverse(rows), DOMAIN rows)
<1>1. Len(rows) \in Nat /\ Cap \in Nat /\ DOMAIN rows = 1..Len(rows)
  BY HistoryAssumption, LenProperties
<1>2. Reverse(rows) \in Seq(S) /\ Len(Reverse(rows)) = Len(rows) /\ ToSet(Reverse(rows)) = ToSet(rows)
  BY ReverseMembers
<1>3. sorted \in Seq(S) /\ ToSet(sorted) = ToSet(rows) /\ Len(sorted) = Len(rows)
  <2> DEFINE back == Reverse(rows)
  <2>1. back \in Seq(S) /\ DOMAIN back = 1..Len(rows) /\ \A i \in 1..Len(rows) : back[i] \in S
    BY <1>2, LenProperties, ElementOfSeq
  <2>2. DOMAIN rows \in SUBSET DOMAIN back /\ \A i \in DOMAIN rows : back[i].time \in Int
    BY <1>1, <2>1
  <2>3. ToSet(back) = {back[i] : i \in DOMAIN rows}
    BY <1>1, <1>2, <2>1, Members
  <2> HIDE DEF back
  <2>4. sorted = ByTime(back, DOMAIN rows)
    BY DEF back
  <2> HIDE DEF sorted
  <2>5. /\ sorted \in Seq(S) /\ ToSet(sorted) = {back[i] : i \in DOMAIN rows}
        /\ \E f : /\ Lists(sorted, f, back, DOMAIN rows)
                 /\ \A m, n \in 1..Len(sorted) : m < n => Precedes(back, f[m], f[n])
    BY <2>1, <2>2, <2>4, ByTimeProperties
  <2>6. Len(sorted) = Cardinality(DOMAIN rows)
    BY <2>5, Zenon DEF Lists
  <2>7. Cardinality(DOMAIN rows) = Len(rows)
    <3>1. \A n \in Nat : Cardinality(1..n) = n
      BY FS_Interval
    <3> QED BY <1>1, <3>1
  <2> QED BY <1>2, <2>3, <2>5, <2>6, <2>7 DEF back
<1> HIDE DEF sorted
<1>4. Reverse(sorted) \in Seq(S) /\ Len(Reverse(sorted)) = Len(rows) /\ ToSet(Reverse(sorted)) = ToSet(rows)
  BY <1>3, ReverseMembers
<1>5. first \in Seq(S) /\ ToSet(first) = ToSet(rows) /\ Len(first) = Len(rows)
  <2>1. first = IF ties = "against" THEN Reverse(rows) ELSE Reverse(sorted)
    BY DEF NewestFirst, sorted
  <2> HIDE DEF first
  <2> QED BY <1>2, <1>4, <2>1
<1> HIDE DEF first
<1>6. Min({Cap, Len(first)}) = Len(first)
  <2>1. \A a, b \in Nat : b <= a => Min({a, b}) = b
    <3> TAKE a \in Nat, b \in Nat
    <3> HAVE b <= a
    <3>1. \A x \in {a, b} : (\A y \in {a, b} : x <= y) <=> x = b
      OBVIOUS
    <3> QED BY <3>1 DEF Min
  <2> QED BY <1>1, <1>5, <2>1
<1>7. Limited(first, Cap) = first
  BY <1>5, <1>6, SubSeqFull DEF Limited
<1> QED BY <1>5, <1>7 DEF first

\* The rows of some backends, if there are not too many of all.
LEMMA AllOfThem ==
    ASSUME Numbered, Written, asked.now = now, NEW sites \in SUBSET Sites,
           Cardinality(Settled(now, Sites)) <= Cap, NEW ties
    PROVE  /\ NewestRows(sites, ties) \in Seq(ToSet(log))
           /\ ToSet(NewestRows(sites, ties)) = {log[i] : i \in Settled(now, sites)}
<1> DEFINE places == Settled(now, sites)
           rows == Chosen(log, places)
           S == ToSet(log)
<1>1. log \in Seq(S) /\ DOMAIN log = 1..Len(log) /\ Len(log) \in Nat
  BY Members DEF Numbered
<1>2. \A r \in S : r.time \in Int
  BY DEF Written, ToSet, IsRow
<1>3. places \in SUBSET DOMAIN log /\ places \subseteq Settled(now, Sites) /\ Settled(now, Sites) \subseteq DOMAIN log
  BY DEF Settled
<1>4. IsFiniteSet(DOMAIN log)
  BY <1>1, FS_Interval
<1> HIDE DEF places
<1>5. IsFiniteSet(Settled(now, Sites)) /\ Cardinality(places) <= Cardinality(Settled(now, Sites))
  BY <1>3, <1>4, FS_Subset
<1>6. Cardinality(Settled(now, Sites)) \in Nat /\ Cap \in Nat
  BY <1>5, FS_CardinalityType, HistoryAssumption
<1> HIDE DEF S
<1>7. rows = Chosen(log, places)
  OBVIOUS
<1> HIDE DEF rows
<1>8. /\ Cardinality(places) \in Nat
      /\ rows \in Seq(S) /\ ToSet(rows) = {log[i] : i \in places}
      /\ \E f : /\ Lists(rows, f, log, places)
               /\ \A m, n \in 1..Len(rows) : m < n => f[m] < f[n]
  BY <1>1, <1>3, <1>7, ChosenProperties
<1>9. Len(rows) = Cardinality(places)
  BY <1>8, Zenon DEF Lists
<1>10. Len(rows) <= Cap
  BY <1>5, <1>6, <1>8, <1>9
<1>11. NewestRows(sites, ties) = Limited(NewestFirst(rows, ties), Cap)
  BY DEF NewestRows, rows, places
<1>12. /\ Limited(NewestFirst(rows, ties), Cap) \in Seq(S)
       /\ ToSet(Limited(NewestFirst(rows, ties), Cap)) = ToSet(rows)
  BY <1>2, <1>8, <1>10, WithinLimit
<1> QED BY <1>8, <1>11, <1>12 DEF S, places

\* A count is of the seconds that are over.
LEMMA CountComplete ==
    ASSUME Count
    PROVE  Complete'
<1>1. /\ stage' = "counted" /\ asked'.now = now /\ log' = log /\ now' = now
      /\ total'.complete => total'.rows = Cardinality(Settled(now, Sites))
  <2>1. PICK counting :
          /\ stage' = "counted" /\ asked' = [now |-> now, rows |-> Len(log)] /\ UNCHANGED core
          /\ total' = [rows |-> Cardinality(Settled(now, counting)), complete |-> counting = Sites]
    BY DEF Count
  <2>2. total'.rows = Cardinality(Settled(now, counting))
    BY <2>1
  <2>3. total'.complete => counting = Sites
    BY <2>1
  <2> QED BY <2>1, <2>2, <2>3 DEF core
<1>2. Settled(now, Sites)' = Settled(now, Sites)
  BY <1>1 DEF Settled
<1> QED BY <1>1, <1>2 DEF Complete

\* The answers, whole or in parts, have all the rows if nothing warns of the contrary.
LEMMA FetchComplete ==
    ASSUME Numbered, Written, Complete, FetchWhole \/ FetchEach
    PROVE  Complete'
<1> DEFINE all == {log[i] : i \in Settled(now, Sites)}
           S == ToSet(log)
           Part(sites) == [i \in DOMAIN Backends |-> NewestRows(sites \cap {Backends[i]}, "against")]
           Received(rows) == \/ \E ties : rows = NewestRows(Sites, ties)
                             \/ rows = FlattenSeq(Part(Sites))
<1>1. PICK rows :
        /\ stage = "counted" /\ stage' = "reported" /\ answer' = rows
        /\ total'.rows = total.rows /\ (total'.complete => total.complete)
        /\ ~warned' => ~(total.rows > Cap)
        /\ ~warned' /\ total'.complete => Received(rows)
        /\ UNCHANGED <<core, asked>>
  <2>1. CASE FetchWhole
    <3>1. PICK ties : Reported(NewestRows(Sites, ties), FALSE, Sites)
      BY <2>1 DEF FetchWhole
    <3> DEFINE rows == NewestRows(Sites, ties)
    <3>2. /\ stage = "counted" /\ stage' = "reported" /\ answer' = rows
          /\ warned' = (FALSE \/ total.rows > Cap) /\ UNCHANGED <<core, asked>>
          /\ total' = [rows |-> total.rows, complete |-> total.complete /\ Sites = Sites]
      BY <3>1 DEF Reported
    <3>3. Received(rows)
      OBVIOUS
    <3> HIDE DEF rows, Received
    <3> QED BY <3>2, <3>3
  <2>2. CASE FetchEach
    <3>1. PICK f \in Fallbacks :
            Reported(FlattenSeq(Part(f.answering)), f.answering # f.connected, f.connected)
      BY <2>2 DEF FetchEach
    <3> DEFINE rows == FlattenSeq(Part(f.answering))
    <3>2. /\ stage = "counted" /\ stage' = "reported" /\ answer' = rows
          /\ warned' = (f.answering # f.connected \/ total.rows > Cap) /\ UNCHANGED <<core, asked>>
          /\ total' = [rows |-> total.rows, complete |-> total.complete /\ f.connected = Sites]
      BY <3>1 DEF Reported
    <3>3. f.answering = Sites => Received(rows)
      OBVIOUS
    <3> HIDE DEF rows, Received
    <3> QED BY <3>2, <3>3
  <2> QED BY <2>1, <2>2
<1>2. log' = log /\ now' = now /\ asked' = asked
  BY <1>1 DEF core
<1>3. asked.now = now /\ (total.complete => total.rows = Cardinality(Settled(now, Sites)))
  BY <1>1 DEF Complete
<1>4. ASSUME ~warned', total'.complete
      PROVE  rows \in Seq(S) /\ ToSet(rows) = all
  <2>1. Received(rows) /\ ~(Cardinality(Settled(now, Sites)) > Cap)
    BY <1>1, <1>3, <1>4
  <2>2. Cardinality(Settled(now, Sites)) <= Cap
    <3>1. IsFiniteSet(Settled(now, Sites))
      <4>1. IsFiniteSet(DOMAIN log)
        <5>1. DOMAIN log = 1..Len(log) /\ Len(log) \in Nat
          BY Members DEF Numbered
        <5> QED BY <5>1, FS_Interval
      <4>2. Settled(now, Sites) \subseteq DOMAIN log
        BY DEF Settled
      <4> QED BY <4>1, <4>2, FS_Subset
    <3>2. Cardinality(Settled(now, Sites)) \in Nat /\ Cap \in Nat
      BY <3>1, FS_CardinalityType, HistoryAssumption
    <3> QED BY <2>1, <3>2
  <2>3. CASE \E ties : rows = NewestRows(Sites, ties)
    <3>1. PICK ties : rows = NewestRows(Sites, ties)
      BY <2>3
    <3> QED BY <1>3, <2>2, <3>1, AllOfThem
  <2>4. CASE rows = FlattenSeq(Part(Sites))
    <3> DEFINE parts == Part(Sites)
    <3>1. ASSUME NEW i \in DOMAIN Backends
          PROVE  parts[i] \in Seq(S) /\ ToSet(parts[i]) = {log[j] : j \in Settled(now, Sites \cap {Backends[i]})}
      <4>1. Sites \cap {Backends[i]} \in SUBSET Sites
        OBVIOUS
      <4> QED BY <1>3, <2>2, <4>1, AllOfThem
    <3>2. Len(Backends) \in Nat /\ DOMAIN Backends = 1..Len(Backends) /\ DOMAIN parts = DOMAIN Backends
      BY HistoryAssumption, Members
    <3>3. rows = FlattenSeq(parts)
      BY <2>4
    <3> HIDE DEF parts
    <3>4. parts \in Seq(Seq(S))
      <4>1. parts = [i \in DOMAIN Backends |-> parts[i]]
        BY DEF parts
      <4> DEFINE T == Seq(S)
      <4>2. \A i \in DOMAIN Backends : parts[i] \in T
        BY <3>1
      <4> HIDE DEF T
      <4>3. parts \in [1..Len(Backends) -> T]
        BY <3>2, <4>1, <4>2
      <4>4. parts \in Seq(T)
        BY <3>2, <4>3, SeqDef
      <4> QED BY <4>4 DEF T
    <3>5. rows \in Seq(S) /\ ToSet(rows) = UNION {ToSet(parts[i]) : i \in DOMAIN parts}
      BY <3>3, <3>4, Flattened
    <3>6. UNION {ToSet(parts[i]) : i \in DOMAIN parts} = all
      <4>1. \A i \in DOMAIN Backends : Settled(now, Sites \cap {Backends[i]}) \subseteq Settled(now, Sites)
        BY DEF Settled
      <4>2. \A j \in Settled(now, Sites) : \E i \in DOMAIN Backends : j \in Settled(now, Sites \cap {Backends[i]})
        BY HistoryAssumption DEF Settled, ToSet
      <4>3. ASSUME NEW r \in UNION {ToSet(parts[i]) : i \in DOMAIN parts} PROVE r \in all
        <5>1. PICK i \in DOMAIN Backends : r \in ToSet(parts[i])
          BY <3>2, <4>3
        <5>2. r \in {log[j] : j \in Settled(now, Sites \cap {Backends[i]})}
          BY <3>1, <5>1
        <5> QED BY <4>1, <5>2
      <4>4. ASSUME NEW r \in all PROVE r \in UNION {ToSet(parts[i]) : i \in DOMAIN parts}
        <5>1. PICK j \in Settled(now, Sites) : r = log[j]
          BY <4>4
        <5>2. PICK i \in DOMAIN Backends : j \in Settled(now, Sites \cap {Backends[i]})
          BY <4>2
        <5>3. r \in ToSet(parts[i])
          BY <3>1, <5>1, <5>2
        <5> QED BY <3>2, <5>3
      <4> QED BY <4>3, <4>4
    <3> QED BY <3>5, <3>6
  <2> QED BY <2>1, <2>3, <2>4
<1>5. Settled(now, Sites)' = Settled(now, Sites)
  BY <1>2 DEF Settled
<1> HIDE DEF all, S
<1>6. all' = all /\ S' = S
  BY <1>2, <1>5 DEF all, S
<1>7. stage' = "reported" /\ ~warned' /\ total'.complete => answer' \in Seq(S') /\ ToSet(answer') = all'
  BY <1>1, <1>2, <1>4, <1>6
<1>8. asked'.now = now' /\ (total'.complete => total'.rows = Cardinality(Settled(now, Sites)'))
  BY <1>1, <1>2, <1>3, <1>5
<1> QED BY <1>7, <1>8 DEF Complete, all, S
----------------------------------------------------------------------------
\* At first nothing is written and nothing is known to be wrong.
LEMMA PastInit == Init => PastInv
<1> SUFFICES ASSUME Init PROVE PastInv
  OBVIOUS
<1>1. log = <<>> /\ now = 0 /\ past = <<>> /\ stage = "writing" /\ live = [m \in Monitored |-> Quiet]
  BY DEF Init
<1>2. log \in Seq(ToSet(log)) /\ DOMAIN log = {}
  <2>1. log \in Seq({})
    BY <1>1, EmptySeq
  <2> QED BY <1>1, <2>1, Members
<1>3. Numbered /\ Written /\ Complete
  BY <1>1, <1>2 DEF Numbered, Written, Complete
<1>4. live \in [Monitored -> Knowledge]
  BY <1>1 DEF Quiet, Knowledge
<1>5. past \in Seq([Monitored -> Knowledge]) /\ Len(past) = now
  BY <1>1, EmptySeq
<1>6. ASSUME NEW m \in Monitored, NEW s \in 0..now PROVE Knows(At(s)[m], RowsOf(m, s))
  <2>1. At(s)[m] = Quiet
    BY <1>1 DEF At
  <2>2. RowsOf(m, s) = {}
    BY <1>2 DEF RowsOf, ToSet
  <2>3. Knows(Quiet, {})
    BY DEF Knows, Quiet, Shows, Standing, Alerts, Hard, Begun, Taken
  <2> QED BY <2>1, <2>2, <2>3
<1>7. ASSUME NEW m \in Monitored PROVE Relieved(Hard(RowsOf(m, now)))
  <2>1. RowsOf(m, now) = {}
    BY <1>2 DEF RowsOf, ToSet
  <2> QED BY <2>1 DEF Relieved, Hard, Alerts
<1> QED BY <1>3, <1>4, <1>5, <1>6, <1>7 DEF PastInv, Recorded

\* No step tears apart what is known and what is written.
LEMMA PastNext == PastInv /\ [Next]_vars => PastInv'
<1> SUFFICES ASSUME PastInv, [Next]_vars PROVE PastInv'
  OBVIOUS
<1>0. Numbered /\ Written /\ Recorded /\ Complete
  BY DEF PastInv
<1>1. ASSUME UNCHANGED core PROVE Numbered' /\ Written' /\ Recorded'
  <2>1. log' = log /\ now' = now /\ live' = live /\ past' = past
    BY <1>1 DEF core
  <2>2. \A m, s : At(s)' = At(s) /\ RowsOf(m, s)' = RowsOf(m, s)
    BY <2>1 DEF At, RowsOf
  <2>3. \A m \in Monitored, s \in 0..now' : Knows(At(s)'[m], RowsOf(m, s)')
    BY <1>0, <2>1, <2>2 DEF Recorded
  <2>4. \A m \in Monitored : Relieved(Hard(RowsOf(m, now)'))
    <3>1. \A m : RowsOf(m, now)' = RowsOf(m, now)
      BY <2>1 DEF RowsOf
    <3> QED BY <1>0, <3>1 DEF Recorded
  <2>5. Recorded'
    BY <1>0, <2>1, <2>3, <2>4 DEF Recorded
  <2> QED BY <1>0, <2>1, <2>5 DEF Numbered, Written
<1>2. ASSUME stage' \notin {"counted", "reported"} PROVE Complete'
  BY <1>2 DEF Complete
<1>3. CASE \E m \in Monitored : Happens(m)
  <2>1. PICK m \in Monitored : Happens(m)
    BY <1>3
  <2>2. Event(m)
    BY <2>1 DEF Happens, Alert, DowntimeBegins, DowntimeEnds, Acknowledged, AcknowledgementRemoved, Notified
  <2>3. stage' \notin {"counted", "reported"}
    BY <2>2 DEF Event, report
  <2> QED BY <1>0, <1>2, <2>1, <2>3, HappensRecorded DEF PastInv
<1>4. CASE Tick
  <2>1. stage' \notin {"counted", "reported"} /\ log' = log
    BY <1>4 DEF Tick, report
  <2>2. Numbered'
    BY <1>0, <2>1 DEF Numbered
  <2> QED BY <1>0, <1>2, <1>4, <2>1, <2>2, TickRecorded DEF PastInv
<1>5. CASE Count
  <2>1. UNCHANGED core
    BY <1>5 DEF Count
  <2> QED BY <1>1, <1>5, <2>1, CountComplete DEF PastInv
<1>6. CASE FetchWhole \/ FetchEach
  <2>1. UNCHANGED core
    BY <1>6 DEF FetchWhole, FetchEach, Reported
  <2> QED BY <1>0, <1>1, <1>6, <2>1, FetchComplete DEF PastInv
<1>7. CASE FirstPage \/ NextPage
  <2>1. UNCHANGED core /\ stage' \notin {"counted", "reported"}
    BY <1>7 DEF FirstPage, NextPage
  <2> QED BY <1>1, <1>2, <2>1 DEF PastInv
<1>8. CASE UNCHANGED vars
  <2>1. UNCHANGED core /\ UNCHANGED report
    BY <1>8 DEF vars
  <2>2. Complete'
    <3>1. UNCHANGED <<log, now, stage, asked, total, answer, warned>>
      BY <2>1 DEF core, report
    <3>2. Settled(now, Sites)' = Settled(now, Sites)
      BY <3>1 DEF Settled
    <3> QED BY <1>0, <3>1, <3>2 DEF Complete
  <2> QED BY <1>1, <2>1, <2>2 DEF PastInv
<1> QED BY <1>3, <1>4, <1>5, <1>6, <1>7, <1>8 DEF Next

\* The log says of each second what the cores knew at its end, and an answer that
\* is given without a warning says it all.
THEOREM PastInvariant == Spec => []PastInv
<1> QED BY PastInit, PastNext, PTL DEF Spec
----------------------------------------------------------------------------
(* The states that are told. *)

\* A record and what was known.
Agrees(rec, l) ==
    /\ rec.state = l.state \/ (rec.state = None /\ l.state = 0)
    /\ rec.in_downtime = (l.depth > 0) /\ rec.acknowledged = l.acked

\* What a record tells of some rows and what was known of them agree.
LEMMA TellsKnown ==
    ASSUME NEW R, \A r \in R : IsRow(r), Distinct(R),
           NEW rec \in Records, Tells(rec, R), NEW l \in Knowledge, Knows(l, R)
    PROVE  Agrees(rec, l)
<1>1. rec.state = l.state \/ (rec.state = None /\ l.state = 0)
  <2>1. CASE Alerts(R) = {}
    BY <2>1 DEF Tells, Knows, Shows
  <2>2. CASE Alerts(R) # {}
    <3>1. PICK q \in Alerts(R) : q.state = rec.state /\ \A r \in Alerts(R) : r.n <= q.n
      BY <2>2 DEF Tells, Shows
    <3>2. PICK r \in Alerts(R) : r.state = l.state /\ \A p \in Alerts(R) : p.n <= r.n
      BY <2>2 DEF Knows, Shows
    <3>3. q.n \in Nat /\ r.n \in Nat /\ q.n <= r.n /\ r.n <= q.n
      BY <3>1, <3>2 DEF Alerts, IsRow
    <3>4. q = r
      BY <3>3 DEF Distinct, Alerts
    <3> QED BY <3>1, <3>2, <3>4
  <2> QED BY <2>1, <2>2
<1>2. rec.in_downtime \in BOOLEAN /\ rec.acknowledged \in BOOLEAN /\ l.acked \in BOOLEAN
  BY DEF Records, Knowledge
<1>3. rec.in_downtime = (l.depth > 0)
  BY <1>2 DEF Tells, Knows
<1>4. rec.acknowledged = l.acked
  BY <1>2 DEF Tells, Knows
<1> QED BY <1>1, <1>3, <1>4 DEF Agrees

\* Of an object without rows nothing was wrong.
LEMMA NothingKnown ==
    ASSUME NEW l \in Knowledge, Knows(l, {})
    PROVE  l = Quiet
<1>1. Alerts({}) = {} /\ Hard({}) = {} /\ Begun({}) = {} /\ Taken({}) = {}
  BY DEF Alerts, Hard, Begun, Taken
<1>2. l.state = 0 /\ l.hardstate = 0 /\ ~(l.depth > 0) /\ ~l.acked
  BY <1>1 DEF Knows, Shows, Standing
<1> QED BY <1>2 DEF Knowledge, Quiet

\* What is neither an alert nor a downtime nor an acknowledgement says nothing.
LEMMA ReplayableKnow ==
    ASSUME NEW R, NEW l, Knows(l, R)
    PROVE  Knows(l, {r \in R : r.type \in Replayable})
<1> DEFINE Q == {r \in R : r.type \in Replayable}
<1>1. /\ Alerts(Q) = Alerts(R) /\ Hard(Q) = Hard(R) /\ Begun(Q) = Begun(R) /\ Ended(Q) = Ended(R)
      /\ Taken(Q) = Taken(R) /\ Dropped(Q) = Dropped(R)
  BY DEF Replayable, Alerts, Hard, Begun, Ended, Taken, Dropped
<1> QED BY <1>1 DEF Knows

\* A report of state_at or state_diff that is not warned of.
Warrants == stage = "reported" /\ ~warned /\ total.complete

\* The rows that are received of a single object are those of the log.
LEMMA ReceivedRows ==
    ASSUME PastInv, Warrants, NEW m \in Single, NEW s \in 0..(asked.now - 1)
    PROVE  /\ asked.now = now /\ s \in 0..now /\ s < now
           /\ UpToSecond(ToSet(answer), KeyOf(m), s) = {r \in RowsOf(m, s) : r.type \in Replayable}
<1>1. asked.now = now /\ ToSet(answer) = {log[i] : i \in Settled(now, Sites)} /\ now \in Nat
  BY DEF PastInv, Complete, Warrants, Written
<1>2. s \in 0..now /\ s < now
  BY <1>1
<1>3. ASSUME NEW i \in DOMAIN log, Key(log[i]) = KeyOf(m)
      PROVE  log[i].backend = m[1] /\ log[i].backend \in Sites
  <2> DEFINE o == <<log[i].backend, log[i].host, log[i].service>>
  <2>1. o \in Monitored /\ KeyOf(o) = KeyOf(m)
    BY <1>3 DEF PastInv, Written, Key, KeyOf
  <2>2. o = m
    BY <2>1 DEF Single
  <2>3. m[1] = log[i].backend
    BY <2>2
  <2>4. m \in Monitored
    BY DEF Single
  <2> QED BY <2>3, <2>4 DEF Sites
<1>4. \A i \in DOMAIN log : log[i].time <= s => log[i].time < now
  <2>1. \A i \in DOMAIN log : log[i].time \in 0..now
    BY DEF PastInv, Written
  <2> QED BY <1>1, <1>2, <2>1
<1>5. ASSUME NEW r \in UpToSecond(ToSet(answer), KeyOf(m), s)
      PROVE  r \in RowsOf(m, s) /\ r.type \in Replayable
  <2>1. PICK i \in Settled(now, Sites) : r = log[i]
    BY <1>1, <1>5 DEF UpToSecond
  <2>2. i \in DOMAIN log /\ r.type \in Replayable /\ Key(log[i]) = KeyOf(m) /\ r.time <= s
    BY <1>5, <2>1 DEF Settled, UpToSecond
  <2> QED BY <1>3, <2>1, <2>2 DEF RowsOf, ToSet
<1>6. ASSUME NEW r \in RowsOf(m, s), r.type \in Replayable
      PROVE  r \in UpToSecond(ToSet(answer), KeyOf(m), s)
  <2>1. PICK i \in DOMAIN log : r = log[i]
    BY DEF RowsOf, ToSet
  <2>2. Key(log[i]) = KeyOf(m) /\ log[i].time <= s
    BY <2>1 DEF RowsOf
  <2>3. i \in Settled(now, Sites)
    BY <1>3, <1>4, <1>6, <2>1, <2>2 DEF Settled
  <2> QED BY <1>1, <2>1, <2>2, <2>3 DEF UpToSecond
<1> QED BY <1>1, <1>2, <1>5, <1>6

\* The rows of an object that can be told apart by their times are in order.
LEMMA ToldInOrder ==
    ASSUME PastInv, NEW m \in Monitored, NEW s, Told(m, s)
    PROVE  InOrder({r \in RowsOf(m, s) : r.type \in Replayable})
<1> DEFINE R == {r \in RowsOf(m, s) : r.type \in Replayable}
<1>1. SUFFICES ASSUME NEW q \in R, NEW r \in R
               PROVE  (q.time < r.time => q.n < r.n) /\ (q.time = r.time => q = r)
  BY DEF InOrder
<1>2. PICK i \in DOMAIN log : q = log[i]
  BY DEF RowsOf, ToSet
<1>3. PICK j \in DOMAIN log : r = log[j]
  BY DEF RowsOf, ToSet
<1>4. Key(log[i]) = KeyOf(m) /\ Key(log[j]) = KeyOf(m) /\ log[i].time <= s
  BY <1>2, <1>3 DEF RowsOf
<1>5. q.time = r.time => q = r
  BY <1>2, <1>3, <1>4 DEF Told
<1>6. i \in Nat /\ j \in Nat /\ q.n = i /\ r.n = j /\ q.time \in Int /\ r.time \in Int
  <2>1. DOMAIN log = 1..Len(log)
    BY Members DEF PastInv, Numbered
  <2> QED BY <1>2, <1>3, <2>1 DEF PastInv, Numbered, Written, IsRow
<1>7. j < i => r.time <= q.time
  BY <1>2, <1>3 DEF PastInv, Written
<1>8. j = i => r = q
  BY <1>2, <1>3
<1>9. q.time < r.time => i < j
  BY <1>6, <1>7, <1>8
<1> QED BY <1>5, <1>6, <1>9

\* What is told of an object in a state, if it is told anything, was so.
StateTold(states, k, l) ==
    /\ k \in DOMAIN states => states[k] \in Records /\ Agrees(states[k], l)
    /\ k \notin DOMAIN states => l = Quiet
LEMMA ToldStates ==
    ASSUME PastInv, Warrants, NEW m \in Single, NEW s \in 0..(asked.now - 1), Told(m, s)
    PROVE  StateTold(ReconstructStateAt(answer, s), KeyOf(m), At(s)[m]) /\ At(s)[m] \in Knowledge
<1> DEFINE states == ReconstructStateAt(answer, s)
           k == KeyOf(m)
           R == {r \in RowsOf(m, s) : r.type \in Replayable}
           S == ToSet(log)
<1>1. m \in Monitored /\ s \in Int
  BY ReceivedRows DEF Single
<1>2. s \in 0..now /\ s < now /\ UpToSecond(ToSet(answer), k, s) = R
  BY ReceivedRows
<1>3. At(s)[m] \in Knowledge /\ Knows(At(s)[m], RowsOf(m, s))
  <2>1. /\ past \in Seq([Monitored -> Knowledge]) /\ Len(past) = now /\ now \in Nat
        /\ Knows(At(s)[m], RowsOf(m, s))
    BY <1>1, <1>2 DEF PastInv, Recorded, Written
  <2>2. s + 1 \in 1..Len(past)
    BY <1>2, <2>1
  <2>3. past[s + 1] \in [Monitored -> Knowledge]
    BY <2>1, <2>2, ElementOfSeq
  <2> QED BY <1>1, <1>2, <2>1, <2>3 DEF At
<1>4. Knows(At(s)[m], R)
  BY <1>3, ReplayableKnow
<1>5. InOrder(R)
  BY <1>1, ToldInOrder
<1>6. answer \in Seq(S) /\ (\A r \in S : IsRow(r)) /\ Distinct(S) /\ R \subseteq S
  <2>1. Distinct(S)
    BY DEF PastInv, Numbered, Distinct, ToSet
  <2>2. \A r \in S : IsRow(r)
    BY DEF PastInv, Written, ToSet
  <2>3. answer \in Seq(S)
    BY DEF PastInv, Complete, Warrants
  <2> QED BY <2>1, <2>2, <2>3 DEF RowsOf
<1> HIDE DEF R, S, k
<1>7. /\ DOMAIN states = {Key(r) : r \in {r \in ToSet(answer) : r.time <= s}}
      /\ \A key \in DOMAIN states : InOrder(UpToSecond(ToSet(answer), key, s)) =>
           states[key] \in Records /\ Tells(states[key], UpToSecond(ToSet(answer), key, s))
  BY <1>1, <1>6, ReconstructTells
<1> HIDE DEF states
<1>8. ASSUME k \in DOMAIN states PROVE states[k] \in Records /\ Agrees(states[k], At(s)[m])
  <2>1. states[k] \in Records /\ Tells(states[k], R)
    BY <1>2, <1>5, <1>7, <1>8
  <2>2. (\A r \in R : IsRow(r)) /\ Distinct(R)
    BY <1>6 DEF Distinct
  <2> QED BY <1>3, <1>4, <2>1, <2>2, TellsKnown
<1>9. ASSUME k \notin DOMAIN states PROVE At(s)[m] = Quiet
  <2>1. UpToSecond(ToSet(answer), k, s) = {}
    BY <1>7, <1>9 DEF UpToSecond
  <2>2. Knows(At(s)[m], {})
    BY <1>2, <1>4, <2>1
  <2> QED BY <1>3, <2>2, NothingKnown
<1> QED BY <1>3, <1>8, <1>9 DEF StateTold, states, k

\* The difference of two states that are told.
LEMMA ToldDifference ==
    ASSUME NEW before, NEW after, NEW k, NEW b \in Knowledge, NEW a \in Knowledge,
           StateTold(before, k, b), StateTold(after, k, a)
    PROVE  LET change == DiffStates(before, after) IN
           /\ k \in DOMAIN change => (change[k] = "new_problem" <=> (b.state = 0 /\ a.state # 0))
           /\ b.state # a.state => k \in DOMAIN change
<1> DEFINE Of1(map) == IF k \in DOMAIN map THEN map[k] ELSE Unseen
           rb == Of1(before)
           ra == Of1(after)
           change == DiffStates(before, after)
           same == rb.state = ra.state /\ rb.in_downtime = ra.in_downtime /\ rb.acknowledged = ra.acknowledged
<1>1. /\ k \in DOMAIN change <=> k \in DOMAIN before \cup DOMAIN after /\ ~same
      /\ k \in DOMAIN change => change[k] = Moved(rb, ra)
  BY DEF DiffStates
<1> HIDE DEF change
<1>2. /\ b.state \in Nat /\ a.state \in Nat
      /\ rb.state = b.state \/ (rb.state = None /\ b.state = 0)
      /\ ra.state = a.state \/ (ra.state = None /\ a.state = 0)
  <2>1. b.state \in Nat /\ a.state \in Nat /\ Quiet.state = 0 /\ Unseen.state = None
    BY DEF Knowledge, Quiet, Unseen
  <2> QED BY <2>1 DEF StateTold, Agrees
<1> HIDE DEF rb, ra
<1>3. (IsProblem(rb) <=> b.state # 0) /\ (IsProblem(ra) <=> a.state # 0)
  BY <1>2 DEF IsProblem, None
<1>4. b.state # a.state => rb.state # ra.state
  BY <1>2 DEF None
<1>5. Moved(rb, ra) = "new_problem" <=> (b.state = 0 /\ a.state # 0)
  <2>1. CASE rb.state # ra.state
    <3>1. Moved(rb, ra) = IF IsProblem(ra) /\ ~IsProblem(rb) THEN "new_problem"
                          ELSE IF IsProblem(rb) /\ ~IsProblem(ra) THEN "recovered" ELSE "state_changed"
      BY <2>1 DEF Moved
    <3> QED BY <1>3, <3>1
  <2>2. CASE rb.state = ra.state
    <3>1. Moved(rb, ra) # "new_problem"
      BY <2>2 DEF Moved
    <3> QED BY <1>4, <2>2, <3>1
  <2> QED BY <2>1, <2>2
<1>6. b.state # a.state => k \in DOMAIN before \cup DOMAIN after
  BY DEF StateTold
<1>7. b.state # a.state => k \in DOMAIN change
  BY <1>1, <1>4, <1>6
<1> QED BY <1>1, <1>5, <1>7 DEF change

\* What is told without a warning of a second that is over, and of the change from
\* the one before it, is what the cores knew.
LEMMA PastIsTold == PastInv => SettledPast
<1> SUFFICES ASSUME PastInv, Warrants, NEW s \in 0..(asked.now - 1), NEW m \in Single, Told(m, s)
             PROVE  LET states == ReconstructStateAt(answer, s) IN
                    /\ KeyOf(m) \in DOMAIN states =>
                         LET rec == states[KeyOf(m)] IN
                         /\ rec.state = At(s)[m].state \/ (rec.state = None /\ At(s)[m].state = 0)
                         /\ rec.in_downtime = (At(s)[m].depth > 0)
                         /\ rec.acknowledged = At(s)[m].acked
                    /\ KeyOf(m) \notin DOMAIN states => At(s)[m] = Quiet
                    /\ s > 0 => LET change == StateDiff(answer, s, s - 1)
                                    b == At(s - 1)[m]
                                    a == At(s)[m] IN
                         /\ KeyOf(m) \in DOMAIN change =>
                              (change[KeyOf(m)] = "new_problem" <=> (b.state = 0 /\ a.state # 0))
                         /\ b.state # a.state => KeyOf(m) \in DOMAIN change
  BY DEF SettledPast, Warrants
<1>1. StateTold(ReconstructStateAt(answer, s), KeyOf(m), At(s)[m]) /\ At(s)[m] \in Knowledge
  BY ToldStates
<1>2. ASSUME s > 0
      PROVE  LET change == StateDiff(answer, s, s - 1)
                 b == At(s - 1)[m]
                 a == At(s)[m] IN
             /\ KeyOf(m) \in DOMAIN change =>
                  (change[KeyOf(m)] = "new_problem" <=> (b.state = 0 /\ a.state # 0))
             /\ b.state # a.state => KeyOf(m) \in DOMAIN change
  <2>1. s \in Nat /\ s - 1 \in Nat /\ s - 1 \in 0..(asked.now - 1)
    <3>1. asked.now = now /\ now \in Nat
      BY ReceivedRows DEF PastInv, Written
    <3> QED BY <1>2, <3>1
  <2>2. Told(m, s - 1)
    <3>1. \A i \in DOMAIN log : log[i].time \in Int
      BY DEF PastInv, Written, IsRow
    <3>2. \A i \in DOMAIN log : log[i].time <= s - 1 => log[i].time <= s
      BY <2>1, <3>1
    <3> QED BY <3>2 DEF Told
  <2>3. StateTold(ReconstructStateAt(answer, s - 1), KeyOf(m), At(s - 1)[m]) /\ At(s - 1)[m] \in Knowledge
    BY <2>1, <2>2, ToldStates
  <2>4. Min({s, s - 1}) = s - 1 /\ Max({s, s - 1}) = s
    <3>1. \A x \in {s, s - 1} : /\ (\A y \in {s, s - 1} : x <= y) <=> x = s - 1
                               /\ (\A y \in {s, s - 1} : x >= y) <=> x = s
      BY <2>1
    <3> QED BY <3>1 DEF Min, Max
  <2>5. StateDiff(answer, s, s - 1) =
          DiffStates(ReconstructStateAt(answer, s - 1), ReconstructStateAt(answer, s))
    BY <2>4 DEF StateDiff
  <2> DEFINE before == ReconstructStateAt(answer, s - 1)
             after == ReconstructStateAt(answer, s)
             k == KeyOf(m)
             b == At(s - 1)[m]
             a == At(s)[m]
  <2>6. StateTold(before, k, b) /\ b \in Knowledge /\ StateTold(after, k, a) /\ a \in Knowledge
    BY <1>1, <2>3
  <2>7. StateDiff(answer, s, s - 1) = DiffStates(before, after)
    BY <2>5
  <2> HIDE DEF before, after, k, b, a
  <2>8. /\ k \in DOMAIN DiffStates(before, after) =>
             (DiffStates(before, after)[k] = "new_problem" <=> (b.state = 0 /\ a.state # 0))
        /\ b.state # a.state => k \in DOMAIN DiffStates(before, after)
    BY <2>6, ToldDifference
  <2> QED BY <2>7, <2>8 DEF k, b, a
<1> QED BY <1>1, <1>2 DEF StateTold, Agrees

\* What state_at and state_diff say of a second that is over is what the core knew
\* at its end, or a warning is given, whatever the limit and however many backends
\* and objects there are (history.py:1624-1691, 1751-1848).
THEOREM PastIsSettled == Spec => []SettledPast
<1> QED BY PastInvariant, PastIsTold, PTL
----------------------------------------------------------------------------
(* The incidents of an object. *)

\* The hard alerts of an object within a window, as a report draws them.
InWindow(m, w) == Of(Between(log, w[1], w[2]), KeyOf(m))
HardOf(rows) == Chosen(rows, {i \in DOMAIN rows : rows[i].type = "ALERT" /\ rows[i].hard})

\* They are those of the log, in its order.
LEMMA WindowHard ==
    ASSUME PastInv, NEW m \in Single, NEW w \in Windows
    PROVE  LET hard == HardOf(InWindow(m, w)) IN
           /\ HardAlerts(InWindow(m, w)) = hard
           /\ hard \in Seq(ToSet(log)) /\ AsLogged(hard)
           /\ ToSet(hard) = {r \in Hard(RowsOf(m, now)) : w[1] <= r.time /\ r.time <= w[2]}
<1> DEFINE S == ToSet(log)
           inside == Between(log, w[1], w[2])
           rows == InWindow(m, w)
           hard == HardOf(rows)
           places == {i \in DOMAIN log : log[i].time \in w[1]..w[2]}
           own == {i \in DOMAIN inside : Key(inside[i]) = KeyOf(m)}
           alerts == {i \in DOMAIN rows : rows[i].type = "ALERT" /\ rows[i].hard}
<1>1. now \in Nat /\ w[1] \in 0..now /\ w[2] \in 0..now
  BY DEF PastInv, Written, Windows
<1>2. log \in Seq(S) /\ DOMAIN log = 1..Len(log) /\ Len(log) \in Nat
  BY Members DEF PastInv, Numbered
<1>3. \A r \in S : IsRow(r) /\ r.time \in Int /\ r.time \in 0..now
  BY DEF PastInv, Written, ToSet, IsRow
<1>4. AsLogged(log)
  <2>1. \A i \in DOMAIN log : log[i].n = i
    BY DEF PastInv, Numbered
  <2>2. \A i, j \in DOMAIN log : i < j => log[i].time <= log[j].time
    BY DEF PastInv, Written
  <2> QED BY <1>2, <2>1, <2>2 DEF AsLogged
<1>5. inside \in Seq(S) /\ AsLogged(inside) /\ ToSet(inside) = {log[i] : i \in places}
  <2>1. inside = Chosen(log, places)
    BY DEF Between
  <2>2. places \in SUBSET DOMAIN log
    OBVIOUS
  <2> HIDE DEF inside, places, S
  <2> QED BY <1>2, <1>4, <2>1, <2>2, ChosenAsLogged
<1>6. rows \in Seq(S) /\ AsLogged(rows) /\ ToSet(rows) = {inside[i] : i \in own}
  <2>1. rows = Chosen(inside, own)
    BY DEF InWindow, Of
  <2>2. own \in SUBSET DOMAIN inside
    OBVIOUS
  <2> HIDE DEF inside, own, rows, S
  <2> QED BY <1>5, <2>1, <2>2, ChosenAsLogged
<1>7. hard \in Seq(S) /\ AsLogged(hard) /\ ToSet(hard) = {rows[i] : i \in alerts}
  <2>1. hard = Chosen(rows, alerts)
    BY DEF HardOf
  <2>2. alerts \in SUBSET DOMAIN rows
    OBVIOUS
  <2> HIDE DEF rows, hard, alerts, S
  <2> QED BY <1>6, <2>1, <2>2, ChosenAsLogged
<1>8. HardAlerts(rows) = hard
  <2> HIDE DEF S, rows
  <2> QED BY <1>3, <1>6, HardAsLogged DEF HardOf
<1>9. ASSUME NEW r
      PROVE  r \in ToSet(hard) <=> /\ r \in S /\ r.time \in w[1]..w[2] /\ Key(r) = KeyOf(m)
                                   /\ r.type = "ALERT" /\ r.hard
  <2>1. r \in ToSet(inside) <=> r \in S /\ r.time \in w[1]..w[2]
    BY <1>5 DEF ToSet
  <2>2. r \in ToSet(rows) <=> r \in ToSet(inside) /\ Key(r) = KeyOf(m)
    <3> HIDE DEF inside, rows
    <3> QED BY <1>6 DEF ToSet, own
  <2>3. r \in ToSet(hard) <=> r \in ToSet(rows) /\ r.type = "ALERT" /\ r.hard
    <3> HIDE DEF rows, hard
    <3> QED BY <1>7 DEF ToSet, alerts
  <2> QED BY <2>1, <2>2, <2>3
<1>10. ASSUME NEW r \in S, Key(r) = KeyOf(m)
       PROVE  r.backend = m[1]
  <2> DEFINE o == <<r.backend, r.host, r.service>>
  <2>1. o \in Monitored
    BY DEF PastInv, Written, ToSet
  <2>2. KeyOf(o) = KeyOf(m)
    BY <1>10 DEF Key, KeyOf
  <2>3. o = m
    BY <2>1, <2>2 DEF Single
  <2> QED BY <2>3
<1>11. ASSUME NEW r
       PROVE  r \in Hard(RowsOf(m, now)) <=>
                /\ r \in S /\ r.time <= now /\ Key(r) = KeyOf(m) /\ r.type = "ALERT" /\ r.hard
  BY <1>10 DEF Hard, Alerts, RowsOf
<1>12. \A r \in S : r.time <= now /\ (r.time \in w[1]..w[2] <=> w[1] <= r.time /\ r.time <= w[2])
  BY <1>1, <1>3
<1>13. ToSet(hard) = {r \in Hard(RowsOf(m, now)) : w[1] <= r.time /\ r.time <= w[2]}
  <2> HIDE DEF S, hard
  <2> QED BY <1>9, <1>11, <1>12
<1> QED BY <1>7, <1>8, <1>13

\* Hard alerts of an object as the log has them, and those of them that are drawn
\* for a window.
OnRecord(H) ==
    /\ (\A r \in H : IsRow(r)) /\ Distinct(H) /\ Relieved(H)
    /\ \A q, r \in H : q.n <= r.n => q.time <= r.time
Drawn(hard, H, since, until) ==
    /\ Len(hard) \in Nat /\ AsLogged(hard)
    /\ \A i \in 1..Len(hard) : hard[i] \in H /\ since <= hard[i].time /\ hard[i].time <= until
    /\ \A r \in H : since <= r.time /\ r.time <= until => \E i \in 1..Len(hard) : hard[i] = r
By(H, s) == {r \in H : r.time <= s}

\* The hard alerts of a window say that an object is out when it was known to be
\* in a hard problem and an alert of the window tells so.
LEMMA OutIsKnown ==
    ASSUME NEW H, OnRecord(H), NEW since \in Int, NEW until \in Int, NEW s \in since..until,
           NEW hard, Drawn(hard, H, since, until), NEW state, Shows(By(H, s), state, 0)
    PROVE  Out(hard, Len(hard), s) <=>
             Len(hard) # 0 /\ (hard[1].state = 0 \/ hard[1].time <= s) /\ state # 0
<1> DEFINE N == Len(hard)
           by == By(H, s)
<1>0. \A r : r \in by <=> r \in H /\ r.time <= s
  BY DEF By
<1>1. /\ \A r \in H : r.n \in Nat /\ r.time \in Int
      /\ \A q, r \in H : q.n <= r.n => q.time <= r.time
      /\ Distinct(H) /\ Relieved(H)
  BY DEF OnRecord, IsRow
<1>2. \A i \in 1..N : hard[i] \in H /\ since <= hard[i].time /\ hard[i].time <= until
  BY DEF Drawn
<1>3. \A r \in H : since <= r.time /\ r.time <= until => \E i \in 1..N : hard[i] = r
  BY DEF Drawn
<1>4. \A i, j \in 1..N : i < j => hard[i].n < hard[j].n /\ hard[i].time <= hard[j].time
  BY DEF Drawn, AsLogged
<1>5. N \in Nat /\ (N # 0 => 1 \in 1..N)
  BY DEF Drawn
<1> HIDE DEF N, by
<1>6. Out(hard, N, s) <=>
        \/ \E j \in 1..N : hard[j].time <= s /\ hard[j].state # 0 /\ \A k \in (j + 1)..N : hard[k].time > s
        \/ N >= 1 /\ hard[1].state = 0 /\ hard[1].time > s
  BY Zenon DEF Out
<1>7. ASSUME NEW j \in 1..N, hard[j].time <= s
      PROVE  Out(hard, N, s) <=> N # 0 /\ (hard[1].state = 0 \/ hard[1].time <= s) /\ state # 0
  <2>1. hard[j] \in by
    BY <1>0, <1>2, <1>7
  <2>2. PICK q \in by : q.state = state /\ \A r \in by : r.n <= q.n
    BY <2>1 DEF Shows, by
  <2>3. hard[j].time <= q.time
    BY <1>0, <1>1, <1>2, <2>1, <2>2
  <2>4. since <= q.time /\ q.time <= until
    BY <1>0, <1>1, <1>2, <2>2, <2>3
  <2>5. PICK i \in 1..N : hard[i] = q
    BY <1>0, <1>3, <2>2, <2>4
  <2>6. ASSUME NEW k \in 1..N, i < k
        PROVE  hard[k].time > s
    <3>1. hard[i].n < hard[k].n /\ hard[k] \in H /\ q.n \in Nat /\ hard[k].n \in Nat /\ hard[k].time \in Int
      BY <1>0, <1>1, <1>2, <1>4, <2>2, <2>6
    <3>2. ~(hard[k].n <= q.n)
      BY <2>5, <3>1
    <3>3. hard[k] \notin by
      BY <2>2, <3>2
    <3> QED BY <1>0, <3>1, <3>3
  <2>7. hard[1].time <= s /\ ~(hard[1].time > s) /\ N # 0
    <3>1. 1 \in 1..N /\ (1 = i \/ 1 < i) /\ N # 0
      BY <1>5
    <3>2. hard[1].time \in Int /\ hard[i].time \in Int /\ hard[i].time <= s /\ hard[1].time <= hard[i].time
      BY <1>0, <1>1, <1>2, <1>4, <2>2, <2>5, <3>1
    <3> QED BY <3>1, <3>2
  <2>8. ASSUME state # 0
        PROVE  Out(hard, N, s)
    <3>1. hard[i].time <= s /\ hard[i].state # 0
      BY <1>0, <2>2, <2>5, <2>8
    <3>2. \A k \in (i + 1)..N : k \in 1..N /\ i < k
      BY <1>5
    <3>3. \A k \in (i + 1)..N : hard[k].time > s
      BY <2>6, <3>2
    <3> QED BY <1>6, <3>1, <3>3
  <2>9. ASSUME Out(hard, N, s)
        PROVE  state # 0
    <3>1. PICK k \in 1..N : hard[k].time <= s /\ hard[k].state # 0 /\ \A l \in (k + 1)..N : hard[l].time > s
      BY <1>6, <2>7, <2>9
    <3>2. hard[k].time \in Int /\ hard[i].time \in Int /\ hard[i].time <= s
      BY <1>0, <1>1, <1>2, <2>2, <2>5
    <3>3. ~(i < k)
      BY <2>6, <3>1, <3>2
    <3>4. ~(k < i)
      <4>1. k < i => i \in (k + 1)..N
        BY <1>5
      <4> QED BY <3>1, <3>2, <4>1
    <3>5. k = i
      BY <3>3, <3>4
    <3> QED BY <2>2, <2>5, <3>1, <3>5
  <2> QED BY <2>7, <2>8, <2>9
<1>8. ASSUME \A j \in 1..N : ~(hard[j].time <= s)
      PROVE  Out(hard, N, s) <=> N # 0 /\ (hard[1].state = 0 \/ hard[1].time <= s) /\ state # 0
  <2>1. Out(hard, N, s) <=> N # 0 /\ hard[1].state = 0
    <3>1. N # 0 => hard[1].time > s /\ N >= 1
      <4> HAVE N # 0
      <4>1. hard[1].time \in Int /\ ~(hard[1].time <= s)
        BY <1>1, <1>2, <1>5, <1>8
      <4> QED BY <1>5, <4>1
    <3> QED BY <1>5, <1>6, <1>8, <3>1
  <2>2. ASSUME N # 0, hard[1].state = 0
        PROVE  state # 0
    <3> DEFINE h == hard[1]
    <3>1. h \in H /\ h.time <= until /\ ~(h.time <= s) /\ 1 \in 1..N
      BY <1>2, <1>5, <1>8, <2>2
    <3>2. PICK q \in H : q.state # 0 /\ q.n < h.n /\ \A p \in H : p.n <= q.n \/ h.n <= p.n
      BY <1>1, <2>2, <3>1 DEF Relieved
    <3>3. q.n \in Nat /\ h.n \in Nat /\ q.time \in Int /\ h.time \in Int /\ q.time <= h.time
      BY <1>1, <3>1, <3>2
    <3>4. q.time < since
      <4>1. SUFFICES ASSUME since <= q.time PROVE FALSE
        BY <3>3
      <4>2. PICK i \in 1..N : hard[i] = q
        BY <1>3, <3>1, <3>3, <4>1
      <4>3. i = 1 \/ 1 < i
        OBVIOUS
      <4>4. h.n <= q.n
        BY <1>4, <3>1, <3>3, <4>2, <4>3
      <4> QED BY <3>2, <3>3, <4>4
    <3>5. q \in by
      BY <1>0, <3>3, <3>4
    <3>6. PICK p \in by : p.state = state /\ \A r \in by : r.n <= p.n
      BY <3>5 DEF Shows, by
    <3>7. p.n \in Nat /\ p.time \in Int /\ q.n <= p.n /\ p.time <= s
      BY <1>0, <1>1, <3>5, <3>6
    <3>8. ~(h.n <= p.n)
      <4>1. SUFFICES ASSUME h.n <= p.n PROVE FALSE
        OBVIOUS
      <4>2. h.time <= p.time
        BY <1>0, <1>1, <3>1, <3>6, <4>1
      <4> QED BY <3>1, <3>3, <3>7, <4>2
    <3>9. p.n <= q.n
      BY <1>0, <3>2, <3>6, <3>8
    <3>10. p = q
      BY <1>0, <1>1, <3>3, <3>6, <3>7, <3>9 DEF Distinct
    <3> QED BY <3>2, <3>6, <3>10
  <2>3. N # 0 => ~(hard[1].time <= s)
    BY <1>5, <1>8
  <2> QED BY <2>1, <2>2, <2>3
<1> QED BY <1>7, <1>8 DEF N

\* At each second of a window the hard alerts of it say what was known, as far as
\* they tell.
LEMMA OutageIsTold ==
    ASSUME PastInv, NEW m \in Single, NEW w \in Windows, NEW s \in w[1]..w[2]
    PROVE  LET hard == HardOf(InWindow(m, w)) IN
           Out(hard, Len(hard), s) <=>
             /\ hard # <<>> /\ (Head(hard).state = 0 \/ Head(hard).time <= s)
             /\ At(s)[m].hardstate # 0
<1> DEFINE hard == HardOf(InWindow(m, w))
           H == Hard(RowsOf(m, now))
           state == At(s)[m].hardstate
           since == w[1]
           until == w[2]
<1>1. now \in Nat /\ since \in 0..now /\ until \in 0..now /\ s \in since..until /\ s \in 0..now
  BY DEF PastInv, Written, Windows
<1>2. m \in Monitored
  BY DEF Single
<1>3. /\ hard \in Seq(ToSet(log)) /\ AsLogged(hard)
      /\ ToSet(hard) = {r \in H : since <= r.time /\ r.time <= until}
  BY WindowHard
<1>4. Len(hard) \in Nat /\ ToSet(hard) = {hard[i] : i \in 1..Len(hard)}
  <2> HIDE DEF hard
  <2> QED BY <1>3, Members
<1>5. H \subseteq ToSet(log) /\ Relieved(H)
  BY <1>2 DEF Hard, Alerts, RowsOf, PastInv, Recorded
<1>6. \A i \in DOMAIN log : IsRow(log[i]) /\ log[i].n = i
  BY DEF PastInv, Written, Numbered
<1>7. (\A r \in H : IsRow(r)) /\ Distinct(H)
  BY <1>5, <1>6 DEF ToSet, Distinct
<1>8. ASSUME NEW q \in H, NEW r \in H, q.n <= r.n
      PROVE  q.time <= r.time
  <2>1. PICK i \in DOMAIN log : q = log[i]
    BY <1>5 DEF ToSet
  <2>2. PICK j \in DOMAIN log : r = log[j]
    BY <1>5 DEF ToSet
  <2>3. i \in Int /\ j \in Int /\ i <= j /\ q.time \in Int
    <3>1. DOMAIN log = 1..Len(log)
      BY Members DEF PastInv, Numbered
    <3> QED BY <1>6, <1>8, <2>1, <2>2, <3>1 DEF IsRow
  <2>4. CASE i = j
    BY <2>1, <2>2, <2>3, <2>4
  <2>5. CASE i < j
    BY <2>1, <2>2, <2>5 DEF PastInv, Written
  <2> QED BY <2>3, <2>4, <2>5
<1>9. Shows({r \in H : r.time <= s}, state, 0)
  <2>1. Shows(Hard(RowsOf(m, s)), state, 0)
    BY <1>1, <1>2 DEF PastInv, Recorded, Knows
  <2>2. \A r \in ToSet(log) : r.time <= s => r.time <= now
    <3>1. \A r \in ToSet(log) : r.time \in 0..now
      BY DEF PastInv, Written, ToSet
    <3> QED BY <1>1, <3>1
  <2>3. Hard(RowsOf(m, s)) = {r \in H : r.time <= s}
    BY <2>2 DEF Hard, Alerts, RowsOf
  <2> QED BY <2>1, <2>3
<1>10. hard # <<>> <=> Len(hard) # 0
  <2> HIDE DEF hard
  <2> QED BY <1>3, EmptySeq
<1>11. Len(hard) # 0 => Head(hard) = hard[1]
  <2> HIDE DEF hard
  <2> QED BY <1>3, <1>10
<1>12. since \in Int /\ until \in Int
  BY <1>1
<1> HIDE DEF hard, H, state, since, until
<1>13. Drawn(hard, H, since, until)
  BY <1>3, <1>4 DEF Drawn
<1>14. OnRecord(H) /\ Shows(By(H, s), state, 0)
  BY <1>5, <1>7, <1>8, <1>9 DEF OnRecord, By
<1>15. Out(hard, Len(hard), s) <=> Len(hard) # 0 /\ (hard[1].state = 0 \/ hard[1].time <= s) /\ state # 0
  BY <1>1, <1>12, <1>13, <1>14, OutIsKnown
<1> QED BY <1>10, <1>11, <1>15 DEF hard, state

\* The incidents of an object are the outages that are known.
LEMMA OutagesAreTold == PastInv => IncidentsAreOutages
<1> SUFFICES ASSUME PastInv, NEW m \in Single, NEW w \in Windows
             PROVE  LET rows == InWindow(m, w)
                        incidents == Incidents(rows, w[1])
                        hard == HardOf(rows)
                        Known(s) == hard # <<>> /\ (Head(hard).state = 0 \/ Head(hard).time <= s)
                        outage == {s \in w[1]..w[2] : Known(s) /\ At(s)[m].hardstate # 0}
                    IN  /\ outage = {s \in w[1]..w[2] : \E i \in ToSet(incidents) : Covering(i, s)}
                        /\ Figures(incidents, w[2]).downtime = Cardinality(outage \ {w[2]})
                        /\ hard # <<>> =>
                             Figures(incidents, w[2]).ongoing = (Last(hard).state # 0)
  BY DEF IncidentsAreOutages, InWindow, HardOf, Covering
<1> DEFINE rows == InWindow(m, w)
           list == Incidents(rows, w[1])
           hard == HardOf(rows)
           since == w[1]
           until == w[2]
           Known(s) == hard # <<>> /\ (Head(hard).state = 0 \/ Head(hard).time <= s)
           outage == {s \in since..until : Known(s) /\ At(s)[m].hardstate # 0}
           Covered(s) == \E i \in 1..Len(list) : Covering(list[i], s)
<1>1. since \in Nat /\ until \in Nat /\ since <= until /\ now \in Nat
  BY DEF PastInv, Written, Windows
<1>2. /\ HardAlerts(rows) = hard
      /\ hard \in Seq(ToSet(log)) /\ AsLogged(hard)
      /\ ToSet(hard) = {r \in Hard(RowsOf(m, now)) : since <= r.time /\ r.time <= until}
  BY WindowHard
<1>3. \A s \in since..until : Out(hard, Len(hard), s) <=> Known(s) /\ At(s)[m].hardstate # 0
  BY OutageIsTold
<1>4. /\ hard \in Seq(ToSet(hard)) /\ Len(hard) \in Nat
      /\ \A i \in 1..Len(hard) : hard[i] \in ToSet(hard)
      /\ hard # <<>> <=> Len(hard) # 0
  <2> HIDE DEF hard
  <2>1. /\ hard \in Seq(ToSet(hard)) /\ Len(hard) \in Nat
        /\ ToSet(hard) = {hard[i] : i \in 1..Len(hard)}
    BY <1>2, Members
  <2> QED BY <1>2, <2>1, EmptySeq
<1>5. \A r \in ToSet(hard) : r.time \in Int /\ r.time <= until /\ since <= r.time
  <2>1. \A r \in ToSet(log) : IsRow(r)
    BY DEF PastInv, Written, ToSet
  <2>2. Hard(RowsOf(m, now)) \subseteq ToSet(log)
    BY DEF Hard, Alerts, RowsOf
  <2> HIDE DEF hard
  <2> QED BY <1>2, <2>1, <2>2 DEF IsRow
<1>6. Last(hard) = hard[Len(hard)]
  BY DEF Last
<1> HIDE DEF Known, hard
<1>7. InTime(hard, since)
  BY <1>2, <1>4, <1>5 DEF InTime, AsLogged
<1>8. /\ Arranged(list, since, until)
      /\ \A s \in Int : since <= s => (Out(hard, Len(hard), s) <=> Covered(s))
      /\ (\E i \in 1..Len(list) : list[i].end = None) <=> Len(hard) >= 1 /\ hard[Len(hard)].state # 0
  <2> HIDE DEF rows, since, until
  <2>1. until \in Int
    BY <1>1
  <2> QED BY <1>1, <1>2, <1>4, <1>5, <1>7, <2>1, IncidentsFaithful DEF since
<1> HIDE DEF rows, list
<1>9. list \in Seq(Spans) /\ ToSet(list) = {list[i] : i \in 1..Len(list)}
  BY <1>8, Members DEF Arranged
<1>10. \A s : Covered(s) <=> \E i \in ToSet(list) : Covering(i, s)
  BY <1>9
<1> HIDE DEF Covered
<1>11. outage = {s \in since..until : Covered(s)}
  BY <1>1, <1>3, <1>8
<1>12. outage = {s \in since..until : \E i \in ToSet(list) : Covering(i, s)}
  BY <1>10, <1>11
<1>13. /\ Figures(list, until).downtime = Cardinality({s \in since..(until - 1) : Covered(s)})
       /\ Figures(list, until).ongoing <=> \E i \in 1..Len(list) : list[i].end = None
  <2>1. since \in Int /\ until \in Int
    BY <1>1
  <2> HIDE DEF since, until
  <2> QED BY <1>8, <2>1, FiguresSay DEF Covered
<1>14. outage \ {until} = {s \in since..(until - 1) : Covered(s)}
  BY <1>1, <1>11
<1>15. Figures(list, until).ongoing \in BOOLEAN
  BY DEF Figures
<1>16. ASSUME hard # <<>>
       PROVE  Figures(list, until).ongoing = (Last(hard).state # 0)
  <2>1. Len(hard) >= 1
    BY <1>4, <1>16
  <2> QED BY <1>6, <1>8, <1>13, <1>15, <2>1
<1> QED BY <1>12, <1>13, <1>14, <1>16 DEF hard, rows, list, since, until, Known, outage

\* The incidents of an object that are reported for a window are the seconds it was
\* in a hard problem, as far as the alerts of the window tell; none is counted twice,
\* and one is going on if the last of them was a problem (reliability.py:94-159).
THEOREM OutagesAreCounted == Spec => []IncidentsAreOutages
<1> QED BY PastInvariant, OutagesAreTold, PTL
----------------------------------------------------------------------------
(* Bursts of failures. *)

HostsOf(R) == {r.host : r \in R}
InTurn(s) == \A i, j \in 1..Len(s) : i < j => s[i].time <= s[j].time
Dated(S) == \A r \in S : r.time \in Int
\* The failures within reach of the one at a place.
Reach(rows, n, width) == {rows[i] : i \in {i \in 1..n : rows[i].time >= rows[n].time - width}}
BurstsOf(S) == [start : Int, end : Int, hosts : SUBSET HostsOf(S)]
Scans(S) == [window : Seq(S), hits : Seq(BurstsOf(S))]
NothingScanned == [window |-> <<>>, hits |-> <<>>]
\* A hit for a place names the hosts within its reach, from the oldest failure on.
Hit(h, rows, i, width) ==
    /\ h.end = rows[i].time /\ h.hosts = HostsOf(Reach(rows, i, width))
    /\ \E f \in Reach(rows, i, width) : f.time = h.start
    /\ \A f \in Reach(rows, i, width) : h.start <= f.time
Rising(hits) == \A j, k \in 1..Len(hits) : j < k =>
    hits[j].start <= hits[k].start /\ hits[j].end <= hits[k].end
\* All that is to be said of so many failures has been found.
Scanned(scan, rows, n, width, min) ==
    /\ scan \in Scans(ToSet(rows)) /\ InTurn(scan.window)
    /\ ToSet(scan.window) = IF n = 0 THEN {} ELSE Reach(rows, n, width)
    /\ \A k \in 1..Len(scan.hits) : /\ \E i \in 1..n : Hit(scan.hits[k], rows, i, width)
                                    /\ ~(Cardinality(scan.hits[k].hosts) < min)
    /\ \A i \in 1..n : ~(Cardinality(HostsOf(Reach(rows, i, width))) < min)
         => \E k \in 1..Len(scan.hits) : Hit(scan.hits[k], rows, i, width)
    /\ Rising(scan.hits)

\* A longer sequence.
LEMMA OneMore ==
    ASSUME NEW S, NEW s \in Seq(S), NEW e \in S
    PROVE  /\ Append(s, e) \in Seq(S) /\ Len(s) \in Nat /\ Len(Append(s, e)) = Len(s) + 1
           /\ \A i \in 1..Len(s) : Append(s, e)[i] = s[i] /\ s[i] \in S
           /\ Append(s, e)[Len(s) + 1] = e
           /\ ToSet(Append(s, e)) = ToSet(s) \cup {e}
           /\ DOMAIN Append(s, e) = 1..(Len(s) + 1)
<1> DEFINE t == Append(s, e)
<1>1. t \in Seq(S) /\ Len(s) \in Nat /\ Len(t) = Len(s) + 1
  BY AppendProperties, LenProperties
<1>2. /\ \A i \in 1..Len(s) : t[i] = s[i] /\ s[i] \in S
      /\ t[Len(s) + 1] = e
  BY AppendProperties, ElementOfSeq
<1> HIDE DEF t
<1>3. ToSet(t) = {t[i] : i \in 1..Len(t)} /\ ToSet(s) = {s[i] : i \in 1..Len(s)} /\ DOMAIN t = 1..Len(t)
  BY <1>1, Members
<1>4. ToSet(t) = ToSet(s) \cup {e}
  <2>1. 1..Len(t) = 1..Len(s) \cup {Len(s) + 1}
    BY <1>1
  <2> QED BY <1>2, <1>3, <2>1
<1> QED BY <1>1, <1>2, <1>3, <1>4 DEF t

\* The window after one more failure.
Kept(window, r, width) ==
    LET more == Append(window, r)
    IN  Chosen(more, {i \in DOMAIN more : more[i].time >= r.time - width})
KeptIs(kept, window, r, S, width) ==
    /\ kept \in Seq(S) /\ Len(kept) \in Nat /\ Len(kept) >= 1
    /\ ToSet(kept) = {e \in ToSet(window) \cup {r} : e.time >= r.time - width}
    /\ (InTurn(window) /\ \A e \in ToSet(window) : e.time <= r.time) => InTurn(kept)
LEMMA KeptWindow ==
    ASSUME NEW S, Dated(S), NEW width \in Nat, NEW window \in Seq(S), NEW r \in S
    PROVE  KeptIs(Kept(window, r, width), window, r, S, width)
<1> DEFINE kept == Kept(window, r, width)
           more == Append(window, r)
           places == {i \in DOMAIN more : more[i].time >= r.time - width}
<1>1. /\ more \in Seq(S) /\ Len(window) \in Nat /\ Len(more) = Len(window) + 1
      /\ \A i \in 1..Len(window) : more[i] = window[i] /\ window[i] \in S
      /\ more[Len(window) + 1] = r
      /\ ToSet(more) = ToSet(window) \cup {r}
      /\ DOMAIN more = 1..(Len(window) + 1)
  BY OneMore
<1>2. kept = Chosen(more, places)
  BY DEF Kept
<1> HIDE DEF kept, more
<1>3. ToSet(more) = {more[i] : i \in 1..Len(more)} /\ ToSet(window) = {window[i] : i \in 1..Len(window)}
  BY <1>1, Members
<1>4. places \in SUBSET DOMAIN more
  OBVIOUS
<1>5. \A i : i \in places <=> i \in 1..Len(more) /\ more[i].time >= r.time - width
  BY <1>1
<1> HIDE DEF places
<1>6. /\ kept \in Seq(S) /\ ToSet(kept) = {more[i] : i \in places}
      /\ \E f : /\ Lists(kept, f, more, places)
               /\ \A m, n \in 1..Len(kept) : m < n => f[m] < f[n]
  BY <1>1, <1>2, <1>4, ChosenProperties
<1>10. ToSet(kept) = {more[i] : i \in places}
  BY <1>6
<1>11. kept \in Seq(S)
  BY <1>6
<1>7. ToSet(kept) = {e \in ToSet(window) \cup {r} : e.time >= r.time - width}
  <2>1. ToSet(kept) = {e \in ToSet(more) : e.time >= r.time - width}
    BY <1>3, <1>5, <1>10
  <2> QED BY <1>1, <2>1
<1>8. Len(kept) \in Nat /\ Len(kept) >= 1
  <2>4. Len(kept) \in Nat
    BY <1>11, LenProperties
  <2>1. ToSet(kept) = {kept[i] : i \in 1..Len(kept)}
    BY <1>11, Members
  <2>2. r.time \in Int /\ r.time >= r.time - width
    BY DEF Dated
  <2>3. r \in ToSet(kept)
    BY <1>7, <2>2
  <2> QED BY <2>1, <2>3, <2>4
<1>9. ASSUME InTurn(window), \A e \in ToSet(window) : e.time <= r.time
      PROVE  InTurn(kept)
  <2>1. PICK f : /\ Lists(kept, f, more, places)
                 /\ \A m, n \in 1..Len(kept) : m < n => f[m] < f[n]
    BY <1>6
  <2>2. \A i, j \in 1..Len(more) : i < j => more[i].time <= more[j].time
    <3> TAKE i \in 1..Len(more), j \in 1..Len(more)
    <3> HAVE i < j
    <3>1. i \in 1..Len(window) /\ (j \in 1..Len(window) \/ j = Len(window) + 1)
      BY <1>1
    <3>2. more[i] = window[i] /\ window[i] \in ToSet(window)
      BY <1>1, <1>3, <3>1
    <3>3. j \in 1..Len(window) => more[j] = window[j]
      BY <1>1
    <3>4. j \in 1..Len(window) => window[i].time <= window[j].time
      BY <1>9, <3>1 DEF InTurn
    <3> QED BY <1>1, <1>9, <3>1, <3>2, <3>3, <3>4
  <2>3. \A n \in 1..Len(kept) : f[n] \in 1..Len(more) /\ kept[n] = more[f[n]]
    BY <1>5, <2>1 DEF Lists
  <2> QED BY <2>1, <2>2, <2>3 DEF InTurn
<1>12. KeptIs(kept, window, r, S, width)
  BY <1>7, <1>8, <1>9, <1>11 DEF KeptIs
<1> QED BY <1>12 DEF kept

\* What one failure adds to the scan.
SlidTo(next, scan, r, S, kept, hit, min) ==
    /\ next \in Scans(S) /\ next.window = kept /\ hit \in BurstsOf(S)
    /\ hit = Burst(kept[1].time, r.time, HostsOf(ToSet(kept)))
    /\ Cardinality(HostsOf(ToSet(kept))) < min => next.hits = scan.hits
    /\ ~(Cardinality(HostsOf(ToSet(kept))) < min) => next.hits = Append(scan.hits, hit)
LEMMA SlidScan ==
    ASSUME NEW S, Dated(S), NEW width \in Nat, NEW min \in Int, NEW scan \in Scans(S), NEW r \in S
    PROVE  \E hit : SlidTo(Slid(scan, r, width, min), scan, r, S, Kept(scan.window, r, width), hit, min)
<1> DEFINE next == Slid(scan, r, width, min)
           kept == Kept(scan.window, r, width)
           hosts == HostsOf(ToSet(kept))
           hit == Burst(kept[1].time, r.time, hosts)
           few == Cardinality(hosts) < min
<1>1. scan.window \in Seq(S) /\ scan.hits \in Seq(BurstsOf(S))
  BY DEF Scans
<1>11. scan.window \in Seq(S)
  BY <1>1
<1>2. next = [window |-> kept, hits |-> IF few THEN scan.hits ELSE Append(scan.hits, hit)]
  BY DEF Slid, Kept, HostsOf
<1>3. kept \in Seq(S) /\ Len(kept) \in Nat /\ Len(kept) >= 1
  BY <1>11, KeptWindow DEF KeptIs
<1> HIDE DEF kept, next
<1>4. kept[1] \in S /\ ToSet(kept) \subseteq S
  BY <1>3, Members, ElementOfSeq
<1>5. hit \in BurstsOf(S)
  BY <1>4 DEF Burst, BurstsOf, HostsOf, Dated
<1> HIDE DEF hit, hosts, few
<1>6. next.window = kept /\ (few => next.hits = scan.hits) /\ (~few => next.hits = Append(scan.hits, hit))
  BY <1>2
<1>7. next.hits \in Seq(BurstsOf(S))
  <2>1. Append(scan.hits, hit) \in Seq(BurstsOf(S))
    BY <1>1, <1>5, AppendProperties
  <2> QED BY <1>1, <1>6, <2>1
<1>8. next \in Scans(S)
  BY <1>2, <1>3, <1>6, <1>7 DEF Scans
<1>9. SlidTo(next, scan, r, S, kept, hit, min)
  BY <1>5, <1>6, <1>8 DEF SlidTo, hit, hosts, few
<1> QED BY <1>9 DEF next, kept

\* The scan is a walk over the failures.
ScanSteps(scan, rows, width, min) ==
    /\ scan[0] = NothingScanned
    /\ \A n \in 1..Len(rows) : scan[n] = Slid(scan[n - 1], rows[n], width, min)
    /\ Hits(rows, width, min) = scan[Len(rows)].hits
LEMMA ScanWalks ==
    ASSUME NEW S, Dated(S), NEW width \in Nat, NEW min \in Int, NEW rows \in Seq(S)
    PROVE  \E scan : ScanSteps(scan, rows, width, min)
<1> DEFINE N == Len(rows)
           V == Scans(S)
           step == [n \in 1..N |-> [v \in V |-> Slid(v, rows[n], width, min)]]
<1>1. N \in Nat /\ \A n \in 1..N : rows[n] \in S
  BY LenProperties, ElementOfSeq
<1>2. \A n \in 1..N, v \in V : Slid(v, rows[n], width, min) \in V
  BY <1>1, SlidScan DEF SlidTo
<1>3. step \in [1..N -> [V -> V]]
  BY <1>2
<1>4. \A n \in 1..N, v \in V : step[n][v] = Slid(v, rows[n], width, min)
  OBVIOUS
<1> HIDE DEF step
<1>5. NothingScanned \in V
  BY EmptySeq DEF NothingScanned, Scans
<1>6. PICK g : Walk(g, V, N, NothingScanned, step)
  <2> HIDE DEF V
  <2> QED BY <1>1, <1>3, <1>5, WalkExists
<1>7. /\ g \in [0..N -> V] /\ g[0] = NothingScanned
      /\ \A n \in 1..N : g[n] = step[n][g[n - 1]]
  BY <1>6 DEF Walk
<1> HIDE DEF V
<1> DEFINE Recursion(h) == h = [n \in 0..N |->
             IF n = 0 THEN NothingScanned ELSE Slid(h[n - 1], rows[n], width, min)]
<1>8. Recursion(g)
  <2>1. ASSUME NEW n \in 0..N
        PROVE  g[n] = IF n = 0 THEN NothingScanned ELSE Slid(g[n - 1], rows[n], width, min)
    <3>1. n # 0 => n \in 1..N /\ n - 1 \in 0..N
      BY <1>1
    <3> QED BY <1>4, <1>7, <3>1
  <2> QED BY <1>7, <2>1
<1> DEFINE scan == CHOOSE h : Recursion(h)
<1>9. Recursion(scan)
  <2> HIDE DEF Recursion
  <2> QED BY <1>8
<1>10. Hits(rows, width, min) = scan[N].hits
  BY DEF Hits, NothingScanned
<1> HIDE DEF scan
<1>11. \A n \in 0..N : scan[n] = IF n = 0 THEN NothingScanned ELSE Slid(scan[n - 1], rows[n], width, min)
  BY <1>9
<1>12. scan[0] = NothingScanned /\ \A n \in 1..N : scan[n] = Slid(scan[n - 1], rows[n], width, min)
  BY <1>1, <1>11
<1> QED BY <1>10, <1>12 DEF ScanSteps

\* A place and what is within its reach.
Failing(rows, S) == rows \in Seq(S) /\ Dated(S) /\ InTurn(rows)
LEMMA ReachIs ==
    ASSUME NEW S, NEW rows, Failing(rows, S), NEW n \in 1..Len(rows), NEW width \in Nat
    PROVE  /\ Reach(rows, n, width) \subseteq S /\ rows[n] \in Reach(rows, n, width)
           /\ rows[n].time \in Int
           /\ \A f \in Reach(rows, n, width) : /\ f.time \in Int /\ f.time <= rows[n].time
                                               /\ f.time >= rows[n].time - width
<1>1. Len(rows) \in Nat /\ \A i \in 1..Len(rows) : rows[i] \in S /\ rows[i].time \in Int
  BY LenProperties, ElementOfSeq DEF Failing, Dated
<1>2. \A i \in 1..n : i \in 1..Len(rows) /\ rows[i].time <= rows[n].time
  <2> TAKE i \in 1..n
  <2>1. i \in 1..Len(rows) /\ (i < n \/ i = n)
    BY <1>1
  <2> QED BY <1>1, <2>1 DEF Failing, InTurn
<1>3. n \in 1..n /\ rows[n].time >= rows[n].time - width
  BY <1>1
<1> QED BY <1>1, <1>2, <1>3 DEF Reach

LEMMA ReachNext ==
    ASSUME NEW S, NEW rows, Failing(rows, S), NEW n \in 0..(Len(rows) - 1), NEW width \in Nat
    PROVE  LET r == rows[n + 1]
               before == IF n = 0 THEN {} ELSE Reach(rows, n, width)
           IN  Reach(rows, n + 1, width) = {e \in before \cup {r} : e.time >= r.time - width}
<1> DEFINE r == rows[n + 1]
           before == IF n = 0 THEN {} ELSE Reach(rows, n, width)
<1>1. Len(rows) \in Nat /\ \A i \in 1..Len(rows) : rows[i] \in S /\ rows[i].time \in Int
  BY LenProperties, ElementOfSeq DEF Failing, Dated
<1>2. \A i \in 1..(n + 1) : i \in 1..Len(rows) /\ (i = n + 1 \/ (i \in 1..n /\ n # 0))
  BY <1>1
<1>3. n + 1 \in 1..Len(rows) /\ \A i \in 1..n : i \in 1..(n + 1)
  BY <1>1
<1>4. n # 0 => n \in 1..Len(rows) /\ rows[n].time <= r.time
  BY <1>1 DEF Failing, InTurn
<1>5. ASSUME NEW i \in 1..(n + 1), rows[i].time >= r.time - width
      PROVE  rows[i] \in before \cup {r}
  <2>1. CASE i = n + 1
    BY <2>1
  <2>2. CASE i # n + 1
    <3>1. i \in 1..n /\ n # 0 /\ i \in 1..Len(rows)
      BY <1>2, <2>2
    <3>2. rows[i].time >= rows[n].time - width
      <4>1. rows[i].time \in Int /\ rows[n].time \in Int /\ r.time \in Int /\ rows[n].time <= r.time
        BY <1>1, <1>3, <1>4, <3>1
      <4> QED BY <1>5, <4>1
    <3> QED BY <3>1, <3>2 DEF Reach
  <2> QED BY <2>1, <2>2
<1>6. \A e \in before \cup {r} : \E i \in 1..(n + 1) : e = rows[i]
  BY <1>3 DEF Reach
<1>7. \A e : e \in Reach(rows, n + 1, width) <=>
        \E i \in 1..(n + 1) : e = rows[i] /\ rows[i].time >= r.time - width
  BY DEF Reach
<1> HIDE DEF r, before
<1>8. Reach(rows, n + 1, width) = {e \in before \cup {r} : e.time >= r.time - width}
  <2>1. ASSUME NEW e \in Reach(rows, n + 1, width)
        PROVE  e \in before \cup {r} /\ e.time >= r.time - width
    <3>1. PICK i \in 1..(n + 1) : e = rows[i] /\ rows[i].time >= r.time - width
      BY <1>7, <2>1
    <3> QED BY <1>5, <3>1
  <2>2. ASSUME NEW e \in before \cup {r}, e.time >= r.time - width
        PROVE  e \in Reach(rows, n + 1, width)
    <3>1. PICK i \in 1..(n + 1) : e = rows[i]
      BY <1>6, <2>2
    <3> QED BY <1>7, <2>2, <3>1
  <2> QED BY <2>1, <2>2
<1> QED BY <1>8 DEF r, before

\* Later hits begin and end later.
LEMMA LaterHit ==
    ASSUME NEW S, NEW rows, Failing(rows, S), NEW width \in Nat,
           NEW n \in 1..Len(rows), NEW i \in 1..n,
           NEW g, Hit(g, rows, i, width), NEW h, Hit(h, rows, n, width)
    PROVE  g.start <= h.start /\ g.end <= h.end
<1>1. Len(rows) \in Nat /\ \A j \in 1..Len(rows) : rows[j] \in S /\ rows[j].time \in Int
  BY LenProperties, ElementOfSeq DEF Failing, Dated
<1>2. i \in 1..Len(rows) /\ rows[i].time <= rows[n].time
  <2>1. i \in 1..Len(rows) /\ (i < n \/ i = n)
    BY <1>1
  <2> QED BY <1>1, <2>1 DEF Failing, InTurn
<1>3. g.end <= h.end
  BY <1>2 DEF Hit
<1>4. PICK j \in 1..n : rows[j].time = h.start /\ rows[j].time >= rows[n].time - width
  BY DEF Hit, Reach
<1>5. j \in 1..Len(rows) /\ rows[j].time \in Int /\ rows[i].time \in Int /\ rows[n].time \in Int
  BY <1>1, <1>2
<1>6. PICK f \in Reach(rows, i, width) : f.time = g.start
  BY DEF Hit
<1>7. \A e \in Reach(rows, i, width) : e.time \in Int /\ e.time <= rows[i].time /\ g.start <= e.time
  BY <1>2, ReachIs DEF Hit
<1>8. CASE j <= i
  <2>1. rows[j].time >= rows[i].time - width /\ j \in 1..i
    BY <1>2, <1>4, <1>5, <1>8
  <2>2. rows[j] \in Reach(rows, i, width)
    BY <2>1 DEF Reach
  <2> QED BY <1>3, <1>4, <1>7, <2>2
<1>9. CASE ~(j <= i)
  <2>1. rows[i].time <= rows[j].time
    BY <1>2, <1>5, <1>9 DEF Failing, InTurn
  <2>2. g.start \in Int /\ g.start <= rows[i].time
    BY <1>6, <1>7
  <2> QED BY <1>3, <1>4, <1>5, <2>1, <2>2
<1> QED BY <1>8, <1>9

\* One failure more.
LEMMA ScannedNext ==
    ASSUME NEW S, NEW rows, Failing(rows, S), S = ToSet(rows), NEW width \in Nat, NEW min \in Int,
           NEW n \in 0..(Len(rows) - 1), NEW scan, Scanned(scan, rows, n, width, min),
           NEW next, next = Slid(scan, rows[n + 1], width, min)
    PROVE  Scanned(next, rows, n + 1, width, min)
<1> DEFINE r == rows[n + 1]
           kept == Kept(scan.window, r, width)
           hosts == HostsOf(ToSet(kept))
           few == Cardinality(hosts) < min
           K == Len(scan.hits)
<1>1. Len(rows) \in Nat /\ n + 1 \in 1..Len(rows) /\ r \in S /\ n \in Nat
  <2>1. Len(rows) \in Nat /\ \A i \in 1..Len(rows) : rows[i] \in S
    BY LenProperties, ElementOfSeq DEF Failing
  <2>2. n + 1 \in 1..Len(rows) /\ n \in Nat
    BY <2>1
  <2> QED BY <2>1, <2>2
<1>2. /\ scan \in Scans(S) /\ InTurn(scan.window)
      /\ ToSet(scan.window) = IF n = 0 THEN {} ELSE Reach(rows, n, width)
      /\ Rising(scan.hits)
  BY DEF Scanned
<1>3. Dated(S) /\ scan.window \in Seq(S) /\ scan.hits \in Seq(BurstsOf(S))
  BY <1>2 DEF Failing, Scans
<1>0. next = Slid(scan, r, width, min)
  OBVIOUS
<1> HIDE DEF r
<1>19. PICK hit : SlidTo(next, scan, r, S, kept, hit, min)
  <2>1. Dated(S) /\ scan \in Scans(S) /\ r \in S
    BY <1>1, <1>2, <1>3
  <2> QED BY <1>0, <2>1, SlidScan
<1>4. /\ next \in Scans(S) /\ next.window = kept /\ hit \in BurstsOf(S)
      /\ hit = Burst(kept[1].time, r.time, hosts)
      /\ few => next.hits = scan.hits
      /\ ~few => next.hits = Append(scan.hits, hit)
  BY <1>19 DEF SlidTo
<1>5. \A e \in ToSet(scan.window) : e.time <= r.time
  <2>1. n # 0 => n \in 1..Len(rows) /\ rows[n].time <= r.time /\ rows[n].time \in Int /\ r.time \in Int
    <3>1. n # 0 => n \in 1..Len(rows) /\ n < n + 1
      BY <1>1
    <3>2. n # 0 => rows[n] \in S
      BY <1>1, <3>1, ElementOfSeq DEF Failing
    <3> QED BY <1>1, <1>3, <3>1, <3>2 DEF Failing, InTurn, Dated, r
  <2>2. n # 0 => \A e \in Reach(rows, n, width) : e.time \in Int /\ e.time <= rows[n].time
    BY <2>1, ReachIs
  <2> QED BY <1>2, <2>1, <2>2
<1>18. KeptIs(kept, scan.window, r, S, width)
  <2>1. Dated(S) /\ scan.window \in Seq(S) /\ r \in S
    BY <1>1, <1>3
  <2> QED BY <2>1, KeptWindow
<1> HIDE DEF kept
<1>6. /\ kept \in Seq(S) /\ Len(kept) \in Nat /\ Len(kept) >= 1
      /\ ToSet(kept) = {e \in ToSet(scan.window) \cup {r} : e.time >= r.time - width}
      /\ InTurn(kept)
  BY <1>2, <1>5, <1>18 DEF KeptIs
<1>7. ToSet(kept) = Reach(rows, n + 1, width)
  BY <1>2, <1>6, ReachNext DEF r
<1>8. Hit(hit, rows, n + 1, width)
  <2> HIDE DEF kept
  <2>1. ToSet(kept) = {kept[i] : i \in 1..Len(kept)}
    BY <1>6, Members
  <2>2. \A i \in 1..Len(kept) : kept[1].time <= kept[i].time
    <3> TAKE i \in 1..Len(kept)
    <3>1. kept[i].time \in Int /\ (1 < i \/ i = 1) /\ 1 \in 1..Len(kept)
      BY <1>3, <1>6, ElementOfSeq DEF Dated
    <3> QED BY <1>6, <3>1 DEF InTurn
  <2>3. kept[1] \in ToSet(kept)
    BY <1>6, <2>1
  <2>4. hit.start = kept[1].time /\ hit.end = r.time /\ hit.hosts = hosts
    BY <1>4 DEF Burst
  <2>5. \A f \in Reach(rows, n + 1, width) : hit.start <= f.time
    BY <1>7, <2>1, <2>2, <2>4
  <2>6. \E f \in Reach(rows, n + 1, width) : f.time = hit.start
    BY <1>7, <2>3, <2>4
  <2> QED BY <1>7, <2>4, <2>5, <2>6 DEF Hit, r
<1>9. few <=> Cardinality(HostsOf(Reach(rows, n + 1, width))) < min
  BY <1>7
<1>10. hit.hosts = hosts
  BY <1>4 DEF Burst
<1>11. /\ \A k \in 1..K : \E i \in 1..n : Hit(scan.hits[k], rows, i, width)
       /\ \A k \in 1..K : ~(Cardinality(scan.hits[k].hosts) < min)
       /\ \A i \in 1..n : ~(Cardinality(HostsOf(Reach(rows, i, width))) < min)
            => \E k \in 1..K : Hit(scan.hits[k], rows, i, width)
  BY DEF Scanned
<1>12. \A i \in 1..(n + 1) : i \in 1..n \/ i = n + 1
  BY <1>1
<1>13. n + 1 \in 1..(n + 1) /\ \A i \in 1..n : i \in 1..(n + 1)
  BY <1>1
<1>17. ~few <=> ~(Cardinality(hosts) < min)
  OBVIOUS
<1> HIDE DEF hosts, few
<1>14. InTurn(next.window) /\ n + 1 # 0 /\ ToSet(next.window) = Reach(rows, n + 1, width)
  BY <1>1, <1>4, <1>6, <1>7
<1>15. CASE few
  <2>1. \A k \in 1..K : \E i \in 1..(n + 1) : Hit(scan.hits[k], rows, i, width)
    BY <1>11, <1>13
  <2>2. \A i \in 1..(n + 1) : ~(Cardinality(HostsOf(Reach(rows, i, width))) < min)
          => \E k \in 1..K : Hit(scan.hits[k], rows, i, width)
    BY <1>9, <1>11, <1>12, <1>15
  <2>3. next.hits = scan.hits
    BY <1>4, <1>15
  <2> QED BY <1>2, <1>4, <1>11, <1>14, <2>1, <2>2, <2>3 DEF Scanned
<1>16. CASE ~few
  <2> DEFINE more == next.hits
  <2>1. /\ Len(more) = K + 1 /\ more[K + 1] = hit /\ K \in Nat
        /\ \A k \in 1..K : more[k] = scan.hits[k]
    <3>1. more = Append(scan.hits, hit)
      BY <1>4, <1>16
    <3> QED BY <1>3, <1>4, <3>1, OneMore
  <2> HIDE DEF more
  <2>2. \A k \in 1..Len(more) : k \in 1..K \/ k = K + 1
    BY <2>1
  <2>3. K + 1 \in 1..Len(more) /\ \A k \in 1..K : k \in 1..Len(more)
    BY <2>1
  <2>4. \A k \in 1..Len(more) : \E i \in 1..(n + 1) : Hit(more[k], rows, i, width)
    BY <1>8, <1>11, <1>13, <2>1, <2>2
  <2>5. \A k \in 1..Len(more) : ~(Cardinality(more[k].hosts) < min)
    BY <1>10, <1>11, <1>16, <1>17, <2>1, <2>2
  <2>6. \A i \in 1..(n + 1) : ~(Cardinality(HostsOf(Reach(rows, i, width))) < min)
          => \E k \in 1..Len(more) : Hit(more[k], rows, i, width)
    <3> TAKE i \in 1..(n + 1)
    <3>1. CASE i = n + 1
      <4>1. Hit(more[K + 1], rows, i, width)
        BY <1>8, <2>1, <3>1
      <4> QED BY <2>3, <4>1
    <3>2. CASE i \in 1..n
      <4> HAVE ~(Cardinality(HostsOf(Reach(rows, i, width))) < min)
      <4>1. PICK k \in 1..K : Hit(scan.hits[k], rows, i, width)
        BY <1>11, <3>2
      <4>2. Hit(more[k], rows, i, width) /\ k \in 1..Len(more)
        BY <2>1, <2>3, <4>1
      <4> QED BY <4>2
    <3> QED BY <1>12, <3>1, <3>2
  <2>7. Rising(more)
    <3>1. ASSUME NEW j \in 1..Len(more), NEW k \in 1..Len(more), j < k
          PROVE  more[j].start <= more[k].start /\ more[j].end <= more[k].end
      <4>1. j \in 1..K
        BY <2>1, <3>1
      <4>2. CASE k \in 1..K
        BY <1>2, <2>1, <3>1, <4>1, <4>2 DEF Rising
      <4>3. CASE k = K + 1
        <5>1. PICK i \in 1..n : Hit(scan.hits[j], rows, i, width)
          BY <1>11, <4>1
        <5>2. i \in 1..(n + 1)
          BY <1>13
        <5>3. scan.hits[j].start <= hit.start /\ scan.hits[j].end <= hit.end
          BY <1>1, <1>8, <5>1, <5>2, LaterHit
        <5> QED BY <2>1, <4>1, <4>3, <5>3
      <4> QED BY <2>2, <4>2, <4>3
    <3> QED BY <3>1 DEF Rising
  <2> QED BY <1>4, <1>14, <2>4, <2>5, <2>6, <2>7 DEF Scanned, more
<1> QED BY <1>15, <1>16

\* What the hits are.
LEMMA HitsSay ==
    ASSUME NEW S, NEW rows, Failing(rows, S), NEW width \in Nat, NEW min \in Int
    PROVE  \E scan : /\ Scanned(scan, rows, Len(rows), width, min)
                     /\ scan.hits = Hits(rows, width, min)
<1> DEFINE N == Len(rows)
           R == ToSet(rows)
<1>1. N \in Nat /\ rows \in Seq(S) /\ R \subseteq S /\ rows \in Seq(R)
  BY Members DEF Failing
<1>2. Failing(rows, R)
  BY <1>1 DEF Failing, Dated
<1>3. PICK scan : ScanSteps(scan, rows, width, min)
  BY <1>2, ScanWalks DEF Failing
<1> DEFINE T == {n \in 0..N : Scanned(scan[n], rows, n, width, min)}
<1>4. 0 \in T
  <2> DEFINE none == scan[0]
  <2>1. none = NothingScanned /\ none.window = <<>> /\ none.hits = <<>>
    BY <1>3 DEF ScanSteps, NothingScanned
  <2>2. none \in Scans(R)
    BY <2>1, EmptySeq DEF NothingScanned, Scans
  <2>3. Len(none.window) = 0 /\ Len(none.hits) = 0 /\ ToSet(none.window) = {}
    <3>1. ToSet(<<>>) = {}
      BY DEF ToSet
    <3> QED BY <2>1, <3>1
  <2> HIDE DEF none
  <2>4. InTurn(none.window) /\ Rising(none.hits)
    BY <2>3 DEF InTurn, Rising
  <2>5. Scanned(none, rows, 0, width, min)
    BY <2>2, <2>3, <2>4 DEF Scanned
  <2> QED BY <1>1, <2>5 DEF none
<1>5. ASSUME NEW n \in 0..(N - 1), n \in T
      PROVE  n + 1 \in T
  <2>1. n + 1 \in 1..N /\ n + 1 \in 0..N /\ (n + 1) - 1 = n
    BY <1>1
  <2>2. scan[n + 1] = Slid(scan[n], rows[n + 1], width, min)
    BY <1>3, <2>1 DEF ScanSteps
  <2>3. Scanned(scan[n], rows, n, width, min)
    BY <1>5
  <2>4. Scanned(scan[n + 1], rows, n + 1, width, min)
    BY <1>2, <2>2, <2>3, ScannedNext
  <2> QED BY <2>1, <2>4
<1>6. N \in T
  <2> HIDE DEF T
  <2>1. 0..N \subseteq T
    BY <1>1, <1>4, <1>5, UpTo
  <2> QED BY <1>1, <2>1
<1> QED BY <1>3, <1>6 DEF ScanSteps

\* Bursts after so many hits: each hit is in one of them, each host in one that it
\* brought, and they do not overlap.
InBurst(h, b) == b.start <= h.start /\ h.end <= b.end
Joined(bursts, hits, n, S) ==
    /\ bursts \in Seq(BurstsOf(S))
    /\ n = 0 => Len(bursts) = 0
    /\ n # 0 => Len(bursts) # 0 /\ bursts[Len(bursts)].start <= hits[n].start
    /\ \A k \in 1..n : \E i \in 1..Len(bursts) :
         InBurst(hits[k], bursts[i]) /\ hits[k].hosts \subseteq bursts[i].hosts
    /\ \A i \in 1..Len(bursts) : \A h \in bursts[i].hosts : \E k \in 1..n :
         InBurst(hits[k], bursts[i]) /\ h \in hits[k].hosts
    /\ \A i \in 2..Len(bursts) : bursts[i - 1].end < bursts[i].start

\* What a hit changes: it is one more burst, or it extends the last one.
Extends(more, bursts, hit) ==
    /\ Len(more) = Len(bursts) /\ \A i \in 1..(Len(bursts) - 1) : more[i] = bursts[i]
    /\ LET last == bursts[Len(bursts)]
           new == more[Len(bursts)]
       IN  /\ hit.start <= last.end /\ new.start = last.start /\ last.end <= new.end /\ hit.end <= new.end
           /\ new.end \in Int /\ new.hosts = last.hosts \cup hit.hosts
OneBurstMore(more, bursts, hit) ==
    /\ Len(more) = Len(bursts) + 1 /\ \A i \in 1..Len(bursts) : more[i] = bursts[i]
    /\ more[Len(bursts) + 1] = hit
    /\ Len(bursts) # 0 => bursts[Len(bursts)].end < hit.start
LEMMA MergedIsOne ==
    ASSUME NEW S, NEW bursts \in Seq(BurstsOf(S)), NEW hit \in BurstsOf(S)
    PROVE  /\ Merged(bursts, hit) \in Seq(BurstsOf(S))
           /\ \/ Len(bursts) # 0 /\ Extends(Merged(bursts, hit), bursts, hit)
              \/ OneBurstMore(Merged(bursts, hit), bursts, hit)
<1> DEFINE more == Merged(bursts, hit)
           L == Len(bursts)
           last == bursts[L]
           extended == bursts # <<>> /\ hit.start <= Last(bursts).end
<1>1. L \in Nat /\ (bursts # <<>> <=> L # 0) /\ Last(bursts) = last
      /\ \A i \in 1..L : bursts[i] \in BurstsOf(S)
  BY LenProperties, EmptySeq, ElementOfSeq DEF Last
<1>2. /\ hit.start \in Int /\ hit.end \in Int /\ hit.hosts \subseteq HostsOf(S)
      /\ L # 0 => last.start \in Int /\ last.end \in Int /\ last.hosts \subseteq HostsOf(S)
  <2>1. \A b \in BurstsOf(S) : b.start \in Int /\ b.end \in Int /\ b.hosts \subseteq HostsOf(S)
    BY DEF BurstsOf
  <2>2. L # 0 => L \in 1..L
    BY <1>1
  <2> QED BY <1>1, <2>1, <2>2
<1>3. CASE extended
  <2> DEFINE end == Max({last.end, hit.end})
             new == Burst(last.start, end, last.hosts \cup hit.hosts)
             front == Front(bursts)
  <2>1. L # 0 /\ hit.start <= last.end /\ more = Append(front, new)
    BY <1>1, <1>3 DEF Merged
  <2>2. end \in Int /\ last.end <= end /\ hit.end <= end
    <3>1. last.end \in Int /\ hit.end \in Int
      BY <1>2, <2>1
    <3>2. \A a, b \in Int : Max({a, b}) \in Int /\ a <= Max({a, b}) /\ b <= Max({a, b})
      <4> TAKE a \in Int, b \in Int
      <4>1. \E x \in {a, b} : \A y \in {a, b} : x >= y
        OBVIOUS
      <4>2. Max({a, b}) \in {a, b} /\ \A y \in {a, b} : Max({a, b}) >= y
        BY <4>1 DEF Max
      <4> QED BY <4>2
    <3> QED BY <3>1, <3>2
  <2> HIDE DEF end
  <2>3. new \in BurstsOf(S) /\ new.start = last.start /\ new.end = end /\ new.hosts = last.hosts \cup hit.hosts
    BY <1>2, <2>1, <2>2 DEF Burst, BurstsOf
  <2> HIDE DEF new
  <2>4. /\ front \in Seq(BurstsOf(S)) /\ Len(front) = L - 1
        /\ \A i \in 1..(L - 1) : front[i] = bursts[i]
    <3>1. L >= 1
      BY <1>1, <2>1
    <3>2. front = SubSeq(bursts, 1, L - 1)
      BY DEF Front
    <3>3. 1 \in Int /\ L - 1 \in Int /\ (\A i \in 1..(L - 1) : bursts[i] \in BurstsOf(S))
      BY <1>1
    <3>4. /\ SubSeq(bursts, 1, L - 1) \in Seq(BurstsOf(S))
          /\ Len(SubSeq(bursts, 1, L - 1)) = IF 1 <= L - 1 THEN (L - 1) - 1 + 1 ELSE 0
          /\ \A i \in 1..((L - 1) - 1 + 1) : SubSeq(bursts, 1, L - 1)[i] = bursts[1 + i - 1]
      BY <3>3, SubSeqProperties
    <3> HIDE DEF front
    <3> DEFINE K == L - 1
    <3>5. K \in Nat /\ K - 1 + 1 = K /\ \A i \in 1..K : 1 + i - 1 = i
      BY <1>1, <3>1
    <3>6. /\ front \in Seq(BurstsOf(S)) /\ Len(front) = (IF 1 <= K THEN K - 1 + 1 ELSE 0)
          /\ \A i \in 1..(K - 1 + 1) : front[i] = bursts[1 + i - 1]
      BY <3>2, <3>4
    <3>7. K = L - 1
      OBVIOUS
    <3> HIDE DEF K
    <3>8. front \in Seq(BurstsOf(S)) /\ Len(front) = K /\ \A i \in 1..K : front[i] = bursts[i]
      BY <3>5, <3>6
    <3> QED BY <3>7, <3>8
  <2> HIDE DEF front
  <2>5. /\ more \in Seq(BurstsOf(S)) /\ Len(more) = L /\ more[L] = new
        /\ \A i \in 1..(L - 1) : more[i] = bursts[i]
    <3>1. /\ Append(front, new) \in Seq(BurstsOf(S)) /\ Len(Append(front, new)) = Len(front) + 1
          /\ \A i \in 1..Len(front) : Append(front, new)[i] = front[i]
          /\ Append(front, new)[Len(front) + 1] = new
      BY <2>3, <2>4, OneMore
    <3>2. Len(front) + 1 = L
      BY <1>1, <2>4
    <3> QED BY <2>1, <2>4, <3>1, <3>2
  <2> HIDE DEF more
  <2>6. Extends(more, bursts, hit)
    BY <2>1, <2>2, <2>3, <2>5 DEF Extends
  <2> QED BY <2>1, <2>5, <2>6 DEF more
<1>4. CASE ~extended
  <2>1. more = Append(bursts, hit)
    BY <1>4 DEF Merged
  <2>2. /\ more \in Seq(BurstsOf(S)) /\ Len(more) = L + 1 /\ more[L + 1] = hit
        /\ \A i \in 1..L : more[i] = bursts[i]
    BY <2>1, OneMore
  <2>3. L # 0 => last.end < hit.start
    BY <1>1, <1>2, <1>4
  <2> HIDE DEF more
  <2>4. OneBurstMore(more, bursts, hit)
    BY <2>2, <2>3 DEF OneBurstMore
  <2> QED BY <2>2, <2>4 DEF more
<1> QED BY <1>3, <1>4

LEMMA JoinedNext ==
    ASSUME NEW S, NEW hits \in Seq(BurstsOf(S)), Rising(hits), NEW n \in 0..(Len(hits) - 1),
           NEW bursts, Joined(bursts, hits, n, S)
    PROVE  Joined(Merged(bursts, hits[n + 1]), hits, n + 1, S)
<1> DEFINE hit == hits[n + 1]
           more == Merged(bursts, hit)
           L == Len(bursts)
<1>1. /\ Len(hits) \in Nat /\ n \in Nat /\ n + 1 \in 1..Len(hits)
      /\ \A k \in 1..Len(hits) : hits[k] \in BurstsOf(S)
  <2>1. Len(hits) \in Nat /\ \A k \in 1..Len(hits) : hits[k] \in BurstsOf(S)
    BY LenProperties, ElementOfSeq
  <2> QED BY <2>1
<1>2. /\ bursts \in Seq(BurstsOf(S)) /\ (n = 0 => L = 0)
      /\ n # 0 => L # 0 /\ bursts[L].start <= hits[n].start
  BY DEF Joined
<1>3. \A k \in 1..n : \E i \in 1..L : InBurst(hits[k], bursts[i]) /\ hits[k].hosts \subseteq bursts[i].hosts
  BY DEF Joined
<1>4. \A i \in 1..L : \A h \in bursts[i].hosts : \E k \in 1..n : InBurst(hits[k], bursts[i]) /\ h \in hits[k].hosts
  BY DEF Joined
<1>5. \A i \in 2..L : bursts[i - 1].end < bursts[i].start
  BY DEF Joined
<1>6. L \in Nat /\ \A i \in 1..L : bursts[i] \in BurstsOf(S)
  BY <1>2, LenProperties, ElementOfSeq
<1>7. \A b \in BurstsOf(S) : b.start \in Int /\ b.end \in Int
  BY DEF BurstsOf
<1>8. hit \in BurstsOf(S)
  BY <1>1
<1>9. /\ more \in Seq(BurstsOf(S))
      /\ (L # 0 /\ Extends(more, bursts, hit)) \/ OneBurstMore(more, bursts, hit)
  BY <1>2, <1>8, MergedIsOne
<1>10. InBurst(hit, hit)
  BY <1>7, <1>8 DEF InBurst
<1>11. n + 1 \in 1..(n + 1) /\ (\A k \in 1..n : k \in 1..(n + 1)) /\ n + 1 # 0
       /\ \A k \in 1..(n + 1) : k \in 1..n \/ k = n + 1
  BY <1>1
<1>12. hits[n + 1] = hit
  OBVIOUS
<1>13. n # 0 => n \in 1..Len(hits) /\ hits[n].start <= hit.start
  BY <1>1 DEF Rising
<1>14. Len(more) \in Nat /\ \A i \in 1..Len(more) : more[i] \in BurstsOf(S)
  <2> HIDE DEF more
  <2> QED BY <1>9, LenProperties, ElementOfSeq
<1>21. n # 0 => hits[n] \in BurstsOf(S)
  BY <1>1, <1>13
<1> HIDE DEF hit, more
<1>15. CASE OneBurstMore(more, bursts, hit)
  <2>1. /\ Len(more) = L + 1 /\ (\A i \in 1..L : more[i] = bursts[i]) /\ more[L + 1] = hit
        /\ L # 0 => bursts[L].end < hit.start
    BY <1>15 DEF OneBurstMore
  <2>2. L + 1 \in 1..Len(more) /\ (\A i \in 1..L : i \in 1..Len(more))
        /\ \A i \in 1..Len(more) : i \in 1..L \/ i = L + 1
    BY <1>6, <2>1
  <2>3. \A k \in 1..(n + 1) : \E i \in 1..Len(more) :
          InBurst(hits[k], more[i]) /\ hits[k].hosts \subseteq more[i].hosts
    <3> TAKE k \in 1..(n + 1)
    <3>1. CASE k = n + 1
      <4>1. InBurst(hits[k], more[L + 1]) /\ hits[k].hosts \subseteq more[L + 1].hosts
        BY <1>10, <1>12, <2>1, <3>1
      <4> QED BY <2>2, <4>1
    <3>2. CASE k \in 1..n
      <4>1. PICK i \in 1..L : InBurst(hits[k], bursts[i]) /\ hits[k].hosts \subseteq bursts[i].hosts
        BY <1>3, <3>2
      <4>2. more[i] = bursts[i] /\ i \in 1..Len(more)
        BY <2>1, <2>2
      <4> QED BY <4>1, <4>2
    <3> QED BY <1>11, <3>1, <3>2
  <2>4. \A i \in 1..Len(more) : \A h \in more[i].hosts : \E k \in 1..(n + 1) :
          InBurst(hits[k], more[i]) /\ h \in hits[k].hosts
    <3> TAKE i \in 1..Len(more)
    <3> TAKE h \in more[i].hosts
    <3>1. CASE i = L + 1
      <4>1. InBurst(hits[n + 1], more[i]) /\ h \in hits[n + 1].hosts
        BY <1>10, <1>12, <2>1, <3>1
      <4> QED BY <1>11, <4>1
    <3>2. CASE i \in 1..L
      <4>1. more[i] = bursts[i]
        BY <2>1, <3>2
      <4>2. PICK k \in 1..n : InBurst(hits[k], bursts[i]) /\ h \in hits[k].hosts
        BY <1>4, <3>2, <4>1
      <4> QED BY <1>11, <4>1, <4>2
    <3> QED BY <2>2, <3>1, <3>2
  <2>5. \A i \in 2..Len(more) : more[i - 1].end < more[i].start
    <3> TAKE i \in 2..Len(more)
    <3>1. CASE i = L + 1
      <4>1. i - 1 = L /\ L \in 1..L /\ L # 0
        BY <1>6, <3>1
      <4> QED BY <2>1, <3>1, <4>1
    <3>2. CASE i \in 1..L
      <4>1. i \in 2..L /\ i - 1 \in 1..L
        BY <1>6, <3>2
      <4> QED BY <1>5, <2>1, <3>2, <4>1
    <3>3. i \in 1..Len(more)
      BY <1>14
    <3> QED BY <2>2, <3>1, <3>2, <3>3
  <2>6. Len(more) # 0 /\ more[Len(more)].start <= hits[n + 1].start
    BY <1>6, <1>7, <1>8, <1>12, <2>1
  <2> QED BY <1>9, <1>11, <2>3, <2>4, <2>5, <2>6 DEF Joined, more, hit
<1>16. CASE L # 0 /\ Extends(more, bursts, hit)
  <2> DEFINE last == bursts[L]
             new == more[L]
  <2>1. /\ Len(more) = L /\ (\A i \in 1..(L - 1) : more[i] = bursts[i])
        /\ hit.start <= last.end /\ new.start = last.start /\ last.end <= new.end /\ hit.end <= new.end
        /\ new.hosts = last.hosts \cup hit.hosts
    BY <1>16 DEF Extends
  <2>2. L \in 1..L /\ \A i \in 1..L : i \in 1..(L - 1) \/ i = L
    BY <1>6, <1>16
  <2>3. last \in BurstsOf(S) /\ new \in BurstsOf(S) /\ n # 0
    BY <1>2, <1>6, <1>14, <1>16, <2>1, <2>2
  <2>4. last.start \in Int /\ last.end \in Int /\ new.end \in Int /\ hit.start \in Int /\ hit.end \in Int
    BY <1>7, <1>8, <2>3
  <2>5. last.start <= hit.start
    BY <1>2, <1>7, <1>13, <1>21, <2>3, <2>4
  <2>6. InBurst(hit, new) /\ hit.hosts \subseteq new.hosts
    BY <2>1, <2>4, <2>5 DEF InBurst
  <2>7. \A k \in 1..n : InBurst(hits[k], last) => InBurst(hits[k], new)
    <3> TAKE k \in 1..n
    <3>1. hits[k].start \in Int /\ hits[k].end \in Int
      BY <1>1, <1>7
    <3> QED BY <2>1, <2>4, <3>1 DEF InBurst
  <2>8. last.hosts \subseteq new.hosts /\ \A h \in new.hosts : h \in last.hosts \/ h \in hit.hosts
    BY <2>1
  <2> HIDE DEF last, new
  <2>9. more[L] = new /\ bursts[L] = last
    BY DEF last, new
  <2>10. \A k \in 1..(n + 1) : \E i \in 1..Len(more) :
           InBurst(hits[k], more[i]) /\ hits[k].hosts \subseteq more[i].hosts
    <3> TAKE k \in 1..(n + 1)
    <3>1. CASE k = n + 1
      <4>1. InBurst(hits[k], more[L]) /\ hits[k].hosts \subseteq more[L].hosts
        BY <1>12, <2>6, <2>9, <3>1
      <4> QED BY <2>1, <2>2, <4>1
    <3>2. CASE k \in 1..n
      <4>1. PICK i \in 1..L : InBurst(hits[k], bursts[i]) /\ hits[k].hosts \subseteq bursts[i].hosts
        BY <1>3, <3>2
      <4>2. CASE i = L
        <5>1. InBurst(hits[k], more[i]) /\ hits[k].hosts \subseteq more[i].hosts
          BY <2>7, <2>8, <2>9, <3>2, <4>1, <4>2
        <5> QED BY <2>1, <5>1
      <4>3. CASE i \in 1..(L - 1)
        BY <2>1, <4>1, <4>3
      <4> QED BY <2>2, <4>2, <4>3
    <3> QED BY <1>11, <3>1, <3>2
  <2>11. \A i \in 1..Len(more) : \A h \in more[i].hosts : \E k \in 1..(n + 1) :
           InBurst(hits[k], more[i]) /\ h \in hits[k].hosts
    <3> TAKE i \in 1..Len(more)
    <3> TAKE h \in more[i].hosts
    <3>1. CASE i = L
      <4>1. CASE h \in hit.hosts
        <5>1. InBurst(hits[n + 1], more[i]) /\ h \in hits[n + 1].hosts
          BY <1>12, <2>6, <2>9, <3>1, <4>1
        <5> QED BY <1>11, <5>1
      <4>2. CASE h \in last.hosts
        <5>1. PICK k \in 1..n : InBurst(hits[k], bursts[i]) /\ h \in hits[k].hosts
          BY <1>4, <2>2, <2>9, <3>1, <4>2
        <5>2. InBurst(hits[k], more[i])
          BY <2>7, <2>9, <3>1, <5>1
        <5> QED BY <1>11, <5>1, <5>2
      <4> QED BY <2>8, <2>9, <3>1, <4>1, <4>2
    <3>2. CASE i \in 1..(L - 1)
      <4>1. more[i] = bursts[i] /\ i \in 1..L
        BY <2>1, <3>2
      <4>2. PICK k \in 1..n : InBurst(hits[k], bursts[i]) /\ h \in hits[k].hosts
        BY <1>4, <4>1
      <4> QED BY <1>11, <4>1, <4>2
    <3> QED BY <2>1, <2>2, <3>1, <3>2
  <2>12. \A i \in 2..Len(more) : more[i - 1].end < more[i].start
    <3> TAKE i \in 2..Len(more)
    <3>1. i \in 2..L /\ i \in 1..L /\ i - 1 \in 1..(L - 1)
      BY <1>6, <2>1
    <3>2. bursts[i - 1].end < bursts[i].start /\ more[i - 1] = bursts[i - 1]
      BY <1>5, <2>1, <3>1
    <3>3. more[i].start = bursts[i].start
      <4>1. new.start = last.start
        BY <2>1 DEF last, new
      <4>2. i = L => more[i].start = bursts[i].start
        BY <2>9, <4>1
      <4>3. i \in 1..(L - 1) => more[i].start = bursts[i].start
        BY <2>1
      <4> QED BY <2>2, <3>1, <4>2, <4>3
    <3> QED BY <3>2, <3>3
  <2>13. Len(more) # 0 /\ more[Len(more)].start <= hits[n + 1].start
    BY <1>12, <1>16, <2>1, <2>5 DEF last, new
  <2> QED BY <1>9, <1>11, <2>10, <2>11, <2>12, <2>13 DEF Joined, more, hit
<1> QED BY <1>9, <1>15, <1>16

\* The bursts are a walk over the hits.
JoinSteps(bursts, hits, found) ==
    /\ bursts[0] = <<>>
    /\ \A n \in 1..Len(hits) : bursts[n] = Merged(bursts[n - 1], hits[n])
    /\ found = bursts[Len(hits)]
LEMMA JoinWalks ==
    ASSUME NEW S, NEW rows, NEW width, NEW min, Hits(Failures(rows), width, min) \in Seq(BurstsOf(S))
    PROVE  \E bursts : JoinSteps(bursts, Hits(Failures(rows), width, min), ConcurrentFailures(rows, width, min))
<1> DEFINE hits == Hits(Failures(rows), width, min)
           N == Len(hits)
           V == Seq(BurstsOf(S))
           step == [n \in 1..N |-> [v \in V |-> Merged(v, hits[n])]]
           Recursion(h) == h = [n \in 0..N |-> IF n = 0 THEN <<>> ELSE Merged(h[n - 1], hits[n])]
           bursts == CHOOSE h : Recursion(h)
<1>10. ConcurrentFailures(rows, width, min) = bursts[N]
  BY DEF ConcurrentFailures
<1> HIDE DEF hits, bursts
<1>1. N \in Nat /\ \A n \in 1..N : hits[n] \in BurstsOf(S)
  BY LenProperties, ElementOfSeq DEF hits
<1>2. \A n \in 1..N, v \in V : Merged(v, hits[n]) \in V
  BY <1>1, MergedIsOne
<1>3. step \in [1..N -> [V -> V]]
  BY <1>2
<1>4. \A n \in 1..N, v \in V : step[n][v] = Merged(v, hits[n])
  OBVIOUS
<1> HIDE DEF step
<1>5. <<>> \in V
  BY EmptySeq
<1>6. PICK g : Walk(g, V, N, <<>>, step)
  <2> HIDE DEF V
  <2> QED BY <1>1, <1>3, <1>5, WalkExists
<1>7. /\ g \in [0..N -> V] /\ g[0] = <<>>
      /\ \A n \in 1..N : g[n] = step[n][g[n - 1]]
  BY <1>6 DEF Walk
<1> HIDE DEF V
<1>8. Recursion(g)
  <2>1. ASSUME NEW n \in 0..N
        PROVE  g[n] = IF n = 0 THEN <<>> ELSE Merged(g[n - 1], hits[n])
    <3>1. n # 0 => n \in 1..N /\ n - 1 \in 0..N
      BY <1>1
    <3> QED BY <1>4, <1>7, <3>1
  <2> QED BY <1>7, <2>1
<1>9. Recursion(bursts)
  <2> HIDE DEF Recursion
  <2> QED BY <1>8 DEF bursts
<1>11. \A n \in 0..N : bursts[n] = IF n = 0 THEN <<>> ELSE Merged(bursts[n - 1], hits[n])
  BY <1>9
<1>12. bursts[0] = <<>> /\ \A n \in 1..N : bursts[n] = Merged(bursts[n - 1], hits[n])
  BY <1>1, <1>11
<1> QED BY <1>10, <1>12 DEF JoinSteps, hits

LEMMA JoinedAll ==
    ASSUME NEW S, NEW hits \in Seq(BurstsOf(S)), Rising(hits),
           NEW bursts, NEW found, JoinSteps(bursts, hits, found)
    PROVE  Joined(found, hits, Len(hits), S)
<1> DEFINE N == Len(hits)
           T == {n \in 0..N : Joined(bursts[n], hits, n, S)}
<1>1. N \in Nat
  BY LenProperties
<1>2. 0 \in T
  <2> DEFINE none == bursts[0]
  <2>1. none = <<>> /\ none \in Seq(BurstsOf(S)) /\ Len(none) = 0
    BY EmptySeq DEF JoinSteps
  <2> HIDE DEF none
  <2>2. Joined(none, hits, 0, S)
    BY <2>1 DEF Joined
  <2> QED BY <1>1, <2>2 DEF none
<1>3. ASSUME NEW n \in 0..(N - 1), n \in T
      PROVE  n + 1 \in T
  <2>1. n + 1 \in 1..N /\ n + 1 \in 0..N /\ (n + 1) - 1 = n
    BY <1>1
  <2>2. bursts[n + 1] = Merged(bursts[n], hits[n + 1])
    BY <2>1 DEF JoinSteps
  <2>3. Joined(bursts[n], hits, n, S)
    BY <1>3
  <2>4. Joined(Merged(bursts[n], hits[n + 1]), hits, n + 1, S)
    BY <2>3, JoinedNext
  <2> QED BY <2>1, <2>2, <2>4
<1>4. N \in T
  <2> HIDE DEF T
  <2>1. 0..N \subseteq T
    BY <1>1, <1>2, <1>3, UpTo
  <2> QED BY <1>1, <2>1
<1> QED BY <1>4 DEF JoinSteps

\* The hosts of a part of some failures are not more than those of all.
LEMMA FewerHosts ==
    ASSUME NEW R, IsFiniteSet(R), NEW Q \in SUBSET R
    PROVE  /\ Cardinality(HostsOf(Q)) \in Nat /\ Cardinality(HostsOf(R)) \in Nat
           /\ Cardinality(HostsOf(Q)) <= Cardinality(HostsOf(R))
<1>1. IsFiniteSet(HostsOf(R))
  <2> DEFINE host == [r \in R |-> r.host]
  <2>1. host \in Surjection(R, HostsOf(R))
    BY DEF Surjection, HostsOf
  <2> HIDE DEF host
  <2> QED BY <2>1, FS_Surjection
<1>2. HostsOf(Q) \in SUBSET HostsOf(R)
  BY DEF HostsOf
<1> HIDE DEF HostsOf
<1>3. IsFiniteSet(HostsOf(Q)) /\ Cardinality(HostsOf(Q)) <= Cardinality(HostsOf(R))
  BY <1>1, <1>2, FS_Subset
<1> QED BY <1>1, <1>3, FS_CardinalityType

\* Bursts are what they are said to be.
Crowded(R, t, width) == {f \in R : f.time \in t..(t + width)}
Densely(R, t, width, min) == Cardinality({f.host : f \in Crowded(R, t, width)}) >= min
Fits(f, b) == f.time \in b.start..b.end /\ f.host \in b.hosts
Exact(bursts, R, width, min) ==
    /\ \A t \in {f.time : f \in R} : Densely(R, t, width, min) =>
         \E b \in ToSet(bursts) : \A f \in Crowded(R, t, width) : Fits(f, b)
    /\ \A b \in ToSet(bursts) : \A h \in b.hosts : \E f, g \in R :
         g.host = h /\ Fits(g, b) /\ f.time \in b.start..b.end /\ Densely(R, f.time, width, min)
         /\ g \in Crowded(R, f.time, width)
    /\ \A i \in 2..Len(bursts) : bursts[i - 1].end < bursts[i].start

\* The last failure within a width of one reaches all of those in between.
LEMMA LastOfCrowd ==
    ASSUME NEW S, NEW rows, Failing(rows, S), NEW width \in Nat, NEW o \in 1..Len(rows)
    PROVE  \E i \in 1..Len(rows) : /\ Crowded(ToSet(rows), rows[o].time, width) \subseteq Reach(rows, i, width)
                                   /\ rows[i].time \in rows[o].time..(rows[o].time + width)
                                   /\ \A f \in Crowded(ToSet(rows), rows[o].time, width) : f.time <= rows[i].time
<1> DEFINE N == Len(rows)
           t == rows[o].time
           near == {k \in 1..N : rows[k].time <= t + width}
<1>1. /\ N \in Nat /\ \A i \in 1..N : rows[i].time \in Int
      /\ ToSet(rows) = {rows[i] : i \in 1..N}
  BY Members, ElementOfSeq DEF Failing, Dated
<1>2. t \in Int /\ o \in near
  BY <1>1
<1>3. PICK i \in near : \A k \in near : k <= i
  <2> DEFINE back == {N - k : k \in near}
  <2>1. back \in SUBSET Nat /\ back # {}
    BY <1>1, <1>2
  <2> HIDE DEF back
  <2>2. PICK n \in back : \A m \in back : n <= m
    BY <2>1, LeastNat
  <2>3. PICK i \in near : n = N - i
    BY <2>2 DEF back
  <2>4. \A k \in near : k <= i
    <3> TAKE k \in near
    <3>1. N - k \in back
      BY DEF back
    <3>2. n <= N - k
      BY <2>2, <3>1
    <3> QED BY <1>1, <2>3, <3>2
  <2> QED BY <2>4
<1>4. i \in 1..N /\ rows[i].time \in Int /\ rows[i].time <= t + width /\ o <= i
  BY <1>1, <1>2, <1>3
<1>5. t <= rows[i].time
  <2>1. o < i \/ o = i
    BY <1>4
  <2> QED BY <1>2, <1>4, <2>1 DEF Failing, InTurn
<1>6. ASSUME NEW f \in Crowded(ToSet(rows), t, width)
      PROVE  f \in Reach(rows, i, width) /\ f.time <= rows[i].time
  <2>1. f \in ToSet(rows) /\ f.time \in t..(t + width)
    BY DEF Crowded
  <2>2. PICK k \in 1..N : f = rows[k]
    BY <1>1, <2>1
  <2>3. rows[k].time \in Int /\ t <= rows[k].time /\ rows[k].time <= t + width
    BY <1>1, <2>1, <2>2
  <2>4. k \in 1..i
    BY <1>3, <1>4, <2>3
  <2>5. rows[k].time >= rows[i].time - width
    BY <1>2, <1>4, <2>3
  <2>6. rows[k].time <= rows[i].time
    <3>1. k < i \/ k = i
      BY <1>4, <2>4
    <3> QED BY <1>4, <2>3, <3>1 DEF Failing, InTurn
  <2> QED BY <2>2, <2>4, <2>5, <2>6 DEF Reach
<1>7. rows[i].time \in t..(t + width)
  BY <1>2, <1>4, <1>5
<1> QED BY <1>4, <1>6, <1>7

\* The hits, joined to bursts, are exact.
LEMMA JoinedIsExact ==
    ASSUME NEW S, NEW rows, Failing(rows, S), NEW width \in Nat, NEW min \in Int,
           NEW scan, Scanned(scan, rows, Len(rows), width, min),
           NEW bursts, Joined(bursts, scan.hits, Len(scan.hits), ToSet(rows))
    PROVE  Exact(bursts, ToSet(rows), width, min)
<1> DEFINE R == ToSet(rows)
           hits == scan.hits
           K == Len(hits)
           N == Len(rows)
           L == Len(bursts)
<1>1. /\ N \in Nat /\ R = {rows[i] : i \in 1..N} /\ Dated(R) /\ rows \in Seq(R) /\ IsFiniteSet(R)
  <2>1. N \in Nat /\ R = {rows[i] : i \in 1..N} /\ R \subseteq S /\ rows \in Seq(R)
    BY Members DEF Failing
  <2>2. IsFiniteSet(R)
    <3> DEFINE f == [i \in 1..N |-> rows[i]]
    <3>1. f \in Surjection(1..N, R)
      BY <2>1 DEF Surjection
    <3>2. IsFiniteSet(1..N)
      BY <2>1, FS_Interval
    <3> HIDE DEF f
    <3> QED BY <3>1, <3>2, FS_Surjection
  <2> QED BY <2>1, <2>2 DEF Failing, Dated
<1>2. Failing(rows, R)
  BY <1>1 DEF Failing
<1>3. /\ \A k \in 1..K : \E i \in 1..N : Hit(hits[k], rows, i, width)
      /\ \A k \in 1..K : ~(Cardinality(hits[k].hosts) < min)
      /\ \A i \in 1..N : ~(Cardinality(HostsOf(Reach(rows, i, width))) < min)
           => \E k \in 1..K : Hit(hits[k], rows, i, width)
      /\ hits \in Seq(BurstsOf(R))
  BY DEF Scanned, Scans
<1>4. /\ bursts \in Seq(BurstsOf(R))
      /\ \A k \in 1..K : \E i \in 1..L : InBurst(hits[k], bursts[i]) /\ hits[k].hosts \subseteq bursts[i].hosts
      /\ \A i \in 1..L : \A h \in bursts[i].hosts : \E k \in 1..K :
           InBurst(hits[k], bursts[i]) /\ h \in hits[k].hosts
      /\ \A i \in 2..L : bursts[i - 1].end < bursts[i].start
  BY DEF Joined
<1>5. /\ L \in Nat /\ ToSet(bursts) = {bursts[i] : i \in 1..L}
      /\ \A i \in 1..L : bursts[i].start \in Int /\ bursts[i].end \in Int
  <2>1. L \in Nat /\ ToSet(bursts) = {bursts[i] : i \in 1..L}
    BY <1>4, Members
  <2>2. \A i \in 1..L : bursts[i] \in BurstsOf(R)
    BY <1>4, ElementOfSeq
  <2> QED BY <2>1, <2>2 DEF BurstsOf
<1>6. \A k \in 1..K : hits[k].start \in Int /\ hits[k].end \in Int
  <2>1. \A k \in 1..K : hits[k] \in BurstsOf(R)
    BY <1>3, ElementOfSeq
  <2> QED BY <2>1 DEF BurstsOf
<1>7. \A i \in 1..N : /\ Reach(rows, i, width) \subseteq R /\ rows[i].time \in Int
                      /\ \A f \in Reach(rows, i, width) : /\ f.time \in Int /\ f.time <= rows[i].time
                                                          /\ f.time >= rows[i].time - width
  BY <1>2, ReachIs
<1>8. \A t : Densely(R, t, width, min) <=> Cardinality(HostsOf(Crowded(R, t, width))) >= min
  BY DEF Densely, HostsOf
<1>9. \A t : Crowded(R, t, width) \subseteq R
  BY DEF Crowded
<1>10. \A Q \in SUBSET R : IsFiniteSet(Q)
  BY <1>1, FS_Subset
<1> HIDE DEF R, hits, K, N, L
<1>11. ASSUME NEW t \in {f.time : f \in R}, Densely(R, t, width, min)
       PROVE  \E b \in ToSet(bursts) : \A f \in Crowded(R, t, width) : Fits(f, b)
  <2>1. PICK o \in 1..N : rows[o].time = t
    BY <1>1, <1>11
  <2>2. PICK i \in 1..N : /\ Crowded(R, t, width) \subseteq Reach(rows, i, width)
                          /\ \A f \in Crowded(R, t, width) : f.time <= rows[i].time
    BY <2>1, LastOfCrowd DEF R, N
  <2>3. Reach(rows, i, width) \in SUBSET R
    BY <1>7
  <2>4. /\ Cardinality(HostsOf(Crowded(R, t, width))) \in Nat
        /\ Cardinality(HostsOf(Reach(rows, i, width))) \in Nat
        /\ Cardinality(HostsOf(Crowded(R, t, width))) <= Cardinality(HostsOf(Reach(rows, i, width)))
    BY <1>10, <2>2, <2>3, FewerHosts
  <2>5. ~(Cardinality(HostsOf(Reach(rows, i, width))) < min)
    BY <1>8, <1>11, <2>4
  <2>6. PICK k \in 1..K : Hit(hits[k], rows, i, width)
    BY <1>3, <2>5
  <2>7. PICK j \in 1..L : InBurst(hits[k], bursts[j]) /\ hits[k].hosts \subseteq bursts[j].hosts
    BY <1>4
  <2>8. ASSUME NEW f \in Crowded(R, t, width)
        PROVE  Fits(f, bursts[j])
    <3>1. f \in Reach(rows, i, width) /\ f.time \in Int /\ f.time <= rows[i].time
      BY <1>7, <2>2
    <3>2. hits[k].start <= f.time /\ hits[k].end = rows[i].time /\ f.host \in hits[k].hosts
      BY <2>6, <3>1 DEF Hit, HostsOf
    <3>3. bursts[j].start <= hits[k].start /\ hits[k].end <= bursts[j].end
      BY <2>7 DEF InBurst
    <3>4. f.time \in bursts[j].start..bursts[j].end
      BY <1>5, <1>6, <1>7, <3>1, <3>2, <3>3
    <3> QED BY <2>7, <3>2, <3>4 DEF Fits
  <2> QED BY <1>5, <2>8
<1>12. ASSUME NEW b \in ToSet(bursts), NEW h \in b.hosts
       PROVE  \E f, g \in R : g.host = h /\ Fits(g, b) /\ f.time \in b.start..b.end
                /\ Densely(R, f.time, width, min) /\ g \in Crowded(R, f.time, width)
  <2>1. PICK j \in 1..L : b = bursts[j]
    BY <1>5, <1>12
  <2>2. PICK k \in 1..K : InBurst(hits[k], bursts[j]) /\ h \in hits[k].hosts
    BY <1>4, <2>1
  <2>3. PICK i \in 1..N : Hit(hits[k], rows, i, width)
    BY <1>3
  <2>4. PICK f \in Reach(rows, i, width) : f.time = hits[k].start
    BY <2>3 DEF Hit
  <2>5. PICK g \in Reach(rows, i, width) : g.host = h
    BY <2>2, <2>3 DEF Hit, HostsOf
  <2>6. /\ f \in R /\ g \in R /\ f.time \in Int /\ g.time \in Int /\ rows[i].time \in Int
        /\ f.time >= rows[i].time - width /\ g.time <= rows[i].time /\ f.time <= rows[i].time
    BY <1>7
  <2>7. \A e \in Reach(rows, i, width) : e \in R /\ f.time <= e.time /\ e.time \in Int /\ e.time <= rows[i].time
    BY <1>7, <2>3, <2>4 DEF Hit
  <2>8. Reach(rows, i, width) \in SUBSET Crowded(R, f.time, width)
    <3>1. \A e \in Reach(rows, i, width) : e.time \in f.time..(f.time + width)
      BY <2>6, <2>7
    <3> QED BY <2>7, <3>1 DEF Crowded
  <2>9. /\ Cardinality(HostsOf(Reach(rows, i, width))) \in Nat
        /\ Cardinality(HostsOf(Crowded(R, f.time, width))) \in Nat
        /\ Cardinality(HostsOf(Reach(rows, i, width))) <= Cardinality(HostsOf(Crowded(R, f.time, width)))
    BY <1>9, <1>10, <2>8, FewerHosts
  <2>10. ~(Cardinality(HostsOf(Reach(rows, i, width))) < min)
    BY <1>3, <2>3 DEF Hit
  <2>11. Densely(R, f.time, width, min)
    BY <1>8, <2>9, <2>10
  <2>12. f.time \in b.start..b.end /\ g.time \in b.start..b.end
    <3>1. /\ bursts[j].start <= f.time /\ rows[i].time <= bursts[j].end
          /\ bursts[j].start \in Int /\ bursts[j].end \in Int
      BY <1>5, <2>2, <2>3, <2>4 DEF InBurst, Hit
    <3> QED BY <2>1, <2>6, <2>7, <3>1
  <2>13. g.host \in b.hosts
    BY <2>5
  <2>14. Fits(g, b)
    BY <2>12, <2>13 DEF Fits
  <2> QED BY <2>5, <2>6, <2>8, <2>11, <2>12, <2>14
<1>13. Exact(bursts, R, width, min)
  BY <1>4, <1>11, <1>12 DEF Exact, L
<1> QED BY <1>13 DEF R

\* The bursts drawn from rows that have times are exact.
LEMMA BurstsSay ==
    ASSUME NEW S, NEW rows \in Seq(S), \A i \in DOMAIN rows : rows[i].time \in Int,
           NEW width \in Nat, NEW min \in Int
    PROVE  Exact(ConcurrentFailures(rows, width, min), ToSet(Failures(rows)), width, min)
<1> DEFINE failed == Failures(rows)
           R == ToSet(failed)
           places == {i \in DOMAIN rows : IsFailure(rows[i])}
           found == ConcurrentFailures(rows, width, min)
<1>1. places \in SUBSET DOMAIN rows /\ failed = ByTime(rows, places)
  BY DEF Failures
<1> HIDE DEF failed, places
<1>2. /\ failed \in Seq(S) /\ ToSet(failed) = {rows[i] : i \in places}
      /\ \E f : /\ Lists(failed, f, rows, places)
               /\ \A m, n \in 1..Len(failed) : m < n => Precedes(rows, f[m], f[n])
  BY <1>1, ByTimeProperties
<1>3. failed \in Seq(R) /\ Dated(R)
  <2>1. failed \in Seq(S)
    BY <1>2
  <2>2. failed \in Seq(R)
    BY <2>1, Members
  <2> QED BY <1>1, <1>2, <2>2 DEF Dated
<1>4. InTurn(failed)
  <2>1. PICK f : /\ Lists(failed, f, rows, places)
                 /\ \A m, n \in 1..Len(failed) : m < n => Precedes(rows, f[m], f[n])
    BY <1>2
  <2>2. \A n \in 1..Len(failed) : f[n] \in DOMAIN rows /\ failed[n] = rows[f[n]]
    BY <1>1, <2>1 DEF Lists
  <2>3. \A m, n \in 1..Len(failed) : m < n => rows[f[m]].time <= rows[f[n]].time
    BY <2>1, <2>2 DEF Precedes
  <2> QED BY <2>2, <2>3 DEF InTurn
<1>5. Failing(failed, R)
  BY <1>3, <1>4 DEF Failing
<1>6. PICK scan : /\ Scanned(scan, failed, Len(failed), width, min)
                  /\ scan.hits = Hits(failed, width, min)
  BY <1>5, HitsSay
<1>7. scan.hits \in Seq(BurstsOf(R)) /\ Rising(scan.hits)
  BY <1>6 DEF Scanned, Scans
<1>8. \E bursts : JoinSteps(bursts, Hits(failed, width, min), found)
  BY <1>6, <1>7, JoinWalks DEF failed
<1>9. Joined(found, scan.hits, Len(scan.hits), R)
  BY <1>6, <1>7, <1>8, JoinedAll
<1> HIDE DEF found
<1>10. Exact(found, R, width, min)
  BY <1>5, <1>6, <1>9, JoinedIsExact
<1> QED BY <1>10 DEF found, failed

\* A burst is told for each crowd of failures, and for nothing else.
LEMMA BurstsAreTold == PastInv => BurstsAreExact
<1> SUFFICES ASSUME PastInv, NEW width \in 0..1, NEW min \in 2..3
             PROVE  Exact(ConcurrentFailures(log, width, min), ToSet(Failures(log)), width, min)
  BY DEF BurstsAreExact, Exact, Densely, Crowded, Fits
<1>1. log \in Seq(ToSet(log)) /\ \A i \in DOMAIN log : log[i].time \in Int
  BY DEF PastInv, Numbered, Written, IsRow
<1>2. width \in Nat /\ min \in Int
  OBVIOUS
<1> QED BY <1>1, <1>2, BurstsSay

\* Of the failures in the log, a burst is found wherever enough hosts fail within
\* the width of the window and nowhere else, and no two overlap (triage.py:401-550).
THEOREM BurstsAreFound == Spec => []BurstsAreExact
<1> QED BY PastInvariant, BurstsAreTold, PTL
================================================================================
