--------------------------- MODULE SessionsProofs ---------------------------
(***************************************************************************)
(* Theorems about Sessions, for any sessions, requests, tools, catalogues, *)
(* settings and limits: its types, and how far a handler that writes back  *)
(* what it read before the check of a token can set a session back.        *)
(***************************************************************************)
EXTENDS Sessions, SequenceTheorems, TLAPS

(***************************************************************************)
(* Outcomes                                                                *)
(***************************************************************************)

LEMMA RecentFacts ==
  /\ \A q \in Recent : q \in Seq(Outcome) /\ Len(q) <= MaxRecent
  /\ \A q \in Seq(Outcome) : Len(q) <= MaxRecent => q \in Recent
  /\ << >> \in Recent
<1>1. ASSUME NEW q \in Recent PROVE q \in Seq(Outcome) /\ Len(q) <= MaxRecent
  <2>1. PICK n \in 0..MaxRecent : q \in [1..n -> Outcome]
    BY DEF Recent
  <2>2. n \in Nat /\ n <= MaxRecent
    BY <2>1, NumbersAssumption
  <2>3. QED BY <2>1, <2>2
<1>2. ASSUME NEW q \in Seq(Outcome), Len(q) <= MaxRecent PROVE q \in Recent
  <2>1. Len(q) \in 0..MaxRecent /\ q \in [1..Len(q) -> Outcome]
    BY <1>2, LenProperties, NumbersAssumption
  <2>2. QED BY <2>1 DEF Recent
<1>3. << >> \in Seq(Outcome) /\ Len(<< >>) <= MaxRecent
  BY EmptySeq, NumbersAssumption
<1>4. QED BY <1>1, <1>2, <1>3

(* How many of the first entries are not among the last n.                 *)
Cut(q, n) == IF Len(q) > n THEN Len(q) - n ELSE 0

LEMMA LastFacts ==
  ASSUME NEW q \in Seq(Outcome), NEW n \in Nat \ {0}
  PROVE  /\ LastOf(q, n) \in Seq(Outcome)
         /\ Len(LastOf(q, n)) = Len(q) - Cut(q, n)
         /\ \A i \in 1..Len(q) - Cut(q, n) : LastOf(q, n)[i] = q[i + Cut(q, n)]
<1> DEFINE m == Cut(q, n) + 1
<1>1. Len(q) \in Nat /\ m \in 1..Len(q) + 1
  BY LenProperties DEF Cut
<1>2. \A i \in m..Len(q) : q[i] \in Outcome
  BY <1>1, ElementOfSeq
<1>3. LastOf(q, n) = SubSeq(q, m, Len(q))
  BY <1>1 DEF LastOf, Cut
<1> HIDE DEF m
<1>4. /\ SubSeq(q, m, Len(q)) \in Seq(Outcome)
      /\ Len(SubSeq(q, m, Len(q))) = IF m <= Len(q) THEN Len(q) - m + 1 ELSE 0
      /\ \A i \in 1 .. Len(q) - m + 1 : SubSeq(q, m, Len(q))[i] = q[m + i - 1]
  BY <1>1, <1>2, SubSeqProperties
<1>5. Cut(q, n) = m - 1 /\ Len(q) - m + 1 = Len(q) - Cut(q, n)
  BY <1>1 DEF m, Cut
<1>6. Len(SubSeq(q, m, Len(q))) = Len(q) - m + 1
  BY <1>1, <1>4
<1>7. \A i \in 1 .. Len(q) - m + 1 : SubSeq(q, m, Len(q))[i] = q[i + Cut(q, n)]
  <2>1. ASSUME NEW i \in 1 .. Len(q) - m + 1 PROVE m + i - 1 = i + Cut(q, n)
    BY <1>1, <1>5
  <2>2. QED BY <1>4, <2>1
<1>8. QED BY <1>3, <1>4, <1>5, <1>6, <1>7

LEMMA LastOfAppend ==
  ASSUME NEW q \in Seq(Outcome), NEW o \in Outcome, NEW n \in Nat \ {0}
  PROVE  LastOf(Append(LastOf(q, n), o), n) = LastOf(Append(q, o), n)
<1>1. \A z \in Seq(Outcome) :
         /\ Len(z) \in Nat /\ Cut(z, n) \in 0..Len(z)
         /\ Append(z, o) \in Seq(Outcome) /\ Len(Append(z, o)) = Len(z) + 1
         /\ \A i \in 1..Len(z) : Append(z, o)[i] = z[i]
         /\ Append(z, o)[Len(z) + 1] = o
  BY AppendProperties, LenProperties DEF Cut
<1>2. \A z \in Seq(Outcome) :
         /\ LastOf(z, n) \in Seq(Outcome) /\ Len(LastOf(z, n)) = Len(z) - Cut(z, n)
         /\ \A i \in 1..Len(z) - Cut(z, n) : LastOf(z, n)[i] = z[i + Cut(z, n)]
  BY LastFacts
<1>3. PICK p \in Seq(Outcome) : p = LastOf(q, n)
  BY <1>2
<1>4. PICK a \in Seq(Outcome) : a = Append(p, o)
  BY <1>1
<1>5. PICK b \in Seq(Outcome) : b = Append(q, o)
  BY <1>1
<1>6. /\ Len(q) \in Nat /\ Cut(q, n) \in 0..Len(q)
      /\ Len(p) = Len(q) - Cut(q, n) /\ Len(a) = Len(p) + 1 /\ Len(b) = Len(q) + 1
  BY <1>1, <1>2, <1>3, <1>4, <1>5
<1>7. \A i \in 1..Len(p) + 1 : a[i] = b[i + Cut(q, n)]
  <2>1. ASSUME NEW i \in 1..Len(p) PROVE a[i] = b[i + Cut(q, n)]
    <3>1. i + Cut(q, n) \in 1..Len(q)
      BY <1>6
    <3>2. a[i] = p[i] /\ b[i + Cut(q, n)] = q[i + Cut(q, n)]
      BY <1>1, <1>4, <1>5, <3>1
    <3>3. p[i] = q[i + Cut(q, n)]
      BY <1>2, <1>3, <1>6
    <3>4. QED BY <3>2, <3>3
  <2>2. a[Len(p) + 1] = o /\ b[Len(q) + 1] = o
    BY <1>1, <1>4, <1>5
  <2>3. Len(p) + 1 + Cut(q, n) = Len(q) + 1
    BY <1>6
  <2>4. ASSUME NEW i \in 1..Len(p) + 1 PROVE a[i] = b[i + Cut(q, n)]
    <3>1. i \in 1..Len(p) \/ i = Len(p) + 1
      BY <1>6
    <3>2. QED BY <3>1, <2>1, <2>2, <2>3
  <2>5. QED BY <2>4
<1>8. Cut(b, n) = Cut(q, n) + Cut(a, n) /\ Len(b) - Cut(b, n) = Len(a) - Cut(a, n)
  <2>1. CASE Len(q) > n
    <3>1. Cut(q, n) = Len(q) - n
      BY <2>1 DEF Cut
    <3>2. Len(a) = n + 1 /\ Len(b) = Len(q) + 1 /\ Len(q) \in Nat
      BY <1>6, <3>1
    <3>3. Cut(a, n) = 1 /\ Cut(b, n) = Len(q) + 1 - n
      BY <2>1, <3>2 DEF Cut
    <3>4. QED BY <3>1, <3>2, <3>3
  <2>2. CASE ~(Len(q) > n)
    BY <1>6, <2>2 DEF Cut
  <2>3. QED BY <2>1, <2>2
<1>9. Cut(a, n) \in 0..Len(a) /\ Len(a) \in Nat
  BY <1>1
<1>10. ASSUME NEW i \in 1..Len(a) - Cut(a, n) PROVE LastOf(a, n)[i] = LastOf(b, n)[i]
  <2>1. LastOf(a, n)[i] = a[i + Cut(a, n)] /\ LastOf(b, n)[i] = b[i + Cut(b, n)]
    BY <1>2, <1>8
  <2>2. i + Cut(a, n) \in 1..Len(p) + 1
    BY <1>6, <1>9
  <2>3. a[i + Cut(a, n)] = b[i + Cut(a, n) + Cut(q, n)]
    BY <1>7, <2>2
  <2>4. i + Cut(a, n) + Cut(q, n) = i + Cut(b, n)
    BY <1>6, <1>8, <1>9
  <2>5. QED BY <2>1, <2>3, <2>4
<1>11. /\ LastOf(a, n) \in Seq(Outcome) /\ LastOf(b, n) \in Seq(Outcome)
       /\ Len(LastOf(a, n)) = Len(a) - Cut(a, n) /\ Len(LastOf(b, n)) = Len(a) - Cut(a, n)
  BY <1>2, <1>8
<1>12. LastOf(a, n) = LastOf(b, n)
  BY <1>10, <1>11, SeqEqual
<1>13. QED BY <1>3, <1>4, <1>5, <1>12

(***************************************************************************)
(* Outcomes that follow a floor                                            *)
(***************************************************************************)

LEMMA LastOfShort ==
  ASSUME NEW q \in Seq(Outcome), Len(q) <= MaxRecent
  PROVE  LastOf(q, MaxRecent) = q
<1>1. Len(q) \in Nat /\ MaxRecent \in Nat \ {0} /\ Cut(q, MaxRecent) = 0
  BY LenProperties, NumbersAssumption DEF Cut
<1>2. /\ LastOf(q, MaxRecent) \in Seq(Outcome)
      /\ Len(LastOf(q, MaxRecent)) = Len(q) - Cut(q, MaxRecent)
      /\ \A i \in 1..Len(q) - Cut(q, MaxRecent) :
            LastOf(q, MaxRecent)[i] = q[i + Cut(q, MaxRecent)]
  BY <1>1, LastFacts
<1>3. Len(LastOf(q, MaxRecent)) = Len(q) /\ \A i \in 1..Len(q) : LastOf(q, MaxRecent)[i] = q[i]
  BY <1>1, <1>2
<1>4. QED BY <1>2, <1>3, SeqEqual

(* A floor is followed by what it was taken from.                          *)
LEMMA ExtendsItself ==
  ASSUME NEW x \in Floor, NEW calls \in Seq(Outcome), x.calls = Len(calls)
  PROVE  Extends(x.outcomes, x, calls)
<1>1. x.outcomes \in Seq(Outcome) /\ Len(x.outcomes) <= MaxRecent
  BY RecentFacts DEF Floor
<1>2. x.calls \in Nat /\ 0 \in 0..(Len(calls) - x.calls)
  BY LenProperties DEF Floor
<1> DEFINE f == [i \in 1..0 |-> x.calls + 1]
           new == [i \in 1..0 |-> calls[f[i]]]
<1>3. f \in Increasing(0, (x.calls + 1)..Len(calls))
  BY DEF Increasing
<1>4. new = << >>
  <2>1. new \in [1..0 -> Outcome]
    OBVIOUS
  <2>2. new \in Seq(Outcome) /\ Len(new) = 0
    BY <2>1
  <2>3. QED BY <2>2, EmptySeq
<1> HIDE DEF f
<1>5. x.outcomes \o new = x.outcomes
  BY <1>1, <1>4, ConcatEmptySeq
<1>6. LastOf(x.outcomes \o new, MaxRecent) = x.outcomes
  BY <1>1, <1>5, LastOfShort
<1>7. QED BY <1>2, <1>3, <1>6 DEF Extends

(* All of what a floor was taken from ...                                  *)
LEMMA AllOfFloor ==
  ASSUME NEW x \in Floor, NEW calls \in Seq(Outcome), x.calls = Len(calls)
  PROVE  All(x, calls) = x.outcomes
<1>1. x.outcomes \in Seq(Outcome) /\ Len(x.outcomes) <= MaxRecent
  BY RecentFacts DEF Floor
<1>2. SubSeq(calls, x.calls + 1, Len(calls)) = << >>
  <2>1. Len(calls) \in Nat
    BY LenProperties
  <2>2. x.calls + 1 \in Int /\ Len(calls) \in Int /\ x.calls + 1 > Len(calls)
    BY <2>1
  <2>3. QED BY <2>2, SubSeqEmpty
<1>3. x.outcomes \o << >> = x.outcomes
  BY <1>1, ConcatEmptySeq
<1>4. QED BY <1>1, <1>2, <1>3, LastOfShort DEF All

(* ... and with one call more.                                             *)
LEMMA AllOfOneMore ==
  ASSUME NEW x \in Floor, NEW calls \in Seq(Outcome), NEW o \in Outcome, x.calls = Len(calls)
  PROVE  All(x, Append(calls, o)) = LastOf(Append(x.outcomes, o), MaxRecent)
<1>1. x.outcomes \in Seq(Outcome)
  BY RecentFacts DEF Floor
<1>2. PICK longer : longer = Append(calls, o)
  OBVIOUS
<1>3. /\ longer \in Seq(Outcome) /\ Len(longer) = Len(calls) + 1
      /\ longer[Len(calls) + 1] = o /\ Len(calls) \in Nat
  BY <1>2, AppendProperties, LenProperties
<1>4. PICK last : last = SubSeq(longer, x.calls + 1, Len(longer))
  OBVIOUS
<1>5. x.calls + 1 \in 1..(Len(longer) + 1) /\ x.calls + 1 = Len(longer)
  BY <1>3
<1>6. \A i \in (x.calls + 1)..Len(longer) : longer[i] \in Outcome
  BY <1>3, <1>5, ElementOfSeq
<1>7. last \in Seq(Outcome) /\ Len(last) = 1 /\ last[1] = o
  BY <1>3, <1>4, <1>5, <1>6, SubSeqProperties
<1>8. last = <<o>>
  BY <1>7, SeqEqual
<1>9. x.outcomes \o <<o>> = Append(x.outcomes, o)
  BY <1>1, AppendIsConcat
<1>10. QED BY <1>2, <1>4, <1>8, <1>9 DEF All

(* Another call settles, and is recorded or not.                           *)
LEMMA ExtendsLonger ==
  ASSUME NEW recent, NEW x \in Floor, NEW calls \in Seq(Outcome), NEW o \in Outcome,
         Extends(recent, x, calls)
  PROVE  /\ Extends(recent, x, Append(calls, o))
         /\ Extends(LastOf(Append(recent, o), MaxRecent), x, Append(calls, o))
<1>1. /\ Len(calls) \in Nat /\ x.calls \in Nat
      /\ x.outcomes \in Seq(Outcome) /\ MaxRecent \in Nat \ {0}
  BY LenProperties, RecentFacts, NumbersAssumption DEF Floor
<1>2. PICK k \in 0..(Len(calls) - x.calls) :
        \E f \in Increasing(k, (x.calls + 1)..Len(calls)) :
           recent = LastOf(x.outcomes \o [i \in 1..k |-> calls[f[i]]], MaxRecent)
  BY DEF Extends
<1>3. PICK f \in Increasing(k, (x.calls + 1)..Len(calls)) :
        recent = LastOf(x.outcomes \o [i \in 1..k |-> calls[f[i]]], MaxRecent)
  BY <1>2
<1>4. PICK longer : longer = Append(calls, o)
  OBVIOUS
<1>5. /\ longer \in Seq(Outcome) /\ Len(longer) = Len(calls) + 1
      /\ longer[Len(calls) + 1] = o /\ \A i \in 1..Len(calls) : longer[i] = calls[i]
  BY <1>4, AppendProperties
<1>6. /\ k \in Nat /\ f \in [1..k -> (x.calls + 1)..Len(calls)]
      /\ \A i, j \in 1..k : i < j => f[i] < f[j]
  BY <1>1, <1>2 DEF Increasing
<1>7. PICK new : new = [i \in 1..k |-> calls[f[i]]]
  OBVIOUS
<1>8. \A i \in 1..k : f[i] \in Nat /\ x.calls + 1 <= f[i] /\ f[i] <= Len(calls)
  BY <1>1, <1>6
<1>9. new \in Seq(Outcome) /\ Len(new) = k
  <2>1. \A i \in 1..k : calls[f[i]] \in Outcome
    BY <1>1, <1>8, ElementOfSeq
  <2>2. new \in [1..k -> Outcome]
    BY <1>7, <2>1
  <2>3. QED BY <1>6, <2>2
<1>10. new = [i \in 1..k |-> longer[f[i]]]
  <2>1. \A i \in 1..k : longer[f[i]] = calls[f[i]]
    BY <1>1, <1>5, <1>8
  <2>2. QED BY <1>7, <2>1
<1>11. Extends(recent, x, longer)
  <2>1. f \in Increasing(k, (x.calls + 1)..Len(longer))
    BY <1>1, <1>5, <1>6 DEF Increasing
  <2>2. k \in 0..(Len(longer) - x.calls)
    BY <1>1, <1>2, <1>5
  <2>3. recent = LastOf(x.outcomes \o [i \in 1..k |-> longer[f[i]]], MaxRecent)
    BY <1>3, <1>7, <1>10
  <2>4. QED BY <2>1, <2>2, <2>3 DEF Extends
<1>12. Extends(LastOf(Append(recent, o), MaxRecent), x, longer)
  <2> DEFINE g == [i \in 1..(k + 1) |-> IF i = k + 1 THEN Len(calls) + 1 ELSE f[i]]
             more == [i \in 1..(k + 1) |-> longer[g[i]]]
  <2>1. g \in Increasing(k + 1, (x.calls + 1)..Len(longer))
    <3>1. \A i \in 1..(k + 1) : g[i] \in (x.calls + 1)..Len(longer)
      <4>1. ASSUME NEW i \in 1..(k + 1) PROVE g[i] \in (x.calls + 1)..Len(longer)
        <5>1. CASE i = k + 1
          BY <1>1, <1>2, <1>5, <5>1
        <5>2. CASE i # k + 1
          <6>1. i \in 1..k /\ g[i] = f[i]
            BY <1>6, <5>2
          <6>2. QED BY <1>1, <1>5, <1>8, <6>1
        <5>3. QED BY <5>1, <5>2
      <4>2. QED BY <4>1
    <3>2. ASSUME NEW i \in 1..(k + 1), NEW j \in 1..(k + 1), i < j PROVE g[i] < g[j]
      <4>1. i \in 1..k /\ g[i] = f[i]
        BY <1>6, <3>2
      <4>2. CASE j = k + 1
        BY <1>1, <1>8, <4>1, <4>2
      <4>3. CASE j # k + 1
        <5>1. j \in 1..k /\ g[j] = f[j]
          BY <1>6, <4>3
        <5>2. QED BY <1>6, <3>2, <4>1, <5>1
      <4>4. QED BY <4>2, <4>3
    <3>3. QED BY <3>1, <3>2 DEF Increasing
  <2>2. k + 1 \in 0..(Len(longer) - x.calls)
    BY <1>1, <1>2, <1>5
  <2>3. more = Append(new, o)
    <3>1. PICK next : next = Append(new, o)
      OBVIOUS
    <3>2. /\ next \in Seq(Outcome) /\ Len(next) = k + 1
          /\ next[k + 1] = o /\ \A i \in 1..k : next[i] = new[i]
      BY <1>9, <3>1, AppendProperties
    <3>3. \A i \in 1..(k + 1) : more[i] = next[i]
      <4>1. ASSUME NEW i \in 1..(k + 1) PROVE more[i] = next[i]
        <5>1. CASE i = k + 1
          BY <1>5, <1>6, <3>2, <5>1
        <5>2. CASE i # k + 1
          <6>1. i \in 1..k /\ g[i] = f[i]
            BY <1>6, <5>2
          <6>2. more[i] = longer[f[i]] /\ next[i] = new[i]
            BY <3>2, <6>1
          <6>3. QED BY <1>10, <6>1, <6>2
        <5>3. QED BY <5>1, <5>2
      <4>2. QED BY <4>1
    <3>4. next \in [1..(k + 1) -> Outcome]
      BY <3>2, LenProperties
    <3>5. more = next
      BY <3>3, <3>4
    <3>6. QED BY <3>1, <3>5
  <2> HIDE DEF g
  <2>4. x.outcomes \o more = Append(x.outcomes \o new, o)
    <3>1. x.outcomes \o Append(new, o) = Append(x.outcomes \o new, o)
      <4>1. Append(new, o) = new \o <<o>>
        BY <1>9, AppendIsConcat
      <4>2. <<o>> \in Seq(Outcome)
        OBVIOUS
      <4>3. x.outcomes \o new \in Seq(Outcome)
        BY <1>1, <1>9, ConcatProperties
      <4>4. Append(x.outcomes \o new, o) = (x.outcomes \o new) \o <<o>>
        BY <4>3, AppendIsConcat
      <4>5. \A q, m, n \in Seq(Outcome) : (q \o m) \o n = q \o (m \o n)
        BY ConcatAssociative
      <4>6. (x.outcomes \o new) \o <<o>> = x.outcomes \o (new \o <<o>>)
        <5>1. x.outcomes \in Seq(Outcome) /\ new \in Seq(Outcome)
          BY <1>1, <1>9
        <5>2. QED BY <4>2, <4>5, <5>1, Zenon
      <4>7. QED BY <4>1, <4>4, <4>6, Zenon
    <3>2. QED BY <2>3, <3>1
  <2>5. LastOf(Append(recent, o), MaxRecent) = LastOf(x.outcomes \o more, MaxRecent)
    <3>1. x.outcomes \o new \in Seq(Outcome)
      BY <1>1, <1>9, ConcatProperties
    <3>2. recent = LastOf(x.outcomes \o new, MaxRecent)
      BY <1>3, <1>7
    <3>3. QED BY <1>1, <2>4, <3>1, <3>2, LastOfAppend
  <2>6. QED BY <2>1, <2>2, <2>5 DEF Extends
<1>13. QED BY <1>4, <1>11, <1>12

(***************************************************************************)
(* What the handlers make of a session                                     *)
(***************************************************************************)

LEMMA FreshFacts ==
  ASSUME NEW c \in Catalogs, NEW age \in Nat
  PROVE  [status |-> "active", window |-> c, pending |-> FALSE, outcomes |-> << >>,
          refreshes |-> 0, cooled |-> age, idle |-> 0] \in Session
<1>1. 0 \in 0..(Ttl + 1)
  BY NumbersAssumption
<1>2. QED BY <1>1, RecentFacts DEF Session

LEMMA ListedFacts ==
  ASSUME NEW x \in Session
  PROVE  /\ Listed(x) \in Session
         /\ Listed(x).status = x.status /\ Listed(x).window = x.window
         /\ Listed(x).outcomes = x.outcomes /\ Listed(x).refreshes = x.refreshes
         /\ Listed(x).idle = x.idle
BY DEF Session, Listed

LEMMA TouchedFacts ==
  ASSUME NEW x \in Session
  PROVE  /\ Touched(x) \in Session
         /\ Touched(x).status = x.status /\ Touched(x).window = x.window
         /\ Touched(x).outcomes = x.outcomes /\ Touched(x).refreshes = x.refreshes
         /\ Touched(x).pending = x.pending /\ Touched(x).idle = 0
<1>1. 0 \in 0..(Ttl + 1)
  BY NumbersAssumption
<1>2. QED BY <1>1 DEF Session, Touched

LEMMA RecordedFacts ==
  ASSUME NEW x \in Session, NEW o \in Outcome
  PROVE  /\ Recorded(x, o) \in Session
         /\ Recorded(x, o).status = x.status /\ Recorded(x, o).window = x.window
         /\ Recorded(x, o).outcomes = LastOf(Append(x.outcomes, o), MaxRecent)
         /\ Recorded(x, o).refreshes = x.refreshes
         /\ Recorded(x, o).pending = x.pending /\ Recorded(x, o).idle = x.idle
<1> DEFINE q == Append(x.outcomes, o)
<1>1. x.outcomes \in Seq(Outcome)
  BY RecentFacts DEF Session
<1>2. q \in Seq(Outcome)
  BY <1>1, AppendProperties
<1> HIDE DEF q
<1>3. /\ LastOf(q, MaxRecent) \in Seq(Outcome)
      /\ Len(LastOf(q, MaxRecent)) = Len(q) - Cut(q, MaxRecent)
  BY <1>2, LastFacts, NumbersAssumption
<1>4. Len(q) \in Nat /\ MaxRecent \in Nat
  BY <1>2, LenProperties, NumbersAssumption
<1>5. Len(LastOf(q, MaxRecent)) <= MaxRecent
  BY <1>3, <1>4 DEF Cut
<1>6. LastOf(q, MaxRecent) \in Recent
  BY <1>3, <1>5, RecentFacts
<1>7. QED BY <1>6 DEF Session, Recorded, q

LEMMA RefreshedFacts ==
  ASSUME NEW x \in Session, catalog \in Catalogs
  PROVE  /\ Refreshed(x) \in Session
         /\ Refreshed(x).status = x.status /\ Refreshed(x).outcomes = x.outcomes
         /\ Refreshed(x).refreshes = x.refreshes + 1
         /\ Refreshed(x).pending = TRUE /\ Refreshed(x).idle = x.idle
<1> DEFINE n == x.refreshes + 1
<1>1. n \in Nat /\ 0 \in Nat
  BY DEF Session
<1>2. Refreshed(x) = [x EXCEPT !.window = catalog, !.refreshes = n, !.cooled = 0, !.pending = TRUE]
  BY DEF Refreshed
<1> HIDE DEF n
<1>3. /\ Refreshed(x) \in Session
      /\ Refreshed(x).status = x.status /\ Refreshed(x).outcomes = x.outcomes
      /\ Refreshed(x).refreshes = n
      /\ Refreshed(x).pending = TRUE /\ Refreshed(x).idle = x.idle
  BY <1>1, <1>2 DEF Session
<1>4. QED BY <1>3 DEF n

LEMMA RevokedFacts ==
  ASSUME NEW x \in Session
  PROVE  /\ [x EXCEPT !.status = "revoked"] \in Session
         /\ [x EXCEPT !.status = "revoked"].status = "revoked"
         /\ [x EXCEPT !.status = "revoked"].window = x.window
         /\ [x EXCEPT !.status = "revoked"].outcomes = x.outcomes
         /\ [x EXCEPT !.status = "revoked"].refreshes = x.refreshes
         /\ [x EXCEPT !.status = "revoked"].pending = x.pending
BY DEF Session

LEMMA AgedFacts ==
  ASSUME NEW x \in Session, Cooldown \in Nat
  PROVE  /\ Aged(x) \in Session /\ Aged(NoSession) = NoSession
         /\ Aged(x).status = x.status /\ Aged(x).window = x.window
         /\ Aged(x).outcomes = x.outcomes /\ Aged(x).refreshes = x.refreshes
         /\ Aged(x).pending = x.pending
         /\ Expired(x) => Expired(Aged(x))
<1>1. Ttl \in Nat /\ x.idle \in 0..(Ttl + 1) /\ x.cooled \in Nat /\ x # NoSession
  BY NumbersAssumption, NoneAssumption DEF Session
<1>2. /\ Older(x.idle, Ttl + 1) \in 0..(Ttl + 1)
      /\ Older(x.cooled, Cooldown) \in Nat
      /\ x.idle > Ttl => Older(x.idle, Ttl + 1) > Ttl
  BY <1>1 DEF Older
<1> DEFINE idle == Older(x.idle, Ttl + 1)
           cooled == Older(x.cooled, Cooldown)
<1>3. Aged(x) = [x EXCEPT !.idle = idle, !.cooled = cooled] /\ Aged(NoSession) = NoSession
  BY <1>1 DEF Aged
<1>4. idle \in 0..(Ttl + 1) /\ cooled \in Nat /\ (x.idle > Ttl => idle > Ttl)
  BY <1>2
<1> HIDE DEF idle, cooled
<1>5. QED BY <1>3, <1>4 DEF Session, Expired

(* evaluate() stores what it was given, or that with a new window which is *)
(* announced; nothing where there was nothing.                             *)
Same(x, y) ==
    /\ y.status = x.status /\ y.outcomes = x.outcomes /\ y.idle = x.idle
    /\ y.refreshes >= x.refreshes
    /\ y.pending \/ (y.window = x.window /\ y.pending = x.pending)

LEMMA EvaluateFacts ==
  ASSUME catalog \in Catalogs, NEW s \in Sessions, NEW o,
         NEW x \in Session \cup {NoSession}, Evaluate(s, x, o)
  PROVE  \E y \in Session \cup {NoSession} :
            /\ store' = Put(s, y)
            /\ x = NoSession => y = NoSession
            /\ x # NoSession => y \in Session /\ Same(x, y)
<1>1. CASE x # NoSession /\ Triggered(x, o)
  <2>1. store' = Put(s, Refreshed(x)) /\ x \in Session
    BY <1>1 DEF Evaluate
  <2>2. x.refreshes \in Nat
    BY <2>1 DEF Session
  <2>3. PICK y : y = Refreshed(x)
    OBVIOUS
  <2>4. /\ y \in Session /\ y.status = x.status /\ y.outcomes = x.outcomes
        /\ y.refreshes = x.refreshes + 1 /\ y.pending = TRUE /\ y.idle = x.idle
    BY <2>1, <2>3, RefreshedFacts
  <2>5. Same(x, y)
    BY <2>2, <2>4 DEF Same
  <2>6. QED BY <1>1, <2>1, <2>3, <2>4, <2>5
<1>2. CASE ~(x # NoSession /\ Triggered(x, o))
  <2>1. store' = Put(s, x)
    BY <1>2 DEF Evaluate
  <2>2. ASSUME x \in Session PROVE Same(x, x)
    <3>1. x.refreshes \in Nat
      BY <2>2 DEF Session
    <3>2. QED BY <3>1 DEF Same
  <2>3. QED BY <2>1, <2>2
<1>3. QED BY <1>1, <1>2

(***************************************************************************)
(* What the steps of a request come to                                     *)
(***************************************************************************)

LEMMA CheckingFacts ==
  ASSUME TypeOK, NEW r \in Checking
  PROVE  /\ r \in Requests /\ request[r] \in Request /\ request[r] # NoRequest
         /\ request[r].session \in Sessions /\ request[r].seen \in Session
         /\ request[r].at = "call" =>
              request[r].tool \in Tools /\ \A o \in Outcomes(r) : o \in Outcome
<1>1. r \in Requests /\ request[r] \in Request /\ request[r].at \in {"list", "call"}
  BY DEF Checking, TypeOK
<1>2. request[r].session \in Sessions /\ request[r].seen \in Session
  BY <1>1 DEF Request
<1>3. request[r].at = "call" => request[r].tool \in Tools
  BY <1>1 DEF Request
<1>4. ASSUME request[r].tool \in Tools, NEW o \in Outcomes(r) PROVE o \in Outcome
  BY <1>4 DEF Outcomes, Outcome
<1>5. QED BY <1>1, <1>2, <1>3, <1>4, NoneAssumption

LEMMA DownstreamFacts ==
  ASSUME TypeOK, NEW r \in Downstream
  PROVE  /\ r \in Requests /\ request[r] \in Request
         /\ request[r].session \in Sessions /\ request[r].tool \in Tools
         /\ \A o \in Outcomes(r) : o \in Outcome
<1>1. r \in Requests /\ request[r] \in Request /\ request[r].at = "downstream"
  BY DEF Downstream, TypeOK
<1>2. request[r].session \in Sessions /\ request[r].tool \in Tools
  BY <1>1 DEF Request
<1>3. ASSUME NEW o \in Outcomes(r) PROVE o \in Outcome
  BY <1>2 DEF Outcomes, Outcome
<1>4. QED BY <1>1, <1>2, <1>3

(* Session s has y for x: nothing is recorded, or one outcome is.          *)
Records(s, x, y) ==
    \/ done' = done /\ y.outcomes = x.outcomes
    \/ \E o \in Outcome :
         /\ done' = [done EXCEPT ![s] = Append(@, o)]
         /\ y.outcomes = LastOf(Append(x.outcomes, o), MaxRecent)

(* A window other than that of x is announced; or the client is told the   *)
(* window of y, unless another request of the session is being checked.    *)
Announces(r, s, x, y) ==
    \/ told' = told /\ (y.pending \/ (y.window = x.window /\ y.pending = x.pending))
    \/ told' = [told EXCEPT ![s] = NoWindow]
    \/ /\ told' = [told EXCEPT ![s] = y.window]
       /\ \A q \in Checking \ {r} : request[q].session # s

(* A request that has passed its check is answered or sent downstream.     *)
Served(r) ==
    LET s == request[r].session
        x == request[r].seen
    IN  /\ \E y \in Session :
              /\ store' = Put(s, y)
              /\ y.idle = x.idle /\ y.status = x.status /\ y.refreshes >= x.refreshes
              /\ Records(s, x, y) /\ Announces(r, s, x, y)
        /\ \/ request' = [request EXCEPT ![r] = NoRequest]
           \/ \E t \in Tools :
                request' = [request EXCEPT ![r] = [at |-> "downstream", session |-> s, tool |-> t]]
        /\ UNCHANGED <<catalog, ended>>

LEMMA SameAfter ==
  ASSUME NEW x \in Session, NEW y \in Session, NEW z \in Session, Same(y, z),
         y.status = x.status, y.refreshes = x.refreshes, y.window = x.window,
         y.pending = x.pending
  PROVE  /\ z.status = x.status /\ z.refreshes >= x.refreshes
         /\ z.pending \/ (z.window = x.window /\ z.pending = x.pending)
         /\ z.outcomes = y.outcomes /\ z.idle = y.idle
BY DEF Same

LEMMA ResumeServes ==
  ASSUME TypeOK, Resume
  PROVE  \E r \in Checking : Reject(r) \/ Served(r)
<1>1. PICK r \in Requests :
        Reject(r) \/ FinishList(r) \/ Deny(r) \/ Unavailable(r) \/ Offline(r) \/ Dispatch(r)
  BY DEF Resume
<1>2. r \in Checking /\ catalog \in Catalogs
  BY <1>1 DEF Reject, FinishList, Deny, Unavailable, Offline, Dispatch, TypeOK
<1> DEFINE s == request[r].session
           x == request[r].seen
<1>3. s \in Sessions /\ x \in Session /\ x.refreshes \in Nat
  BY <1>2, CheckingFacts DEF Session
<1>4. request[r].at = "call" => request[r].tool \in Tools /\ \A o \in Outcomes(r) : o \in Outcome
  BY <1>2, CheckingFacts
<1>6. Checked(r) = x
  BY DEF Checked
<1> SUFFICES ASSUME ~Reject(r) PROVE Served(r)
  BY <1>2
<1>7. CASE FinishList(r)
  <2>1. PICK y : y = Listed(x)
    OBVIOUS
  <2>2. /\ y \in Session /\ y.idle = x.idle /\ y.status = x.status /\ y.refreshes >= x.refreshes
        /\ y.outcomes = x.outcomes /\ y.window = x.window
    BY <1>3, <2>1, ListedFacts
  <2>3. /\ store' = Put(s, y) /\ done' = done
        /\ told' = [told EXCEPT ![s] = IF \A q \in Checking \ {r} : request[q].session # s
                                       THEN x.window ELSE NoWindow]
        /\ request' = [request EXCEPT ![r] = NoRequest] /\ UNCHANGED <<catalog, ended>>
    BY <1>7, <2>1 DEF FinishList
  <2>4. Announces(r, s, x, y)
    <3>1. CASE \A q \in Checking \ {r} : request[q].session # s
      BY <2>2, <2>3, <3>1 DEF Announces
    <3>2. CASE ~ \A q \in Checking \ {r} : request[q].session # s
      BY <2>3, <3>2 DEF Announces
    <3>3. QED BY <3>1, <3>2
  <2>5. Records(s, x, y)
    BY <2>2, <2>3 DEF Records
  <2>6. QED BY <2>2, <2>3, <2>4, <2>5 DEF Served
<1>8. ASSUME NEW y \in Session, y.idle = x.idle, y.status = x.status, y.refreshes >= x.refreshes,
             y.pending \/ (y.window = x.window /\ y.pending = x.pending),
             store' = Put(s, y), Records(s, x, y), told' = told,
             \/ request' = [request EXCEPT ![r] = NoRequest]
             \/ \E t \in Tools :
                  request' = [request EXCEPT ![r] = [at |-> "downstream", session |-> s, tool |-> t]],
             UNCHANGED <<catalog, ended>>
      PROVE  Served(r)
  <2>1. Announces(r, s, x, y)
    BY <1>8 DEF Announces
  <2>2. QED BY <1>8, <2>1 DEF Served
<1>9. CASE Deny(r) \/ Dispatch(r)
  <2>1. PICK y : y = x
    OBVIOUS
  <2>2. y.refreshes >= x.refreshes
    BY <1>3, <2>1
  <2>3. store' = Put(s, y) /\ told' = told /\ done' = done /\ UNCHANGED <<catalog, ended>>
    BY <1>6, <1>9, <2>1 DEF Deny, Dispatch
  <2>4. Records(s, x, y)
    BY <2>1, <2>3 DEF Records
  <2>5. \/ request' = [request EXCEPT ![r] = NoRequest]
        \/ \E t \in Tools :
             request' = [request EXCEPT ![r] = [at |-> "downstream", session |-> s, tool |-> t]]
    BY <1>4, <1>9 DEF Deny, Dispatch, Leave
  <2>6. QED BY <1>3, <1>8, <2>1, <2>2, <2>3, <2>4, <2>5
<1>10. CASE Unavailable(r)
  <2>1. PICK o \in Outcomes(r) : Evaluate(s, x, o)
    BY <1>6, <1>10 DEF Unavailable
  <2>2. x # NoSession
    BY <1>3, NoneAssumption
  <2>3. PICK y \in Session : store' = Put(s, y) /\ Same(x, y)
    BY <1>2, <1>3, <2>1, <2>2, EvaluateFacts
  <2>4. /\ y.status = x.status /\ y.refreshes >= x.refreshes /\ y.outcomes = x.outcomes
        /\ y.pending \/ (y.window = x.window /\ y.pending = x.pending)
        /\ y.idle = x.idle
    BY <1>3, <2>3, SameAfter
  <2>5. /\ told' = told /\ done' = done /\ UNCHANGED <<catalog, ended>>
        /\ request' = [request EXCEPT ![r] = NoRequest]
    BY <1>10 DEF Unavailable, Leave
  <2>6. Records(s, x, y)
    BY <2>4, <2>5 DEF Records
  <2>7. QED BY <1>8, <2>3, <2>4, <2>5, <2>6
<1>11. CASE Offline(r)
  <2>1. PICK o \in Outcomes(r) :
          /\ Evaluate(s, Recorded(x, o), o)
          /\ done' = [done EXCEPT ![s] = Append(@, o)]
    BY <1>6, <1>11 DEF Offline
  <2>2. o \in Outcome
    BY <1>4, <1>11, <2>1 DEF Offline
  <2>3. PICK z : z = Recorded(x, o)
    OBVIOUS
  <2>4. /\ z \in Session /\ z.status = x.status /\ z.window = x.window
        /\ z.outcomes = LastOf(Append(x.outcomes, o), MaxRecent)
        /\ z.refreshes = x.refreshes /\ z.pending = x.pending /\ z.idle = x.idle
    BY <1>3, <2>2, <2>3, RecordedFacts
  <2>5. z # NoSession /\ Evaluate(s, z, o)
    BY <2>1, <2>3, <2>4, NoneAssumption
  <2>6. PICK y \in Session : store' = Put(s, y) /\ Same(z, y)
    BY <1>2, <1>3, <2>4, <2>5, EvaluateFacts
  <2>7. /\ y.status = x.status /\ y.refreshes >= x.refreshes /\ y.outcomes = z.outcomes
        /\ y.pending \/ (y.window = x.window /\ y.pending = x.pending)
        /\ y.idle = x.idle
    BY <1>3, <2>4, <2>6, SameAfter
  <2>8. /\ told' = told /\ UNCHANGED <<catalog, ended>>
        /\ request' = [request EXCEPT ![r] = NoRequest]
    BY <1>11 DEF Offline, Leave
  <2>9. Records(s, x, y)
    BY <2>1, <2>2, <2>4, <2>7 DEF Records
  <2>10. QED BY <1>8, <2>6, <2>7, <2>8, <2>9
<1>12. QED BY <1>1, <1>7, <1>9, <1>10, <1>11

(* The downstream call of r settles.                                       *)
Completed(r) ==
    LET s == request[r].session
        x == store[s]
    IN  /\ \E o \in Outcome :
              /\ done' = [done EXCEPT ![s] = Append(@, o)]
              /\ \/ Get(s) = NoSession /\ store' = Put(s, NoSession)
                 \/ /\ Get(s) # NoSession
                    /\ \E y \in Session :
                         /\ store' = Put(s, y)
                         /\ y.idle = x.idle /\ y.status = x.status /\ y.refreshes >= x.refreshes
                         /\ y.pending \/ (y.window = x.window /\ y.pending = x.pending)
                         /\ y.outcomes = LastOf(Append(x.outcomes, o), MaxRecent)
        /\ request' = [request EXCEPT ![r] = NoRequest]
        /\ UNCHANGED <<catalog, told, ended>>

LEMMA CompleteCompletes ==
  ASSUME TypeOK, NEW r \in Requests, Complete(r)
  PROVE  r \in Downstream /\ Completed(r)
<1> DEFINE s == request[r].session
           x == store[s]
<1>1. r \in Downstream /\ catalog \in Catalogs
  BY DEF Complete, TypeOK
<1>2. s \in Sessions /\ \A o \in Outcomes(r) : o \in Outcome
  BY <1>1, DownstreamFacts
<1>3. x \in Session \cup {NoSession}
  BY <1>2 DEF TypeOK
<1>4. PICK o \in Outcomes(r) :
        /\ Evaluate(s, IF Get(s) = NoSession THEN NoSession ELSE Recorded(Get(s), o), o)
        /\ done' = [done EXCEPT ![s] = Append(@, o)]
  BY DEF Complete
<1>5. /\ request' = [request EXCEPT ![r] = NoRequest]
      /\ UNCHANGED <<catalog, told, ended>>
  BY DEF Complete, Leave
<1>6. CASE Get(s) = NoSession
  <2>1. Evaluate(s, NoSession, o)
    BY <1>4, <1>6
  <2>2. store' = Put(s, NoSession)
    BY <2>1 DEF Evaluate
  <2>3. QED BY <1>1, <1>2, <1>4, <1>5, <1>6, <2>2 DEF Completed
<1>7. CASE Get(s) # NoSession
  <2>1. Get(s) = x /\ x \in Session /\ x.refreshes \in Nat
    BY <1>3, <1>7 DEF Get, Session
  <2>2. PICK z : z = Recorded(x, o)
    OBVIOUS
  <2>3. /\ z \in Session /\ z.status = x.status /\ z.window = x.window
        /\ z.outcomes = LastOf(Append(x.outcomes, o), MaxRecent)
        /\ z.refreshes = x.refreshes /\ z.pending = x.pending /\ z.idle = x.idle
    BY <1>2, <2>1, <2>2, RecordedFacts
  <2>4. Evaluate(s, z, o) /\ z # NoSession
    BY <1>4, <1>7, <2>1, <2>2, <2>3, NoneAssumption
  <2>5. PICK y \in Session : store' = Put(s, y) /\ Same(z, y)
    BY <1>1, <1>2, <2>3, <2>4, EvaluateFacts
  <2>6. /\ y.status = x.status /\ y.refreshes >= x.refreshes /\ y.outcomes = z.outcomes
        /\ y.pending \/ (y.window = x.window /\ y.pending = x.pending)
        /\ y.idle = x.idle
    BY <2>1, <2>3, <2>5, SameAfter
  <2>7. QED BY <1>1, <1>2, <1>4, <1>5, <1>7, <2>3, <2>5, <2>6 DEF Completed
<1>8. QED BY <1>6, <1>7

-----------------------------------------------------------------------------
(***************************************************************************)
(* Types                                                                   *)
(***************************************************************************)

LEMMA RequestFacts ==
  ASSUME NEW s \in Sessions
  PROVE  /\ \A x \in Session :
              /\ [at |-> "list", session |-> s, seen |-> x] \in Request
              /\ \A t \in Tools : [at |-> "call", session |-> s, tool |-> t, seen |-> x] \in Request
         /\ \A t \in Tools : [at |-> "downstream", session |-> s, tool |-> t] \in Request
BY DEF Request

LEMMA SeenAged ==
  ASSUME NEW x \in Request, x.at \in {"list", "call"}, Cooldown \in Nat
  PROVE  [x EXCEPT !.seen = Touched(Aged(@))] \in Request
<1>1. x.seen \in Session
  BY DEF Request
<1>2. Aged(x.seen) \in Session
  BY <1>1, AgedFacts
<1>3. Touched(Aged(x.seen)) \in Session
  BY <1>2, TouchedFacts
<1>4. QED BY <1>3 DEF Request

(* The types of what the steps change, the history of the floor apart.     *)
Typed ==
    /\ store \in [Sessions -> Session \cup {NoSession}]
    /\ request \in [Requests -> Request \cup {NoRequest}]
    /\ catalog \in Catalogs
    /\ told \in [Sessions -> Catalogs \cup {NoWindow}]
    /\ done \in [Sessions -> Seq(Outcome)]
    /\ ended \subseteq Sessions

LEMMA StepTyped ==
  ASSUME TypeOK, Resume \/ Step
  PROVE  Typed'
<1>1. Typed /\ Cooldown \in Nat
  BY SettingsAssumption DEF TypeOK, Cooldown, Typed
<1>2. CASE Resume
  <2>1. PICK r \in Checking : Reject(r) \/ Served(r)
    BY <1>1, <1>2, ResumeServes
  <2>2. r \in Requests /\ request[r].session \in Sessions /\ request[r].seen \in Session
    BY <2>1, CheckingFacts
  <2>3. CASE Reject(r)
    BY <1>1, <2>3 DEF Reject, TypeOK, Typed
  <2>4. CASE Served(r)
    <3> DEFINE s == request[r].session
    <3>1. PICK y \in Session :
            store' = Put(s, y) /\ Records(s, request[r].seen, y) /\ Announces(r, s, request[r].seen, y)
      BY <2>4 DEF Served
    <3>2. store' \in [Sessions -> Session \cup {NoSession}]
      BY <3>1, <2>2 DEF Put, TypeOK, Typed
    <3>3. done' \in [Sessions -> Seq(Outcome)]
      <4>1. CASE done' = done
        BY <4>1 DEF TypeOK, Typed
      <4>2. ASSUME NEW o \in Outcome, done' = [done EXCEPT ![s] = Append(@, o)]
            PROVE  done' \in [Sessions -> Seq(Outcome)]
        <5>1. done[s] \in Seq(Outcome)
          BY <2>2 DEF TypeOK, Typed
        <5>2. Append(done[s], o) \in Seq(Outcome)
          BY <5>1, AppendProperties
        <5>3. QED BY <4>2, <5>2 DEF TypeOK, Typed
      <4>3. QED BY <3>1, <4>1, <4>2 DEF Records
    <3>4. told' \in [Sessions -> Catalogs \cup {NoWindow}]
      <4>1. y.window \in Catalogs
        BY <3>1 DEF Session
      <4>2. QED BY <3>1, <4>1, <2>2 DEF Announces, TypeOK, Typed
    <3>5. request' \in [Requests -> Request \cup {NoRequest}]
      <4>1. \A t \in Tools : [at |-> "downstream", session |-> s, tool |-> t] \in Request
        BY <2>2, RequestFacts
      <4>2. QED BY <2>2, <2>4, <4>1 DEF Served, TypeOK, Typed
    <3>6. QED BY <1>1, <2>4, <3>2, <3>3, <3>4, <3>5 DEF Served, TypeOK, Typed
  <2>5. QED BY <2>1, <2>3, <2>4
<1>3. ASSUME NEW s \in Sessions, Initialize(s) PROVE Typed'
  <2>1. [status |-> "active", window |-> catalog, pending |-> FALSE, outcomes |-> << >>,
         refreshes |-> 0, cooled |-> Cooldown, idle |-> 0] \in Session
    BY <1>1, FreshFacts DEF TypeOK, Typed
  <2>2. QED BY <1>1, <1>3, <2>1 DEF Initialize, Put, TypeOK, Typed
<1>4. ASSUME NEW s \in Sessions, NEW r \in Requests,
             BeginList(r, s) \/ \E t \in Tools : BeginCall(r, s, t)
      PROVE  Typed'
  <2>1. store[s] \in Session
    BY <1>4 DEF BeginList, BeginCall, Usable, Get, TypeOK, Typed
  <2>2. PICK x \in Request : request' = [request EXCEPT ![r] = x]
    <3>1. Touched(store[s]) \in Session
      BY <2>1, TouchedFacts
    <3>2. QED BY <1>4, <3>1, RequestFacts DEF BeginList, BeginCall
  <2>3. UNCHANGED <<store, catalog, told, done, ended>>
    BY <1>4 DEF BeginList, BeginCall
  <2>4. QED BY <1>1, <2>2, <2>3 DEF TypeOK, Typed
<1>5. ASSUME NEW s \in Sessions, Revoke(s) PROVE Typed'
  <2>1. store[s] \in Session
    BY <1>5 DEF Revoke, Get, TypeOK, Typed
  <2>2. [store[s] EXCEPT !.status = "revoked"] \in Session
    BY <2>1, RevokedFacts
  <2>3. QED BY <1>1, <1>5, <2>2 DEF Revoke, Put, TypeOK, Typed
<1>6. ASSUME NEW s \in Sessions, Expire(s) PROVE Typed'
  BY <1>1, <1>6 DEF Expire, Put, TypeOK, Typed
<1>7. ASSUME NEW r \in Requests, Complete(r) PROVE Typed'
  <2>1. r \in Downstream /\ Completed(r)
    BY <1>1, <1>7, CompleteCompletes
  <2> DEFINE s == request[r].session
  <2>2. s \in Sessions
    BY <2>1, DownstreamFacts
  <2>3. PICK o \in Outcome : done' = [done EXCEPT ![s] = Append(@, o)]
    BY <2>1 DEF Completed
  <2>4. PICK y \in Session \cup {NoSession} : store' = Put(s, y)
    BY <2>1 DEF Completed
  <2>5. Append(done[s], o) \in Seq(Outcome)
    <3>1. done[s] \in Seq(Outcome)
      BY <2>2 DEF TypeOK, Typed
    <3>2. QED BY <3>1, AppendProperties
  <2>6. done' \in [Sessions -> Seq(Outcome)]
    BY <2>3, <2>5 DEF TypeOK, Typed
  <2>7. store' \in [Sessions -> Session \cup {NoSession}]
    BY <2>2, <2>4 DEF Put, TypeOK, Typed
  <2>8. request' = [request EXCEPT ![r] = NoRequest] /\ UNCHANGED <<catalog, told, ended>>
    BY <2>1 DEF Completed
  <2>9. QED BY <1>1, <2>6, <2>7, <2>8 DEF TypeOK, Typed
<1>8. ASSUME NEW c \in Catalogs, Publish(c) PROVE Typed'
  BY <1>1, <1>8 DEF Publish, TypeOK, Typed
<1>9. CASE Crash
  BY <1>1, <1>9 DEF Crash, TypeOK, Typed
<1>10. CASE Tick
  <2>1. \A x \in Session \cup {NoSession} : Aged(x) \in Session \cup {NoSession}
    BY <1>1, AgedFacts DEF Aged
  <2>2. store' \in [Sessions -> Session \cup {NoSession}]
    BY <1>10, <2>1 DEF Tick, TypeOK, Typed
  <2>3. ASSUME NEW r \in Checking PROVE [request[r] EXCEPT !.seen = Touched(Aged(@))] \in Request
    <3>1. request[r] \in Request /\ request[r].at \in {"list", "call"}
      BY CheckingFacts DEF Checking
    <3>2. QED BY <1>1, <3>1, SeenAged
  <2>4. request' \in [Requests -> Request \cup {NoRequest}]
    BY <1>10, <2>3 DEF Tick, TypeOK, Typed
  <2>5. QED BY <1>1, <1>10, <2>2, <2>4 DEF Tick, TypeOK, Typed
<1>11. QED
  BY <1>2, <1>3, <1>4, <1>5, <1>6, <1>7, <1>8, <1>9, <1>10 DEF Step, Begin

LEMMA StandingTyped ==
  ASSUME NEW s \in Sessions, Typed'
  PROVE  Standing(s)' \in Floor \cup {NoSession}
<1>1. CASE store'[s] # NoSession
  <2>1. store'[s] \in Session /\ Len(done'[s]) \in Nat
    BY <1>1, LenProperties DEF Typed
  <2>2. Usable(s)' \in BOOLEAN
    BY DEF Usable
  <2>3. Standing(s)' = [open |-> Usable(s)', refreshes |-> store'[s].refreshes,
                        outcomes |-> store'[s].outcomes, calls |-> Len(done'[s])]
    BY <1>1 DEF Standing
  <2>4. store'[s].refreshes \in Nat /\ store'[s].outcomes \in Recent
    BY <2>1 DEF Session
  <2>5. QED BY <2>1, <2>2, <2>3, <2>4 DEF Floor
<1>2. QED BY <1>1 DEF Standing

LEMMA TypeStep ==
  ASSUME TypeOK, Next
  PROVE  TypeOK'
<1>1. (Resume \/ Step) /\ Observe
  BY DEF Next
<1>2. Typed'
  BY <1>1, StepTyped
<1>3. \A s \in Sessions : Standing(s)' \in Floor \cup {NoSession}
  BY <1>2, StandingTyped
<1>4. floor' \in [Sessions -> Floor \cup {NoSession}] /\ settings' \in Settings
  BY <1>1, <1>3 DEF Observe, TypeOK
<1>5. QED BY <1>2, <1>4 DEF TypeOK, Typed

LEMMA TypeInit == Init => TypeOK
<1>1. << >> \in Seq(Outcome)
  BY EmptySeq
<1>2. QED BY <1>1 DEF Init, TypeOK

(* The type invariant.                                                     *)
THEOREM SessionTypes == Spec => []TypeOK
<1>1. TypeOK /\ UNCHANGED vars => TypeOK'
  BY DEF TypeOK, vars
<1>2. QED BY <1>1, TypeInit, TypeStep, PTL DEF Spec

-----------------------------------------------------------------------------
(***************************************************************************)
(* The inductive invariant                                                 *)
(***************************************************************************)

Lapsed == \A s \in Sessions : store[s] # NoSession /\ Expired(store[s]) => s \in ended

(* Of a session that neither is stored nor has ended nothing has happened. *)
Untouched ==
    \A s \in Sessions : store[s] = NoSession /\ s \notin ended => done[s] = << >> /\ told[s] = NoWindow

Awaited ==
    \A r \in Requests :
        request[r] # NoRequest =>
            store[request[r].session] # NoSession \/ request[r].session \in ended

SeenFresh == \A r \in Checking : request[r].seen.idle = 0

(* What a handler is to write back announces a change as what is stored.   *)
SeenAnnounced ==
    \A r \in Checking :
        LET s == request[r].session
        IN  told[s] # NoWindow /\ told[s] # request[r].seen.window => request[r].seen.pending

OpenWhenBusy == \A r \in Checking : Open(floor[request[r].session])

FloorStands == \A s \in Sessions : s \notin Busy => floor[s] = Standing(s)

(* Session s with the value x has kept what it had at its floor.           *)
Follows(s, x) ==
    x.refreshes >= floor[s].refreshes /\ Extends(x.outcomes, floor[s], done[s])

StoreFollows ==
    \A s \in Sessions : store[s] # NoSession /\ floor[s] # NoSession => Follows(s, store[s])

SeenFollows == \A r \in Checking : Follows(request[r].session, request[r].seen)

SessionInv ==
    /\ TypeOK /\ Lapsed /\ Untouched /\ Awaited /\ SeenFresh
    /\ ChangeAnnounced /\ SeenAnnounced
    /\ OpenWhenBusy /\ FloorStands /\ StoreFollows /\ SeenFollows

LEMMA InitSession == Init => SessionInv
<1> SUFFICES ASSUME Init PROVE SessionInv
  OBVIOUS
<1>1. TypeOK /\ Checking = {} /\ Busy = {}
  BY TypeInit DEF Init, Checking, Busy
<1>2. \A s \in Sessions : /\ store[s] = NoSession /\ done[s] = << >> /\ told[s] = NoWindow
                          /\ floor[s] = NoSession
  BY DEF Init
<1>3. \A r \in Requests : request[r] = NoRequest
  BY DEF Init
<1>4. FloorStands
  BY <1>2 DEF FloorStands, Standing
<1>5. QED
  BY <1>1, <1>2, <1>3, <1>4 DEF SessionInv, Lapsed, Untouched, Awaited, SeenFresh,
     ChangeAnnounced, SeenAnnounced, OpenWhenBusy, StoreFollows, SeenFollows

(***************************************************************************)
(* What any step comes to                                                  *)
(***************************************************************************)

Settled(s) == done'[s] = done[s] \/ \E o \in Outcome : done'[s] = Append(done[s], o)

Created(s) ==
    /\ store[s] = NoSession /\ s \notin ended
    /\ done'[s] = done[s] /\ told'[s] = told[s]
    /\ ~Expired(store'[s])

(* Session s has y for x: it is no younger and has lost nothing, and what  *)
(* its client does not know is announced.                                  *)
MadeFrom(s, x, y) ==
    /\ y.status = "active" => x.status = "active"
    /\ Expired(x) => Expired(y)
    /\ y.refreshes >= x.refreshes
    /\ \/ done'[s] = done[s] /\ y.outcomes = x.outcomes
       \/ \E o \in Outcome :
            /\ done'[s] = Append(done[s], o)
            /\ y.outcomes = LastOf(Append(x.outcomes, o), MaxRecent)
    /\ \/ told'[s] \in {NoWindow, y.window}
       \/ told'[s] = told[s] /\ (y.pending \/ (y.window = x.window /\ y.pending = x.pending))

(* ... and x is what was stored or what a handler was to write back.       *)
Source(s, x) ==
    \/ x = store[s]
    \/ \E r \in Checking : request[r].session = s /\ x = request[r].seen

Moved(s) ==
    /\ Settled(s)
    /\ store'[s] = NoSession =>
          IF store[s] = NoSession
          THEN s \in ended' \/ (done'[s] = done[s] /\ told'[s] = told[s])
          ELSE s \in ended'
    /\ store'[s] # NoSession =>
          /\ Expired(store'[s]) => s \in ended'
          /\ Created(s) \/ \E x \in Session : Source(s, x) /\ MadeFrom(s, x, store'[s])

Alike(x, y) ==
    /\ x.outcomes = y.outcomes /\ x.refreshes = y.refreshes
    /\ x.window = y.window /\ x.pending = y.pending

(* Request r goes on, or begins with what is stored.                       *)
Carried(r) ==
    LET s == request'[r].session
    IN  /\ s \in Sessions
        /\ \/ /\ request[r] # NoRequest /\ request[r].session = s
              /\ r \in Checking' => r \in Checking /\ Alike(request'[r].seen, request[r].seen)
           \/ /\ Usable(s) /\ store'[s] = store[s] /\ done'[s] = done[s] /\ told'[s] = told[s]
              /\ r \in Checking' => Alike(request'[r].seen, store[s])
        /\ r \in Checking' =>
              /\ request'[r].seen.idle = 0
              /\ told'[s] = told[s] \/ told'[s] = NoWindow

Effect ==
    /\ ended \subseteq ended'
    /\ \A s \in Sessions : Moved(s)
    /\ \A r \in Requests : request'[r] # NoRequest => Carried(r)

(***************************************************************************)
(* A step with such an effect keeps the invariant                          *)
(***************************************************************************)

LEMMA UsableFacts ==
  ASSUME TypeOK, NEW s \in Sessions, Usable(s)
  PROVE  store[s] \in Session /\ store[s] # NoSession /\ ~Expired(store[s]) /\ store[s].status = "active"
BY NoneAssumption DEF Usable, Get, TypeOK

LEMMA BusyFacts ==
  ASSUME SessionInv, NEW s \in Sessions
  PROVE  /\ s \in Busy => floor[s] \in Floor /\ floor[s] # NoSession /\ Open(floor[s])
         /\ s \notin Busy => floor[s] = Standing(s)
         /\ Usable(s) => Open(floor[s]) /\ floor[s] \in Floor /\ floor[s] # NoSession
         /\ floor[s] # NoSession => floor[s] \in Floor
<1>1. TypeOK /\ floor[s] \in Floor \cup {NoSession}
  BY DEF SessionInv, TypeOK
<1>2. s \in Busy => Open(floor[s])
  BY DEF SessionInv, OpenWhenBusy, Busy
<1>3. s \notin Busy => floor[s] = Standing(s)
  BY DEF SessionInv, FloorStands
<1>4. ASSUME Usable(s), s \notin Busy PROVE Open(floor[s])
  <2>1. store[s] # NoSession
    BY <1>1, <1>4, UsableFacts
  <2>2. Standing(s) = [open |-> Usable(s), refreshes |-> store[s].refreshes,
                       outcomes |-> store[s].outcomes, calls |-> Len(done[s])]
    BY <2>1 DEF Standing
  <2>3. Standing(s) \in Floor \cup {NoSession}
    BY <1>1, <1>3, <1>4
  <2>4. Standing(s) # NoSession
    <3>1. store[s] \in Session /\ done[s] \in Seq(Outcome)
      BY <1>1, <2>1 DEF TypeOK
    <3>2. Len(done[s]) \in Nat /\ store[s].refreshes \in Nat /\ store[s].outcomes \in Recent
      BY <3>1, LenProperties DEF Session
    <3>3. Usable(s) \in BOOLEAN
      BY DEF Usable
    <3>4. Standing(s) \in Floor
      BY <2>2, <3>2, <3>3 DEF Floor
    <3>5. QED BY <3>4, NoFloorAssumption
  <2>5. Standing(s).open
    BY <1>4, <2>2
  <2>6. QED BY <1>3, <1>4, <2>4, <2>5 DEF Open
<1>5. QED BY <1>1, <1>2, <1>3, <1>4 DEF Open

(* What a session is made from has followed the floor, and so does it.     *)
LEMMA MadeFollows ==
  ASSUME SessionInv, NEW s \in Sessions, NEW x \in Session, NEW y \in Session,
         floor[s] # NoSession, Follows(s, x), MadeFrom(s, x, y)
  PROVE  y.refreshes >= floor[s].refreshes /\ Extends(y.outcomes, floor[s], done'[s])
<1>1. floor[s] \in Floor /\ done[s] \in Seq(Outcome)
  BY BusyFacts DEF SessionInv, TypeOK
<1>2. y.refreshes >= floor[s].refreshes
  <2>1. y.refreshes \in Nat /\ x.refreshes \in Nat /\ floor[s].refreshes \in Nat
    BY <1>1 DEF Session, Floor
  <2>2. QED BY <2>1 DEF Follows, MadeFrom
<1>3. Extends(x.outcomes, floor[s], done[s])
  BY DEF Follows
<1>4. CASE done'[s] = done[s] /\ y.outcomes = x.outcomes
  BY <1>2, <1>3, <1>4
<1>5. ASSUME NEW o \in Outcome, done'[s] = Append(done[s], o),
             y.outcomes = LastOf(Append(x.outcomes, o), MaxRecent)
      PROVE  Extends(y.outcomes, floor[s], done'[s])
  BY <1>1, <1>3, <1>5, ExtendsLonger
<1>6. QED BY <1>2, <1>4, <1>5 DEF MadeFrom

(* Follows, whatever has settled since.                                    *)
LEMMA StillFollows ==
  ASSUME SessionInv, NEW s \in Sessions, Settled(s), NEW x, floor[s] # NoSession, Follows(s, x)
  PROVE  x.refreshes >= floor[s].refreshes /\ Extends(x.outcomes, floor[s], done'[s])
<1>1. floor[s] \in Floor /\ done[s] \in Seq(Outcome)
  BY BusyFacts DEF SessionInv, TypeOK
<1>2. Extends(x.outcomes, floor[s], done[s])
  BY DEF Follows
<1>3. ASSUME NEW o \in Outcome, done'[s] = Append(done[s], o)
      PROVE  Extends(x.outcomes, floor[s], done'[s])
  BY <1>1, <1>2, <1>3, ExtendsLonger
<1>4. QED BY <1>2, <1>3 DEF Settled, Follows

LEMMA SourceFollows ==
  ASSUME SessionInv, NEW s \in Sessions, NEW x \in Session, Source(s, x), floor[s] # NoSession
  PROVE  Follows(s, x)
<1>1. CASE x = store[s]
  BY <1>1, NoneAssumption DEF SessionInv, StoreFollows
<1>2. ASSUME NEW r \in Checking, request[r].session = s, x = request[r].seen PROVE Follows(s, x)
  BY <1>2 DEF SessionInv, SeenFollows
<1>3. QED BY <1>1, <1>2 DEF Source

(* A session that is created is one of which no request was under way.     *)
LEMMA CreatedFacts ==
  ASSUME SessionInv, NEW s \in Sessions, Created(s)
  PROVE  s \notin Busy /\ floor[s] = NoSession /\ told'[s] = NoWindow
<1>1. store[s] = NoSession /\ s \notin ended
  BY DEF Created
<1>2. s \notin Busy
  <2>1. ASSUME NEW r \in Checking PROVE request[r].session # s
    BY <1>1 DEF SessionInv, Awaited, Checking
  <2>2. QED BY <2>1 DEF Busy
<1>3. floor[s] = NoSession
  BY <1>1, <1>2, BusyFacts DEF Standing
<1>4. told'[s] = NoWindow
  BY <1>1 DEF Created, SessionInv, Untouched
<1>5. QED BY <1>2, <1>3, <1>4

(* No step sets a session back behind its floor.                           *)
LEMMA StaysFollowing ==
  ASSUME SessionInv, TypeOK', Effect, NEW s \in Sessions,
         floor[s] # NoSession, store'[s] # NoSession
  PROVE  /\ store'[s].refreshes >= floor[s].refreshes
         /\ Extends(store'[s].outcomes, floor[s], done'[s])
         /\ s \notin Busy => store'[s].outcomes = All(floor[s], done'[s])
<1>1. Moved(s) /\ store'[s] \in Session
  BY DEF Effect, TypeOK
<1>2. ~Created(s)
  BY CreatedFacts
<1>3. PICK x \in Session : Source(s, x) /\ MadeFrom(s, x, store'[s])
  BY <1>1, <1>2 DEF Moved
<1>4. Follows(s, x)
  BY <1>3, SourceFollows
<1>5. ASSUME s \notin Busy PROVE store'[s].outcomes = All(floor[s], done'[s])
  <2>1. x = store[s]
    BY <1>3, <1>5 DEF Source, Busy
  <2>2. floor[s] = Standing(s) /\ floor[s] \in Floor /\ done[s] \in Seq(Outcome)
    BY <1>5, BusyFacts DEF SessionInv, TypeOK
  <2>3. store[s] # NoSession
    BY <2>2 DEF Standing
  <2>4. floor[s].outcomes = x.outcomes /\ floor[s].calls = Len(done[s])
    BY <2>1, <2>2, <2>3 DEF Standing
  <2>5. CASE done'[s] = done[s] /\ store'[s].outcomes = x.outcomes
    BY <2>2, <2>4, <2>5, AllOfFloor
  <2>6. ASSUME NEW o \in Outcome, done'[s] = Append(done[s], o),
               store'[s].outcomes = LastOf(Append(x.outcomes, o), MaxRecent)
        PROVE  store'[s].outcomes = All(floor[s], done'[s])
    BY <2>2, <2>4, <2>6, AllOfOneMore
  <2>7. QED BY <1>3, <2>5, <2>6 DEF MadeFrom
<1>6. QED BY <1>1, <1>3, <1>4, <1>5, MadeFollows

LEMMA EffectKeeps ==
  ASSUME SessionInv, TypeOK', Effect, Observe
  PROVE  SessionInv'
<1>1. TypeOK /\ \A s \in Sessions : Moved(s)
  BY DEF SessionInv, Effect
<1>2. \A r \in Checking' : r \in Requests /\ request'[r] # NoRequest /\ Carried(r)
  BY DEF Checking, Effect
<1>3. Lapsed'
  BY <1>1 DEF Lapsed, Moved, Expired
<1>4. Untouched'
  <2>1. ASSUME NEW s \in Sessions, store'[s] = NoSession, s \notin ended'
        PROVE  done'[s] = << >> /\ told'[s] = NoWindow
    <3>1. store[s] = NoSession /\ done'[s] = done[s] /\ told'[s] = told[s] /\ s \notin ended
      BY <1>1, <2>1 DEF Moved, Effect
    <3>2. QED BY <3>1 DEF SessionInv, Untouched
  <2>2. QED BY <2>1 DEF Untouched
<1>5. Awaited'
  <2>1. ASSUME NEW r \in Requests, request'[r] # NoRequest
        PROVE  store'[request'[r].session] # NoSession \/ request'[r].session \in ended'
    <3>1. PICK s \in Sessions : s = request'[r].session
      BY <2>1 DEF Effect, Carried
    <3>2. CASE request[r] # NoRequest /\ request[r].session = s
      <4>1. store[s] # NoSession \/ s \in ended
        BY <3>2 DEF SessionInv, Awaited
      <4>2. s \in ended => s \in ended'
        BY DEF Effect
      <4>3. store[s] # NoSession /\ store'[s] = NoSession => s \in ended'
        BY <1>1 DEF Moved
      <4>4. QED BY <3>1, <4>1, <4>2, <4>3
    <3>3. CASE Usable(s) /\ store'[s] = store[s]
      BY <1>1, <3>1, <3>3, UsableFacts
    <3>4. QED BY <2>1, <3>1, <3>2, <3>3 DEF Effect, Carried
  <2>2. QED BY <2>1 DEF Awaited
<1>6. SeenFresh'
  BY <1>2 DEF SeenFresh, Carried
<1>7. ChangeAnnounced'
  <2>1. ASSUME NEW s \in Sessions, store'[s] # NoSession, told'[s] # NoWindow,
               told'[s] # store'[s].window
        PROVE  store'[s].pending
    <3>1. PICK x \in Session : Source(s, x) /\ MadeFrom(s, x, store'[s])
      BY <1>1, <2>1, CreatedFacts DEF Moved
    <3>2. /\ told'[s] = told[s]
          /\ store'[s].pending \/ (store'[s].window = x.window /\ store'[s].pending = x.pending)
      BY <2>1, <3>1 DEF MadeFrom
    <3>3. told[s] # NoWindow /\ told[s] # x.window => x.pending
      BY <3>1, NoneAssumption DEF Source, SessionInv, ChangeAnnounced, SeenAnnounced
    <3>4. QED BY <2>1, <3>2, <3>3
  <2>2. QED BY <2>1 DEF ChangeAnnounced
<1>8. SeenAnnounced'
  <2>1. ASSUME NEW r \in Checking', told'[request'[r].session] # NoWindow,
               told'[request'[r].session] # request'[r].seen.window
        PROVE  request'[r].seen.pending
    <3>1. PICK s \in Sessions : s = request'[r].session
      BY <1>2 DEF Carried
    <3>2. told'[s] = told[s]
      BY <1>2, <2>1, <3>1 DEF Carried
    <3>3. CASE r \in Checking /\ request[r].session = s /\ Alike(request'[r].seen, request[r].seen)
      BY <2>1, <3>1, <3>2, <3>3 DEF SessionInv, SeenAnnounced, Alike
    <3>4. CASE Usable(s) /\ Alike(request'[r].seen, store[s])
      BY <1>1, <2>1, <3>1, <3>2, <3>4, UsableFacts DEF SessionInv, ChangeAnnounced, Alike
    <3>5. QED BY <1>2, <3>1, <3>3, <3>4 DEF Carried
  <2>2. QED BY <2>1 DEF SeenAnnounced
<1>9. ASSUME NEW r \in Checking'
      PROVE  LET s == request'[r].session
             IN  /\ s \in Sessions /\ Open(floor[s]) /\ floor[s] # NoSession
                 /\ floor'[s] = floor[s]
                 /\ request'[r].seen.refreshes >= floor[s].refreshes
                 /\ Extends(request'[r].seen.outcomes, floor[s], done'[s])
  <2>1. PICK s \in Sessions : s = request'[r].session
    BY <1>2 DEF Carried
  <2>2. floor'[s] = floor[s]
    BY <2>1 DEF Observe, Busy
  <2>3. CASE r \in Checking /\ request[r].session = s /\ Alike(request'[r].seen, request[r].seen)
    <3>1. s \in Busy /\ Follows(s, request[r].seen)
      BY <2>3 DEF Busy, SessionInv, SeenFollows
    <3>2. Open(floor[s]) /\ floor[s] # NoSession
      BY <3>1, BusyFacts
    <3>3. /\ request[r].seen.refreshes >= floor[s].refreshes
          /\ Extends(request[r].seen.outcomes, floor[s], done'[s])
      BY <1>1, <3>1, <3>2, StillFollows DEF Moved
    <3>4. QED BY <2>1, <2>2, <2>3, <3>2, <3>3 DEF Alike
  <2>4. CASE Usable(s) /\ done'[s] = done[s] /\ Alike(request'[r].seen, store[s])
    <3>1. store[s] # NoSession /\ Open(floor[s]) /\ floor[s] # NoSession
      BY <1>1, <2>4, UsableFacts, BusyFacts
    <3>2. Follows(s, store[s])
      BY <3>1 DEF SessionInv, StoreFollows
    <3>3. QED BY <2>1, <2>2, <2>4, <3>1, <3>2 DEF Follows, Alike
  <2>5. QED BY <1>2, <2>1, <2>3, <2>4 DEF Carried
<1>10. OpenWhenBusy'
  BY <1>9 DEF OpenWhenBusy, Open
<1>11. FloorStands'
  BY DEF Observe, FloorStands
<1>12. SeenFollows'
  BY <1>9 DEF SeenFollows, Follows
<1>13. StoreFollows'
  <2>1. ASSUME NEW s \in Sessions, store'[s] # NoSession, floor'[s] # NoSession
        PROVE  /\ store'[s].refreshes >= floor'[s].refreshes
               /\ Extends(store'[s].outcomes, floor'[s], done'[s])
    <3>1. CASE s \in Busy'
      <4>1. floor'[s] = floor[s]
        BY <3>1 DEF Observe
      <4>2. QED BY <2>1, <4>1, StaysFollowing
    <3>2. CASE s \notin Busy'
      <4>1. floor'[s] = Standing(s)'
        BY <3>2 DEF Observe
      <4>2. Standing(s)' = [open |-> Usable(s)', refreshes |-> store'[s].refreshes,
                            outcomes |-> store'[s].outcomes, calls |-> Len(done'[s])]
        BY <2>1 DEF Standing
      <4>3. floor'[s] \in Floor /\ done'[s] \in Seq(Outcome) /\ store'[s] \in Session
        BY <2>1 DEF TypeOK
      <4>4. /\ floor'[s].outcomes = store'[s].outcomes /\ floor'[s].calls = Len(done'[s])
            /\ floor'[s].refreshes = store'[s].refreshes /\ store'[s].refreshes \in Nat
        BY <4>1, <4>2, <4>3 DEF Session
      <4>5. QED BY <4>3, <4>4, ExtendsItself
    <3>3. QED BY <3>1, <3>2
  <2>2. QED BY <2>1 DEF StoreFollows, Follows
<1>14. QED
  BY <1>3, <1>4, <1>5, <1>6, <1>7, <1>8, <1>10, <1>11, <1>12, <1>13 DEF SessionInv

(***************************************************************************)
(* The effects of the steps                                                *)
(***************************************************************************)

LEMMA Unmoved ==
  ASSUME SessionInv, NEW s \in Sessions, ended \subseteq ended',
         store'[s] = store[s], done'[s] = done[s], told'[s] = told[s]
  PROVE  Moved(s)
<1>1. CASE store[s] = NoSession
  BY <1>1 DEF Moved, Settled
<1>2. CASE store[s] # NoSession
  <2>1. store[s] \in Session /\ store[s].refreshes \in Nat
    BY <1>2 DEF SessionInv, TypeOK, Session
  <2>2. MadeFrom(s, store[s], store'[s])
    BY <2>1 DEF MadeFrom
  <2>3. Expired(store'[s]) => s \in ended'
    BY <1>2 DEF SessionInv, Lapsed
  <2>4. QED BY <1>2, <2>1, <2>2, <2>3 DEF Moved, Settled, Source
<1>3. QED BY <1>1, <1>2

LEMMA StillCarried ==
  ASSUME SessionInv, NEW r \in Requests, request'[r] = request[r], request[r] # NoRequest,
         r \in Checking =>
            told'[request[r].session] \in {told[request[r].session], NoWindow}
  PROVE  Carried(r)
<1>1. request[r].session \in Sessions
  <2>1. request[r] \in Request
    BY DEF SessionInv, TypeOK
  <2>2. QED BY <2>1 DEF Request
<1>2. r \in Checking' <=> r \in Checking
  BY DEF Checking
<1>3. r \in Checking => request[r].seen.idle = 0
  BY DEF SessionInv, SeenFresh
<1>4. QED BY <1>1, <1>2, <1>3 DEF Carried, Alike

(* Session s is written to; the others are as they were.                   *)
LEMMA OthersKept ==
  ASSUME TypeOK, NEW s \in Sessions, NEW y, store' = Put(s, y)
  PROVE  store'[s] = y /\ \A z \in Sessions \ {s} : store'[z] = store[z]
BY DEF Put, TypeOK

LEMMA RecordsFacts ==
  ASSUME TypeOK, NEW s \in Sessions, NEW x \in Session, NEW y \in Session, Records(s, x, y)
  PROVE  /\ Settled(s) /\ \A z \in Sessions \ {s} : done'[z] = done[z]
         /\ \/ done'[s] = done[s] /\ y.outcomes = x.outcomes
            \/ \E o \in Outcome :
                 /\ done'[s] = Append(done[s], o)
                 /\ y.outcomes = LastOf(Append(x.outcomes, o), MaxRecent)
<1>1. done \in [Sessions -> Seq(Outcome)]
  BY DEF TypeOK
<1>2. CASE done' = done /\ y.outcomes = x.outcomes
  BY <1>2 DEF Settled
<1>3. ASSUME NEW o \in Outcome, done' = [done EXCEPT ![s] = Append(@, o)],
             y.outcomes = LastOf(Append(x.outcomes, o), MaxRecent)
      PROVE  /\ done'[s] = Append(done[s], o)
             /\ \A z \in Sessions \ {s} : done'[z] = done[z]
  BY <1>1, <1>3
<1>4. QED BY <1>2, <1>3 DEF Records, Settled

LEMMA ServedEffect ==
  ASSUME SessionInv, NEW r \in Checking, Served(r)
  PROVE  Effect
<1> DEFINE s == request[r].session
           x == request[r].seen
<1>1. /\ TypeOK /\ r \in Requests /\ s \in Sessions /\ x \in Session /\ x.idle = 0
      /\ request[r] # NoRequest
  BY CheckingFacts DEF SessionInv, SeenFresh
<1>2. PICK y \in Session :
        /\ store' = Put(s, y)
        /\ y.idle = x.idle /\ y.status = x.status /\ y.refreshes >= x.refreshes
        /\ Records(s, x, y) /\ Announces(r, s, x, y)
  BY DEF Served
<1>3. ended' = ended
  BY DEF Served
<1>4. store'[s] = y /\ y # NoSession /\ \A z \in Sessions \ {s} : store'[z] = store[z]
  BY <1>1, <1>2, OthersKept, NoneAssumption
<1>5. ~Expired(y) /\ ~Expired(x)
  BY <1>1, <1>2, NumbersAssumption DEF Expired
<1>6. /\ Settled(s) /\ \A z \in Sessions \ {s} : done'[z] = done[z]
      /\ \/ done'[s] = done[s] /\ y.outcomes = x.outcomes
         \/ \E o \in Outcome :
              /\ done'[s] = Append(done[s], o)
              /\ y.outcomes = LastOf(Append(x.outcomes, o), MaxRecent)
  BY <1>1, <1>2, RecordsFacts
<1>7. /\ \A z \in Sessions \ {s} : told'[z] = told[z]
      /\ \/ told'[s] = told[s] /\ (y.pending \/ (y.window = x.window /\ y.pending = x.pending))
         \/ told'[s] = NoWindow
         \/ told'[s] = y.window /\ \A q \in Checking \ {r} : request[q].session # s
  BY <1>1, <1>2 DEF Announces, TypeOK
<1>8. Moved(s)
  <2>1. MadeFrom(s, x, y)
    BY <1>2, <1>5, <1>6, <1>7 DEF MadeFrom
  <2>2. Source(s, x)
    BY DEF Source
  <2>3. QED BY <1>1, <1>4, <1>5, <1>6, <2>1, <2>2 DEF Moved
<1>9. \A z \in Sessions : Moved(z)
  BY <1>3, <1>4, <1>6, <1>7, <1>8, Unmoved
<1>10. /\ \A q \in Requests \ {r} : request'[q] = request[q]
       /\ request'[r] = NoRequest \/ (request'[r].at = "downstream" /\ request'[r].session = s)
  BY <1>1 DEF Served, TypeOK
<1>11. request'[r] # NoRequest => Carried(r)
  <2>1. r \notin Checking'
    BY <1>10 DEF Checking
  <2>2. QED BY <1>1, <1>10, <2>1 DEF Carried
<1>12. ASSUME NEW q \in Requests \ {r}, request'[q] # NoRequest PROVE Carried(q)
  <2>1. ASSUME q \in Checking PROVE told'[request[q].session] \in {told[request[q].session], NoWindow}
    <3>1. request[q].session \in Sessions
      BY <1>1, <2>1, CheckingFacts
    <3>2. QED BY <1>7, <2>1, <3>1
  <2>2. QED BY <1>10, <1>12, <2>1, StillCarried
<1>13. QED BY <1>3, <1>9, <1>11, <1>12 DEF Effect

LEMMA CompletedEffect ==
  ASSUME SessionInv, NEW r \in Downstream, Completed(r)
  PROVE  Effect
<1> DEFINE s == request[r].session
           x == store[s]
<1>1. /\ TypeOK /\ r \in Requests /\ s \in Sessions /\ x \in Session \cup {NoSession}
      /\ request[r] # NoRequest /\ done \in [Sessions -> Seq(Outcome)]
  BY DownstreamFacts DEF SessionInv, TypeOK, Downstream
<1>2. PICK o \in Outcome :
        /\ done' = [done EXCEPT ![s] = Append(@, o)]
        /\ \/ Get(s) = NoSession /\ store' = Put(s, NoSession)
           \/ /\ Get(s) # NoSession
              /\ \E y \in Session :
                   /\ store' = Put(s, y)
                   /\ y.idle = x.idle /\ y.status = x.status /\ y.refreshes >= x.refreshes
                   /\ y.pending \/ (y.window = x.window /\ y.pending = x.pending)
                   /\ y.outcomes = LastOf(Append(x.outcomes, o), MaxRecent)
  BY DEF Completed
<1>3. request' = [request EXCEPT ![r] = NoRequest] /\ told' = told /\ ended' = ended
  BY DEF Completed
<1>4. done'[s] = Append(done[s], o) /\ \A z \in Sessions \ {s} : done'[z] = done[z]
  BY <1>1, <1>2
<1>5. ASSUME Get(s) = NoSession PROVE Moved(s)
  <2>1. store'[s] = NoSession /\ \A z \in Sessions \ {s} : store'[z] = store[z]
    BY <1>1, <1>2, <1>5, OthersKept
  <2>2. s \in ended
    BY <1>1, <1>5 DEF Get, SessionInv, Awaited, Lapsed
  <2>3. QED BY <1>2, <1>3, <1>4, <2>1, <2>2 DEF Moved, Settled
<1>6. ASSUME Get(s) # NoSession PROVE Moved(s)
  <2>1. x \in Session /\ x # NoSession /\ ~Expired(x)
    BY <1>1, <1>6 DEF Get
  <2>2. PICK y \in Session :
          /\ store' = Put(s, y)
          /\ y.idle = x.idle /\ y.status = x.status /\ y.refreshes >= x.refreshes
          /\ y.pending \/ (y.window = x.window /\ y.pending = x.pending)
          /\ y.outcomes = LastOf(Append(x.outcomes, o), MaxRecent)
    BY <1>2, <1>6
  <2>3. store'[s] = y /\ y # NoSession /\ \A z \in Sessions \ {s} : store'[z] = store[z]
    BY <1>1, <2>2, OthersKept, NoneAssumption
  <2>4. ~Expired(y)
    BY <2>1, <2>2 DEF Expired
  <2>5. MadeFrom(s, x, y)
    BY <1>3, <1>4, <2>1, <2>2 DEF MadeFrom
  <2>6. QED BY <1>2, <1>4, <2>1, <2>3, <2>4, <2>5 DEF Moved, Settled, Source
<1>7. \A z \in Sessions : Moved(z)
  <2>1. \A z \in Sessions \ {s} : store'[z] = store[z]
    BY <1>1, <1>2, OthersKept
  <2>2. Moved(s)
    BY <1>5, <1>6
  <2>3. QED BY <1>3, <1>4, <2>1, <2>2, Unmoved
<1>8. ASSUME NEW q \in Requests, request'[q] # NoRequest PROVE Carried(q)
  <2>1. request'[q] = request[q]
    BY <1>1, <1>3, <1>8 DEF TypeOK
  <2>2. QED BY <1>3, <1>8, <2>1, StillCarried
<1>9. QED BY <1>3, <1>7, <1>8 DEF Effect

(* One session is written to and no request moves; or nothing is written.  *)
LEMMA StoreEffect ==
  ASSUME SessionInv, NEW s \in Sessions, UNCHANGED <<request, told, done>>,
         \A z \in Sessions \ {s} : store'[z] = store[z],
         ended \subseteq ended', Moved(s)
  PROVE  Effect
<1>1. \A z \in Sessions : Moved(z)
  BY Unmoved
<1>2. \A q \in Requests : request'[q] # NoRequest => Carried(q)
  BY StillCarried
<1>3. QED BY <1>1, <1>2 DEF Effect

LEMMA InitializeEffect ==
  ASSUME SessionInv, TypeOK', NEW s \in Sessions, Initialize(s)
  PROVE  Effect
<1>1. TypeOK /\ UNCHANGED <<request, told, done, ended>> /\ store[s] = NoSession /\ s \notin ended
  BY DEF Initialize, SessionInv
<1>2. PICK y : /\ store' = Put(s, y)
               /\ y = [status |-> "active", window |-> catalog, pending |-> FALSE,
                       outcomes |-> << >>, refreshes |-> 0, cooled |-> Cooldown, idle |-> 0]
  BY DEF Initialize
<1>3. store'[s] = y /\ \A z \in Sessions \ {s} : store'[z] = store[z]
  BY <1>1, <1>2, OthersKept
<1>4. y.idle = 0
  BY <1>2
<1>5. ~Expired(y)
  BY <1>4, NumbersAssumption DEF Expired
<1>6. Moved(s)
  BY <1>1, <1>3, <1>5 DEF Moved, Settled, Created
<1>7. QED BY <1>1, <1>3, <1>6, StoreEffect

LEMMA RevokeEffect ==
  ASSUME SessionInv, NEW s \in Sessions, Revoke(s)
  PROVE  Effect
<1>1. /\ TypeOK /\ UNCHANGED <<request, told, done>> /\ ended' = ended \cup {s}
      /\ store[s] \in Session /\ store[s] # NoSession
  BY DEF Revoke, SessionInv, TypeOK, Get
<1>2. PICK y : store' = Put(s, y) /\ y = [store[s] EXCEPT !.status = "revoked"]
  BY DEF Revoke
<1>3. /\ y \in Session /\ y.status = "revoked" /\ y.window = store[s].window
      /\ y.outcomes = store[s].outcomes /\ y.refreshes = store[s].refreshes
      /\ y.pending = store[s].pending
  BY <1>1, <1>2, RevokedFacts
<1>4. y.idle = store[s].idle /\ y.refreshes \in Nat
  BY <1>1, <1>2, <1>3 DEF Session
<1>5. MadeFrom(s, store[s], y)
  BY <1>1, <1>3, <1>4 DEF MadeFrom, Expired
<1>6. store'[s] = y /\ \A z \in Sessions \ {s} : store'[z] = store[z]
  BY <1>1, <1>2, OthersKept
<1>7. Moved(s)
  BY <1>1, <1>3, <1>5, <1>6, NoneAssumption DEF Moved, Settled, Source
<1>8. QED BY <1>1, <1>6, <1>7, StoreEffect

LEMMA ExpireEffect ==
  ASSUME SessionInv, NEW s \in Sessions, Expire(s)
  PROVE  Effect
<1>1. /\ TypeOK /\ UNCHANGED <<request, told, done, ended>> /\ store' = Put(s, NoSession)
      /\ s \in ended
  BY DEF Expire, SessionInv, Lapsed
<1>2. store'[s] = NoSession /\ \A z \in Sessions \ {s} : store'[z] = store[z]
  BY <1>1, OthersKept
<1>3. Moved(s)
  BY <1>1, <1>2 DEF Moved, Settled
<1>4. QED BY <1>1, <1>2, <1>3, StoreEffect

LEMMA BegunEffect ==
  ASSUME SessionInv, NEW r \in Requests, NEW s \in Sessions,
         BeginList(r, s) \/ \E t \in Tools : BeginCall(r, s, t)
  PROVE  Effect
<1>1. TypeOK /\ request[r] = NoRequest /\ Usable(s) /\ UNCHANGED <<store, catalog, told, done, ended>>
  BY DEF SessionInv, BeginList, BeginCall
<1>2. store[s] \in Session
  BY <1>1, UsableFacts
<1>3. PICK x : /\ request' = [request EXCEPT ![r] = x]
               /\ x.session = s /\ x.seen = Touched(store[s])
  <2>1. CASE BeginList(r, s)
    <3>1. PICK x : /\ request' = [request EXCEPT ![r] = x]
                   /\ x = [at |-> "list", session |-> s, seen |-> Touched(store[s])]
      BY <2>1 DEF BeginList
    <3>2. x.session = s /\ x.seen = Touched(store[s])
      BY <3>1
    <3>3. QED BY <3>1, <3>2
  <2>2. ASSUME NEW t \in Tools, BeginCall(r, s, t)
        PROVE  \E x : request' = [request EXCEPT ![r] = x] /\ x.session = s /\ x.seen = Touched(store[s])
    <3>1. PICK x : /\ request' = [request EXCEPT ![r] = x]
                   /\ x = [at |-> "call", session |-> s, tool |-> t, seen |-> Touched(store[s])]
      BY <2>2 DEF BeginCall
    <3>2. x.session = s /\ x.seen = Touched(store[s])
      BY <3>1
    <3>3. QED BY <3>1, <3>2
  <2>3. QED BY <2>1, <2>2
<1>4. request'[r] = x /\ \A q \in Requests \ {r} : request'[q] = request[q]
  BY <1>1, <1>3 DEF TypeOK
<1>5. x.seen.idle = 0 /\ Alike(x.seen, store[s])
  BY <1>2, <1>3, TouchedFacts DEF Alike
<1>6. Carried(r)
  BY <1>1, <1>3, <1>4, <1>5 DEF Carried
<1>7. \A q \in Requests \ {r} : request'[q] # NoRequest => Carried(q)
  BY <1>1, <1>4, StillCarried
<1>8. \A z \in Sessions : Moved(z)
  BY <1>1, Unmoved
<1>9. QED BY <1>1, <1>6, <1>7, <1>8 DEF Effect

LEMMA QuietEffect ==
  ASSUME SessionInv, UNCHANGED <<store, told, done, ended>>,
         \A q \in Requests : request'[q] \in {request[q], NoRequest}
  PROVE  Effect
<1>1. \A z \in Sessions : Moved(z)
  BY Unmoved
<1>2. \A q \in Requests : request'[q] # NoRequest => Carried(q)
  BY StillCarried
<1>3. QED BY <1>1, <1>2 DEF Effect

LEMMA CrashEffect ==
  ASSUME SessionInv, Crash
  PROVE  Effect
<1>1. /\ UNCHANGED <<told, done>> /\ ended \subseteq ended'
      /\ \A q \in Requests : request'[q] = NoRequest
  BY DEF Crash
<1>2. CASE settings.durable
  BY <1>1, <1>2, QuietEffect DEF Crash
<1>3. CASE ~settings.durable
  <2>1. \A z \in Sessions : store'[z] = NoSession /\ (store[z] # NoSession => z \in ended')
    BY <1>3 DEF Crash
  <2>2. \A z \in Sessions : Moved(z)
    BY <1>1, <2>1 DEF Moved, Settled
  <2>3. QED BY <1>1, <2>2 DEF Effect
<1>4. QED BY <1>2, <1>3

LEMMA TickEffect ==
  ASSUME SessionInv, Tick
  PROVE  Effect
<1>1. TypeOK /\ Cooldown \in Nat
  BY SettingsAssumption DEF SessionInv, TypeOK, Cooldown
<1>2. /\ \A s \in Sessions : store'[s] = Aged(store[s])
      /\ ended \subseteq ended' /\ UNCHANGED <<told, done>>
      /\ \A s \in Sessions : store'[s] # NoSession /\ Expired(store'[s]) => s \in ended'
  BY DEF Tick, Expired
<1>3. ASSUME NEW s \in Sessions PROVE Moved(s)
  <2>1. CASE store[s] = NoSession
    BY <1>2, <2>1 DEF Moved, Settled, Aged
  <2>2. CASE store[s] # NoSession
    <3>1. store[s] \in Session /\ store[s].refreshes \in Nat
      BY <1>1, <2>2 DEF TypeOK, Session
    <3>2. PICK y : y = Aged(store[s])
      OBVIOUS
    <3>3. /\ y \in Session /\ y.status = store[s].status /\ y.window = store[s].window
          /\ y.outcomes = store[s].outcomes /\ y.refreshes = store[s].refreshes
          /\ y.pending = store[s].pending /\ (Expired(store[s]) => Expired(y))
      BY <1>1, <3>1, <3>2, AgedFacts
    <3>4. MadeFrom(s, store[s], y)
      BY <1>2, <3>1, <3>3 DEF MadeFrom
    <3>5. QED BY <1>2, <2>2, <3>1, <3>2, <3>3, <3>4, NoneAssumption DEF Moved, Settled, Source
  <2>3. QED BY <2>1, <2>2
<1>4. ASSUME NEW r \in Requests, request'[r] # NoRequest PROVE Carried(r)
  <2>1. CASE r \notin Checking
    <3>1. request'[r] = request[r]
      BY <2>1 DEF Tick
    <3>2. QED BY <1>4, <2>1, <3>1, StillCarried
  <2>2. CASE r \in Checking
    <3>1. /\ request'[r] = [request[r] EXCEPT !.seen = Touched(Aged(@))]
          /\ request[r] \in Request /\ request[r].seen \in Session
          /\ request[r].session \in Sessions /\ request[r] # NoRequest
          /\ request[r].at \in {"list", "call"}
      BY <1>1, <2>2, CheckingFacts DEF Tick, Checking
    <3>2. PICK y : y = Touched(Aged(request[r].seen))
      OBVIOUS
    <3>3. y.idle = 0 /\ Alike(y, request[r].seen)
      <4>1. PICK z : z = Aged(request[r].seen)
        OBVIOUS
      <4>2. z \in Session /\ Alike(z, request[r].seen)
        BY <1>1, <3>1, <4>1, AgedFacts DEF Alike
      <4>3. y = Touched(z)
        BY <3>2, <4>1
      <4>4. y.idle = 0 /\ Alike(y, z)
        BY <4>2, <4>3, TouchedFacts DEF Alike
      <4>5. QED BY <4>2, <4>4 DEF Alike
    <3>4. request'[r].seen = y /\ request'[r].session = request[r].session
      BY <3>1, <3>2 DEF Request
    <3>5. QED BY <1>2, <2>2, <3>1, <3>3, <3>4 DEF Carried
  <2>3. QED BY <2>1, <2>2
<1>5. QED BY <1>2, <1>3, <1>4 DEF Effect

LEMMA StepEffect ==
  ASSUME SessionInv, TypeOK', Resume \/ Step
  PROVE  Effect
<1>1. TypeOK
  BY DEF SessionInv
<1>2. CASE Resume
  <2>1. PICK r \in Checking : Reject(r) \/ Served(r)
    BY <1>1, <1>2, ResumeServes
  <2>2. CASE Reject(r)
    <3>1. /\ UNCHANGED <<store, told, done, ended>>
          /\ \A q \in Requests : request'[q] \in {request[q], NoRequest}
      BY <1>1, <2>2 DEF Reject, TypeOK
    <3>2. QED BY <3>1, QuietEffect
  <2>3. QED BY <2>1, <2>2, ServedEffect
<1>3. ASSUME NEW s \in Sessions, Initialize(s) \/ Revoke(s) \/ Expire(s) PROVE Effect
  BY <1>3, InitializeEffect, RevokeEffect, ExpireEffect
<1>4. ASSUME NEW s \in Sessions, Begin(s) PROVE Effect
  BY <1>4, BegunEffect DEF Begin
<1>5. ASSUME NEW r \in Requests, Complete(r) PROVE Effect
  BY <1>1, <1>5, CompleteCompletes, CompletedEffect
<1>6. ASSUME NEW c \in Catalogs, Publish(c) PROVE Effect
  BY <1>6, QuietEffect DEF Publish
<1>7. CASE Crash
  BY <1>7, CrashEffect
<1>8. CASE Tick
  BY <1>8, TickEffect
<1>9. QED BY <1>2, <1>3, <1>4, <1>5, <1>6, <1>7, <1>8 DEF Step

LEMMA SessionStep ==
  ASSUME SessionInv, [Next]_vars
  PROVE  SessionInv'
<1>1. CASE Next
  <2>1. TypeOK' /\ Observe /\ (Resume \/ Step)
    BY <1>1, TypeStep DEF Next, SessionInv
  <2>2. QED BY <2>1, StepEffect, EffectKeeps
<1>2. CASE UNCHANGED vars
  <2>1. TypeOK' /\ Checking' = Checking /\ Busy' = Busy
    BY <1>2 DEF SessionInv, TypeOK, vars, Checking, Busy
  <2>2. Lapsed' /\ Untouched' /\ Awaited' /\ SeenFresh' /\ ChangeAnnounced' /\ SeenAnnounced'
    BY <1>2, <2>1 DEF SessionInv, Lapsed, Untouched, Awaited, SeenFresh, ChangeAnnounced,
       SeenAnnounced, vars, Expired
  <2>3. OpenWhenBusy' /\ FloorStands' /\ StoreFollows' /\ SeenFollows'
    BY <1>2, <2>1 DEF SessionInv, OpenWhenBusy, FloorStands, StoreFollows, SeenFollows, vars,
       Follows, Standing, Usable, Get, Expired
  <2>4. QED BY <2>1, <2>2, <2>3 DEF SessionInv
<1>3. QED BY <1>1, <1>2

(* The inductive invariant: what is stored, and what every handler is to   *)
(* write back, has kept what the session had when last no check of it was  *)
(* under way, and announces a changed window.                              *)
THEOREM SessionInvariant == Spec => []SessionInv
<1>1. SessionInv /\ [Next]_vars => SessionInv'
  BY SessionStep
<1>2. QED BY <1>1, InitSession, PTL DEF Spec

(* A window that is not the one its client listed is announced             *)
(* (engine.ts:145-176), also where checks await I/O.                       *)
THEOREM ChangesAnnounced == Spec => []ChangeAnnounced
<1>1. SessionInv => ChangeAnnounced
  BY DEF SessionInv
<1>2. QED BY <1>1, SessionInvariant, PTL

-----------------------------------------------------------------------------
(***************************************************************************)
(* How far a session can be set back                                       *)
(***************************************************************************)

EndStep == \A s \in ended : ~Open(floor[s]) => ~Usable(s)'

RefreshStep ==
    \A s \in Sessions :
        floor[s] # NoSession /\ store'[s] # NoSession =>
            store'[s].refreshes >= floor[s].refreshes

OutcomeStep ==
    \A s \in Sessions :
        floor[s] # NoSession /\ store'[s] # NoSession =>
            /\ Extends(store'[s].outcomes, floor[s], done'[s])
            /\ s \notin Busy => store'[s].outcomes = All(floor[s], done'[s])

LEMMA NextFacts ==
  ASSUME SessionInv, [Next]_vars
  PROVE  vars' = vars \/ (TypeOK' /\ Effect)
<1>1. CASE Next
  <2>1. TypeOK' /\ (Resume \/ Step)
    BY <1>1, TypeStep DEF Next, SessionInv
  <2>2. QED BY <2>1, StepEffect
<1>2. QED BY <1>1

LEMMA EndStepHolds ==
  ASSUME SessionInv, TypeOK', Effect
  PROVE  EndStep
<1> SUFFICES ASSUME NEW s \in ended, ~Open(floor[s]), Usable(s)' PROVE FALSE
  BY DEF EndStep
<1>1. TypeOK /\ s \in Sessions /\ Moved(s)
  BY DEF SessionInv, TypeOK, Effect
<1>2. s \notin Busy /\ ~Usable(s)
  BY <1>1, BusyFacts
<1>3. /\ store'[s] # NoSession /\ ~Expired(store'[s]) /\ store'[s].status = "active"
  BY DEF Usable, Get, Expired
<1>4. ~Created(s)
  BY DEF Created
<1>5. PICK x \in Session : Source(s, x) /\ MadeFrom(s, x, store'[s])
  BY <1>1, <1>3, <1>4 DEF Moved
<1>6. x = store[s]
  BY <1>2, <1>5 DEF Source, Busy
<1>7. x # NoSession /\ ~Expired(x) /\ x.status = "active"
  BY <1>3, <1>5, NoneAssumption DEF MadeFrom
<1>8. QED BY <1>2, <1>6, <1>7 DEF Usable, Get

(* docs/reference/HTTP-API.md:98: a session that had been revoked or had   *)
(* expired when no check of it was under way never serves again, whatever  *)
(* handlers write back (tools-list.ts:74, tools-call.ts:286).              *)
THEOREM EndedStand == Spec => EndStands
<1>1. SessionInv /\ [Next]_vars => [EndStep]_vars
  BY NextFacts, EndStepHolds
<1>2. Spec => [][EndStep]_vars
  BY <1>1, SessionInvariant, PTL DEF Spec
<1>3. QED BY <1>2 DEF EndStep, EndStands

(* docs/ARCHITECTURE.md:53: a refresh that was made when no check of the   *)
(* session was under way is there for the listings that follow.            *)
THEOREM RefreshesKept == Spec => RefreshesStand
<1>1. SessionInv /\ TypeOK' /\ Effect => RefreshStep
  BY StaysFollowing DEF RefreshStep
<1>2. SessionInv /\ [Next]_vars => [RefreshStep]_vars
  BY <1>1, NextFacts
<1>3. Spec => [][RefreshStep]_vars
  BY <1>2, SessionInvariant, PTL DEF Spec
<1>4. QED BY <1>3 DEF RefreshStep, RefreshesStand

(* A session remembers the outcomes it had when no check of it was under   *)
(* way, and of the later ones some, in the order in which the calls        *)
(* settled and none twice; one that settles with no check under way is not *)
(* lost (router.ts:966-976).                                               *)
THEOREM OutcomesKept == Spec => OutcomesStand
<1>1. SessionInv /\ TypeOK' /\ Effect => OutcomeStep
  BY StaysFollowing DEF OutcomeStep
<1>2. SessionInv /\ [Next]_vars => [OutcomeStep]_vars
  BY <1>1, NextFacts
<1>3. Spec => [][OutcomeStep]_vars
  BY <1>2, SessionInvariant, PTL DEF Spec
<1>4. QED BY <1>3 DEF OutcomeStep, OutcomesStand
=============================================================================
