----------------------------- MODULE TableLemmas -----------------------------
(* Facts about database tables, which the models keep as sequences of rows. *)
EXTENDS SequenceTheorems, TLAPS

(* What an insert does to a table.                                          *)
LEMMA AppendedRow ==
    ASSUME NEW S, NEW s \in Seq(S), NEW e \in S
    PROVE  /\ Append(s, e) \in Seq(S)
           /\ DOMAIN s = 1..Len(s)
           /\ DOMAIN Append(s, e) = 1..(Len(s) + 1)
           /\ Len(s) \in Nat
           /\ \A i \in DOMAIN s : Append(s, e)[i] = s[i]
           /\ Append(s, e)[Len(s) + 1] = e
  BY AppendProperties, LenProperties, SMT

(* What an update does to a table.                                          *)
LEMMA UpdatedRow ==
    ASSUME NEW S, NEW s \in Seq(S), NEW k \in DOMAIN s, NEW e \in S
    PROVE  /\ [s EXCEPT ![k] = e] \in Seq(S)
           /\ DOMAIN [s EXCEPT ![k] = e] = DOMAIN s
           /\ \A i \in DOMAIN s : [s EXCEPT ![k] = e][i] = IF i = k THEN e ELSE s[i]
  <1>1. DOMAIN s = 1..Len(s)
    BY LenProperties
  <1>2. [s EXCEPT ![k] = e] \in Seq(S)
    BY <1>1, ExceptSeq
  <1> QED
    BY <1>2

(* The rows of a table are rows.                                            *)
LEMMA RowsAreRows ==
    ASSUME NEW S, NEW s \in Seq(S), NEW i \in DOMAIN s
    PROVE  s[i] \in S /\ i \in Nat
  BY LenProperties, ElementOfSeq, SMT

(* A function over 1..n into S is a table of rows of S.                     *)
LEMMA TableOfRows ==
    ASSUME NEW S, NEW n \in Nat, NEW t \in [1..n -> S]
    PROVE  t \in Seq(S) /\ Len(t) = n
  <1>1. t \in Seq(S)
    BY SeqDef
  <1>2. DOMAIN t = 1..Len(t) /\ Len(t) \in Nat /\ DOMAIN t = 1..n
    BY <1>1, LenProperties
  <1> QED
    BY <1>1, <1>2

(* What is in a table does not matter for what it is.                       *)
RowsOf(t) == {t[i] : i \in DOMAIN t}

LEMMA OwnRows ==
    ASSUME NEW S, NEW t \in Seq(S)
    PROVE  t \in Seq(RowsOf(t))
  <1>1. /\ Len(t) \in Nat /\ t \in [1..Len(t) -> S] /\ DOMAIN t = 1..Len(t)
    BY LenProperties
  <1>2. t \in [1..Len(t) -> RowsOf(t)]
    BY <1>1 DEF RowsOf
  <1> QED
    BY <1>1, <1>2, TableOfRows

LEMMA AnyAppended ==
    ASSUME NEW t, t \in Seq(RowsOf(t)), NEW e
    PROVE  LET u == Append(t, e) IN
           /\ u \in Seq(RowsOf(u))
           /\ DOMAIN t \subseteq DOMAIN u
           /\ \A i \in DOMAIN u : u[i] = e \/ (i \in DOMAIN t /\ u[i] = t[i])
  <1> DEFINE S == RowsOf(t) \cup {e}
             u == Append(t, e)
  <1>1. t \in Seq(S)
    <2>1. RowsOf(t) \subseteq S
      OBVIOUS
    <2> HIDE DEF S
    <2>2. /\ Len(t) \in Nat /\ t \in [1..Len(t) -> RowsOf(t)]
      BY LenProperties
    <2>3. t \in [1..Len(t) -> S]
      BY <2>1, <2>2
    <2> QED
      BY <2>2, <2>3, TableOfRows
  <1>2. e \in S
    OBVIOUS
  <1> HIDE DEF S
  <1>3. /\ u \in Seq(S) /\ DOMAIN t = 1..Len(t) /\ DOMAIN u = 1..(Len(t) + 1)
        /\ Len(t) \in Nat /\ u[Len(t) + 1] = e
        /\ \A i \in DOMAIN t : u[i] = t[i]
    BY <1>1, <1>2, AppendedRow
  <1> HIDE DEF u
  <1>4. u \in Seq(RowsOf(u))
    BY <1>3, OwnRows
  <1> QED
    BY <1>3, <1>4 DEF u

LEMMA AnyUpdated ==
    ASSUME NEW t, t \in Seq(RowsOf(t)), NEW k \in DOMAIN t, NEW e
    PROVE  LET u == [t EXCEPT ![k] = e] IN
           /\ u \in Seq(RowsOf(u))
           /\ DOMAIN u = DOMAIN t
           /\ \A i \in DOMAIN u : u[i] = IF i = k THEN e ELSE t[i]
  <1> DEFINE S == RowsOf(t) \cup {e}
             u == [t EXCEPT ![k] = e]
  <1>1. /\ Len(t) \in Nat /\ t \in [1..Len(t) -> RowsOf(t)] /\ DOMAIN t = 1..Len(t)
    BY LenProperties
  <1>2. u \in [1..Len(t) -> S]
    BY <1>1
  <1>3. u \in Seq(S)
    <2> HIDE DEF S, u
    <2> QED
      BY <1>1, <1>2, TableOfRows
  <1>4. u \in Seq(RowsOf(u))
    <2> HIDE DEF S, u
    <2> QED
      BY <1>3, OwnRows
  <1> QED
    BY <1>1, <1>4

(* A table that is another one and a row after its last is what an insert   *)
(* makes of it.                                                             *)
LEMMA IsAppended ==
    ASSUME NEW S, NEW s \in Seq(S), NEW t \in Seq(S), NEW e \in S,
           DOMAIN t = DOMAIN s \cup {Len(s) + 1},
           \A i \in DOMAIN s : t[i] = s[i], t[Len(s) + 1] = e
    PROVE  t = Append(s, e)
  <1>1. /\ DOMAIN s = 1..Len(s) /\ Len(s) \in Nat
        /\ DOMAIN t = 1..Len(t) /\ Len(t) \in Nat
    BY LenProperties
  <1>2. /\ Append(s, e) \in Seq(S) /\ DOMAIN Append(s, e) = 1..(Len(s) + 1)
        /\ \A i \in 1..Len(s) : Append(s, e)[i] = s[i]
        /\ Append(s, e)[Len(s) + 1] = e
    BY AppendedRow
  <1>3. Len(Append(s, e)) = Len(s) + 1
    BY <1>1, <1>2, LenProperties
  <1>4. Len(t) = Len(s) + 1
    BY <1>1
  <1>5. \A i \in 1..Len(t) : t[i] = Append(s, e)[i]
    BY <1>1, <1>2, <1>4
  <1> QED
    BY <1>2, <1>3, <1>4, <1>5, SeqEqual
=============================================================================
