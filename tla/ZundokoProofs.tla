---------------------------- MODULE ZundokoProofs ----------------------------
(***************************************************************************)
(* Proofs about Zundoko, for any number of clients that send any number of *)
(* datagrams, and every combination of faults.                             *)
(***************************************************************************)
EXTENDS Zundoko, TLAPS

(* The types of the variables.                                             *)
Shape ==
  /\ state \in 0 .. 4
  /\ requests \subseteq Datagram(Sendable) /\ replies \subseteq Datagram(Type)
  /\ waiting \subseteq Clients
  /\ sent \in [Clients -> Seq(Sendable)]
  /\ got \in [Clients -> Seq([n : Nat, type : Type])]
  /\ heard \in Seq(Sendable) /\ answered \in Seq(Type) /\ Len(answered) = Len(heard)
  /\ dropped \subseteq Clients /\ doubled \subseteq Clients

Faulty == faults \subseteq UNION Faults

(* The last r of the first n datagrams of s are ZUN.                       *)
Zuns(s, n, r) == r <= n /\ \A j \in n - r + 1 .. n : s[j] = "ZUN"

(* They are all the ZUN directly before the next one.                      *)
Streak(s, n, r) == Zuns(s, n, r) /\ (r < n => s[n - r] # "ZUN")

(* The server counts the ZUN it heard last, and every fifth starts again.  *)
Counted == \E r \in 0 .. Len(heard) : Streak(heard, Len(heard), r) /\ r % 5 = state

(* A client has one datagram under way, or lost, or none.                  *)
OneOut ==
  \A c \in Clients : Len(sent[c]) = Len(got[c]) + (IF c \in waiting THEN 1 ELSE 0)

Single ==
  \A d \in requests \cup replies : d.client \notin doubled =>
    /\ d.client \in waiting /\ d.n = Len(sent[d.client])
    /\ \A e \in requests \cup replies : e.client = d.client => e = d

Apart == \A d \in requests \cap replies : d.client \in doubled

(* No client waits for nothing: there is a datagram of it, or an answer,   *)
(* that will come to it, or one was lost since it got the last.            *)
NoneForgotten ==
  \A c \in waiting : c \in dropped \/ \E d \in requests \cup replies : d.client = c

Own == \A r \in requests : r.n \in 1 .. Len(sent[r.client]) /\ r.type = sent[r.client][r.n]

Alone(c) == c \notin doubled /\ \A d \in Clients \ {c} : sent[d] = <<>>

Earned(c, a) ==
  a.type = "KIYOSHI" =>
    /\ a.n > 4
    /\ SubSeq(sent[c], a.n - 4, a.n) = <<"ZUN", "ZUN", "ZUN", "ZUN", "DOKO">>

(* What the server counted are datagrams of a client that is alone, unless *)
(* that client waits for ever.                                             *)
Heard(c) ==
  /\ (\E r \in requests : r.client = c) => Zuns(sent[c], Len(sent[c]) - 1, state)
  /\ (c \notin waiting \/ \E r \in replies : r.client = c) => Zuns(sent[c], Len(sent[c]), state)

Solo ==
  \A c \in Clients : Alone(c) =>
    /\ Heard(c)
    /\ \A r \in replies : r.client = c => Earned(c, r)
    /\ \A k \in DOMAIN got[c] : Earned(c, got[c][k])

IInv == /\ Shape /\ Faulty /\ Counted /\ KiyoshiExactly
        /\ OneOut /\ Single /\ Apart /\ Own /\ NoneForgotten /\ AnswersOwn /\ Solo

-------------------------------------------------------------------------------
(* Sequences.                                                              *)
LEMMA AppendParts ==
  ASSUME NEW S, NEW s \in Seq(S), NEW x \in S
  PROVE  /\ Append(s, x) \in Seq(S) /\ Len(Append(s, x)) = Len(s) + 1 /\ Len(s) \in Nat
         /\ \A i \in 1 .. Len(s) : Append(s, x)[i] = s[i]
         /\ Append(s, x)[Len(s) + 1] = x
  OBVIOUS

LEMMA SubSeqAgree ==
  ASSUME NEW S, NEW s \in Seq(S), NEW t \in Seq(S), NEW a \in Nat \ {0}, NEW b \in Nat,
         a <= b, b <= Len(s), b <= Len(t), \A i \in a .. b : s[i] = t[i]
  PROVE  SubSeq(s, a, b) = SubSeq(t, a, b)
<1> DEFINE u == SubSeq(s, a, b)
           v == SubSeq(t, a, b)
           l == b - a + 1
<1>1. u \in Seq(S) /\ Len(u) = l /\ \A i \in 1 .. l : u[i] = s[a + i - 1]
  OBVIOUS
<1>2. v \in Seq(S) /\ Len(v) = l /\ \A i \in 1 .. l : v[i] = t[a + i - 1]
  OBVIOUS
<1>3. \A i \in 1 .. l : a + i - 1 \in a .. b
  OBVIOUS
<1> HIDE DEF u, v, l
<1>4. \A i \in 1 .. l : u[i] = v[i]
  BY <1>1, <1>2, <1>3
<1>5. u = v
  BY <1>1, <1>2, <1>4
<1> QED BY <1>5 DEF u, v

LEMMA FiveOf ==
  ASSUME NEW S, NEW s \in Seq(S), NEW n \in Nat, n > 4, n <= Len(s),
         s[n - 4] = "ZUN", s[n - 3] = "ZUN", s[n - 2] = "ZUN", s[n - 1] = "ZUN", s[n] = "DOKO"
  PROVE  SubSeq(s, n - 4, n) = <<"ZUN", "ZUN", "ZUN", "ZUN", "DOKO">>
<1> DEFINE t == SubSeq(s, n - 4, n)
<1>1. t \in Seq(S) /\ Len(t) = 5 /\ \A i \in 1 .. 5 : t[i] = s[(n - 4) + i - 1]
  OBVIOUS
<1>2. /\ (n - 4) + 1 - 1 = n - 4 /\ (n - 4) + 2 - 1 = n - 3 /\ (n - 4) + 3 - 1 = n - 2
      /\ (n - 4) + 4 - 1 = n - 1 /\ (n - 4) + 5 - 1 = n
  OBVIOUS
<1>3. t[1] = "ZUN" /\ t[2] = "ZUN" /\ t[3] = "ZUN" /\ t[4] = "ZUN" /\ t[5] = "DOKO"
  BY <1>1, <1>2
<1> HIDE DEF t
<1>4. t = <<"ZUN", "ZUN", "ZUN", "ZUN", "DOKO">>
  BY <1>1, <1>3
<1> QED BY <1>4 DEF t

(* The run before a datagram is the streak the server counted.             *)
RunOf(h, i) == Max({n \in 0 .. i - 1 : \A j \in i - n .. i - 1 : h[j] = "ZUN"})

LEMMA RunOfStreak ==
  ASSUME NEW h, NEW i \in Nat \ {0}, NEW r \in 0 .. i - 1, Streak(h, i - 1, r)
  PROVE  RunOf(h, i) = r
<1> DEFINE S == {n \in 0 .. i - 1 : \A j \in i - n .. i - 1 : h[j] = "ZUN"}
<1>1. r \in S
  <2>1. \A j \in i - r .. i - 1 : j \in (i - 1) - r + 1 .. i - 1
    OBVIOUS
  <2> QED BY <2>1 DEF Streak, Zuns
<1>2. ASSUME NEW n \in S PROVE r >= n
  <2> SUFFICES ASSUME n > r PROVE FALSE
    OBVIOUS
  <2>1. n \in 0 .. i - 1 /\ r < i - 1 /\ (i - 1) - r \in i - n .. i - 1
    OBVIOUS
  <2> QED BY <2>1 DEF Streak
<1>3. S \subseteq Nat
  OBVIOUS
<1> HIDE DEF S
<1>4. Max(S) = r
  <2>1. Max(S) \in S /\ \A y \in S : Max(S) >= y
    BY <1>1, <1>2, Zenon DEF Max
  <2>2. r >= Max(S) /\ Max(S) >= r
    BY <1>1, <1>2, <2>1, Zenon
  <2>3. r \in Nat /\ Max(S) \in Nat
    BY <1>1, <1>3, <2>1, Zenon
  <2> HIDE DEF S
  <2> DEFINE m == Max(S)
  <2> HIDE DEF m
  <2>4. m = r
    BY <2>2, <2>3 DEF m
  <2> QED BY <2>4 DEF m
<1> QED BY <1>4 DEF RunOf, S

LEMMA RunOfPrefix ==
  ASSUME NEW h, NEW g, NEW i \in Nat, \A j \in 1 .. i - 1 : h[j] = g[j]
  PROVE  RunOf(h, i) = RunOf(g, i)
<1>1. \A n \in 0 .. i - 1 : \A j \in i - n .. i - 1 : h[j] = g[j]
  OBVIOUS
<1>2. {n \in 0 .. i - 1 : \A j \in i - n .. i - 1 : h[j] = "ZUN"}
        = {n \in 0 .. i - 1 : \A j \in i - n .. i - 1 : g[j] = "ZUN"}
  BY <1>1
<1> QED BY <1>2 DEF RunOf

LEMMA ModFive ==
  ASSUME NEW r \in Nat
  PROVE  r % 5 \in 0 .. 4 /\ (r + 1) % 5 = IF r % 5 < 4 THEN (r % 5) + 1 ELSE 0
  OBVIOUS

(* What the server counts, and answers, when it hears one more.            *)
LEMMA HearOne ==
  ASSUME NEW type \in Sendable, Shape, Counted, KiyoshiExactly,
         heard' = Append(heard, type), answered' = Append(answered, Answer(state, type)),
         state' = Count(state, type)
  PROVE  /\ state' \in 0 .. 4
         /\ heard' \in Seq(Sendable) /\ answered' \in Seq(Type) /\ Len(answered') = Len(heard')
         /\ Counted' /\ KiyoshiExactly'
<1> DEFINE l == Len(heard)
<1>1. Answer(state, type) \in Type /\ (Answer(state, type) = "KIYOSHI" <=> state = 4 /\ type = "DOKO")
  BY DEF Answer, Type, Sendable
<1>2. /\ heard' \in Seq(Sendable) /\ Len(heard') = l + 1 /\ l \in Nat
      /\ \A i \in 1 .. l : heard'[i] = heard[i]
      /\ heard'[l + 1] = type
  BY AppendParts DEF Shape
<1>3. /\ answered' \in Seq(Type) /\ Len(answered') = l + 1
      /\ \A i \in 1 .. l : answered'[i] = answered[i]
      /\ answered'[l + 1] = Answer(state, type)
  BY <1>1, AppendParts DEF Shape
<1>4. state' \in 0 .. 4
  BY DEF Count, Shape
<1>5. PICK r \in 0 .. l : Streak(heard, l, r) /\ r % 5 = state
  BY DEF Counted
<1> HIDE DEF l
<1>6. Streak(heard', l, r)
  <2>1. \A j \in l - r + 1 .. l : j \in 1 .. l
    BY <1>2
  <2>2. r < l => l - r \in 1 .. l
    BY <1>2
  <2> QED BY <1>2, <1>5, <2>1, <2>2 DEF Streak, Zuns
<1>7. Counted'
  <2>1. CASE type = "ZUN"
    <3>1. (r + 1) % 5 = state' /\ r + 1 \in 0 .. l + 1 /\ r \in Nat
      BY <1>2, <1>5, <2>1, ModFive DEF Count
    <3>2. Streak(heard', l + 1, r + 1)
      <4>1. \A j \in (l + 1) - (r + 1) + 1 .. l + 1 : j \in l - r + 1 .. l \/ j = l + 1
        BY <1>2
      <4>2. (l + 1) - (r + 1) = l - r /\ (r + 1 < l + 1 => r < l) /\ r + 1 <= l + 1
        BY <1>2
      <4> QED BY <1>2, <1>6, <2>1, <4>1, <4>2 DEF Streak, Zuns
    <3> QED BY <1>2, <3>1, <3>2 DEF Counted
  <2>2. CASE type # "ZUN"
    <3>1. state' = 0 /\ 0 % 5 = 0 /\ 0 \in 0 .. l + 1
      BY <1>2, <2>2 DEF Count
    <3>2. Streak(heard', l + 1, 0)
      <4>1. (l + 1) - 0 = l + 1 /\ 0 <= l + 1 /\ \A j \in (l + 1) - 0 + 1 .. l + 1 : FALSE
        BY <1>2
      <4> QED BY <1>2, <2>2, <4>1 DEF Streak, Zuns
    <3> QED BY <1>2, <3>1, <3>2 DEF Counted
  <2> QED BY <2>1, <2>2
<1>8. KiyoshiExactly'
  <2> SUFFICES ASSUME NEW i \in 1 .. l + 1
               PROVE  answered'[i] = "KIYOSHI" <=> heard'[i] = "DOKO" /\ RunOf(heard', i) % 5 = 4
    <3>1. DOMAIN answered' = 1 .. l + 1
      BY <1>3
    <3>2. \A i : Run(i)' = RunOf(heard', i)
      BY Zenon DEF Run, RunOf
    <3> QED BY <3>1, <3>2, Zenon DEF KiyoshiExactly
  <2>1. CASE i \in 1 .. l
    <3>1. RunOf(heard', i) = RunOf(heard, i)
      <4>1. i \in Nat /\ \A j \in 1 .. i - 1 : heard'[j] = heard[j]
        BY <1>2, <2>1
      <4> QED BY <4>1, RunOfPrefix, Zenon
    <3>2. i \in DOMAIN answered
      BY <2>1 DEF Shape, l
    <3>3. answered[i] = "KIYOSHI" <=> heard[i] = "DOKO" /\ RunOf(heard, i) % 5 = 4
      BY <3>2 DEF KiyoshiExactly, Run, RunOf
    <3> QED BY <1>2, <1>3, <2>1, <3>1, <3>3
  <2>2. CASE i = l + 1
    <3>1. RunOf(heard', i) = r
      <4>1. i \in Nat \ {0} /\ i - 1 = l
        BY <1>2, <2>2
      <4> QED BY <1>5, <1>6, <4>1, RunOfStreak
    <3>2. answered'[i] = Answer(state, type) /\ heard'[i] = type
      BY <1>2, <1>3, <2>2, Zenon
    <3> QED BY <1>1, <1>5, <3>1, <3>2, Zenon
  <2>3. i \in 1 .. l \/ i = l + 1
    BY <1>2
  <2> QED BY <2>1, <2>2, <2>3, Zenon
<1> QED BY <1>2, <1>3, <1>4, <1>7, <1>8

LEMMA Idle ==
  ASSUME Counted, KiyoshiExactly, UNCHANGED <<state, heard, answered>>
  PROVE  Counted' /\ KiyoshiExactly'
BY ZenonT(60) DEF Counted, KiyoshiExactly, Run

LEMMA Lens ==
  ASSUME Shape, NEW c \in Clients
  PROVE  /\ sent[c] \in Seq(Sendable) /\ Len(sent[c]) \in Nat
         /\ got[c] \in Seq([n : Nat, type : Type]) /\ Len(got[c]) \in Nat
         /\ DOMAIN got[c] = 1 .. Len(got[c])
<1> DEFINE R == [n : Nat, type : Type]
<1>1. sent[c] \in Seq(Sendable) /\ got[c] \in Seq(R)
  BY DEF Shape
<1> HIDE DEF R
<1>2. Len(sent[c]) \in Nat /\ Len(got[c]) \in Nat /\ DOMAIN got[c] = 1 .. Len(got[c])
  BY <1>1
<1> QED BY <1>1, <1>2 DEF R

LEMMA Datagrams ==
  ASSUME Shape
  PROVE  /\ \A r \in requests : r.client \in Clients /\ r.n \in Nat /\ r.type \in Sendable
         /\ \A r \in replies : r.client \in Clients /\ r.n \in Nat /\ r.type \in Type
BY DEF Shape, Datagram

-------------------------------------------------------------------------------
LEMMA InitInv == Init => IInv
<1> SUFFICES ASSUME Init PROVE IInv
  OBVIOUS
<1> USE DEF Init
<1>0. \A S : <<>> \in Seq(S)
  OBVIOUS
<1>1. Shape
  <2>1. sent \in [Clients -> Seq(Sendable)]
    BY <1>0
  <2>2. got \in [Clients -> Seq([n : Nat, type : Type])]
    BY <1>0
  <2>3. heard \in Seq(Sendable) /\ answered \in Seq(Type) /\ Len(answered) = Len(heard)
    BY <1>0
  <2> QED BY <2>1, <2>2, <2>3 DEF Shape
<1>2. Faulty /\ Single /\ Apart /\ Own /\ NoneForgotten /\ KiyoshiExactly
  BY DEF Faulty, Single, Apart, Own, NoneForgotten, KiyoshiExactly
<1>3. Counted
  <2>1. 0 \in 0 .. Len(heard) /\ 0 % 5 = state /\ Len(heard) = 0
    OBVIOUS
  <2>2. Streak(heard, 0, 0)
    BY DEF Streak, Zuns
  <2> QED BY <2>1, <2>2 DEF Counted
<1>4. OneOut /\ AnswersOwn
  BY DEF OneOut, AnswersOwn
<1>5. Solo
  <2> SUFFICES ASSUME NEW c \in Clients PROVE Heard(c) /\ \A k \in DOMAIN got[c] : FALSE
    BY DEF Solo
  <2>1. Len(sent[c]) = 0 /\ state = 0 /\ \A k \in DOMAIN got[c] : FALSE
    OBVIOUS
  <2>2. Zuns(sent[c], 0, 0)
    BY DEF Zuns
  <2> QED BY <2>1, <2>2 DEF Heard
<1> QED BY <1>1, <1>2, <1>3, <1>4, <1>5 DEF IInv

(* A client that sends has nothing under way.                              *)
LEMMA SendInv ==
  ASSUME IInv, NEW c \in Clients, NEW type \in Sendable, SendZundoko(c, type)
  PROVE  IInv'
<1> DEFINE l == Len(sent[c])
           d == [client |-> c, n |-> l + 1, copy |-> 1, type |-> type]
<1>1. /\ Shape /\ Faulty /\ Counted /\ KiyoshiExactly /\ OneOut /\ Single /\ Apart /\ Own
      /\ NoneForgotten /\ AnswersOwn /\ Solo
  BY DEF IInv
<1>2. /\ c \notin waiting /\ sent' = [sent EXCEPT ![c] = Append(@, type)]
      /\ waiting' = waiting \cup {c}
      /\ UNCHANGED <<state, replies, faults, got, heard, answered, dropped, doubled>>
  BY DEF SendZundoko
<1>3. /\ l \in Nat /\ sent' \in [Clients -> Seq(Sendable)] /\ Len(sent'[c]) = l + 1
      /\ \A i \in 1 .. l : sent'[c][i] = sent[c][i]
      /\ sent'[c][l + 1] = type
      /\ \A b \in Clients : b # c => sent'[b] = sent[b]
  <2>1. sent[c] \in Seq(Sendable) /\ sent'[c] = Append(sent[c], type)
    BY <1>1, <1>2, Lens DEF Shape
  <2>2. \A b \in Clients : b # c => sent'[b] = sent[b]
    BY <1>1, <1>2 DEF Shape
  <2>3. sent' \in [Clients -> Seq(Sendable)]
    BY <1>1, <1>2, <2>1, AppendParts DEF Shape
  <2> QED BY <2>1, <2>2, <2>3, AppendParts
<1>4. requests' = requests \cup {d}
  BY <1>3 DEF SendZundoko
<1>5. d \in Datagram(Sendable) /\ d.client = c /\ d.n = l + 1 /\ d.type = type
  BY <1>3 DEF Datagram
<1> HIDE DEF d, l
<1>6. Shape' /\ Faulty'
  <2>1. requests' \subseteq Datagram(Sendable) /\ waiting' \subseteq Clients
    BY <1>1, <1>2, <1>4, <1>5 DEF Shape
  <2> QED BY <1>1, <1>2, <1>3, <2>1 DEF Shape, Faulty
<1>7. Counted' /\ KiyoshiExactly'
  BY <1>1, <1>2, Idle
<1>8. OneOut' /\ AnswersOwn'
  <2>1. OneOut'
    <3> SUFFICES ASSUME NEW b \in Clients
                 PROVE  Len(sent'[b]) = Len(got[b]) + (IF b \in waiting' THEN 1 ELSE 0)
      BY <1>2 DEF OneOut
    <3>1. CASE b = c
      <4>1. l = Len(got[c]) + 0 /\ Len(got[c]) \in Nat
        BY <1>1, <1>2, Lens, Zenon DEF OneOut, l
      <4>2. l + 1 = Len(got[c]) + 1
        BY <4>1
      <4> QED BY <1>2, <1>3, <3>1, <4>2
    <3>2. CASE b # c
      BY <1>1, <1>2, <1>3, <3>2 DEF OneOut
    <3> QED BY <3>1, <3>2
  <2> QED BY <1>1, <1>2, <2>1 DEF AnswersOwn
<1>9. c \notin doubled => \A e \in requests \cup replies : e.client # c
  BY <1>1, <1>2 DEF Single
<1>10. Single'
  <2> SUFFICES ASSUME NEW e \in requests' \cup replies', e.client \notin doubled
               PROVE  /\ e.client \in waiting' /\ e.n = Len(sent'[e.client])
                      /\ \A b \in requests' \cup replies' : b.client = e.client => b = e
    BY <1>2 DEF Single
  <2>1. CASE e = d
    BY <1>2, <1>3, <1>4, <1>5, <1>9, <2>1
  <2>2. CASE e # d
    <3>1. e \in requests \cup replies /\ e.client \in Clients
      BY <1>1, <1>2, <1>4, <2>2, Datagrams
    <3>2. e.client \in waiting /\ e.n = Len(sent[e.client]) /\ e.client # c
      BY <1>1, <1>2, <3>1 DEF Single
    <3>3. \A b \in requests' \cup replies' : b.client = e.client => b \in requests \cup replies
      BY <1>2, <1>4, <1>5, <3>2
    <3> QED BY <1>1, <1>2, <1>3, <3>1, <3>2, <3>3 DEF Single
  <2> QED BY <2>1, <2>2
<1>11. Apart' /\ NoneForgotten'
  <2>1. Apart'
    BY <1>1, <1>2, <1>4, <1>5, <1>9 DEF Apart
  <2>2. NoneForgotten'
    BY <1>1, <1>2, <1>4, <1>5 DEF NoneForgotten
  <2> QED BY <2>1, <2>2
<1>12. Own'
  <2> SUFFICES ASSUME NEW r \in requests'
               PROVE  r.n \in 1 .. Len(sent'[r.client]) /\ r.type = sent'[r.client][r.n]
    BY DEF Own
  <2>1. CASE r = d
    BY <1>3, <1>5, <2>1
  <2>2. CASE r # d
    <3>1. r \in requests /\ r.client \in Clients
      BY <1>1, <1>4, <2>2, Datagrams
    <3>2. r.n \in 1 .. Len(sent[r.client]) /\ r.type = sent[r.client][r.n]
      BY <1>1, <3>1 DEF Own
    <3>3. CASE r.client = c
      BY <1>3, <3>2, <3>3 DEF l
    <3>4. CASE r.client # c
      BY <1>3, <3>1, <3>2, <3>4
    <3> QED BY <3>3, <3>4
  <2> QED BY <2>1, <2>2
<1>13. Solo'
  <2> SUFFICES ASSUME NEW b \in Clients, Alone(b)'
               PROVE  /\ Heard(b)'
                      /\ \A r \in replies : r.client = b => Earned(b, r)'
                      /\ \A k \in DOMAIN got[b] : Earned(b, got[b][k])'
    BY <1>2 DEF Solo
  <2>1. b = c
    <3> SUFFICES ASSUME b # c PROVE FALSE
      OBVIOUS
    <3>1. sent'[c] = <<>>
      BY DEF Alone
    <3> QED BY <1>3, <3>1
  <2>2. Alone(c)
    BY <1>2, <1>3, <2>1 DEF Alone
  <2>3. Heard(c) /\ \A k \in DOMAIN got[c] : Earned(c, got[c][k])
    BY <1>1, <2>2 DEF Solo
  <2>4. c \notin doubled
    BY <2>2 DEF Alone
  <2>5. Heard(c)'
    <3>1. Zuns(sent[c], l, state)
      BY <1>2, <2>3 DEF Heard, l
    <3>2. Zuns(sent'[c], l, state)
      <4>1. \A j \in l - state + 1 .. l : j \in 1 .. l
        BY <1>1, <1>3, <3>1 DEF Zuns, Shape
      <4> QED BY <1>3, <3>1, <4>1 DEF Zuns
    <3>3. Len(sent'[c]) - 1 = l
      BY <1>3
    <3> QED BY <1>2, <1>9, <2>4, <3>2, <3>3 DEF Heard
  <2>6. \A k \in DOMAIN got[c] : Earned(c, got[c][k])'
    <3> SUFFICES ASSUME NEW k \in DOMAIN got[c], got[c][k].type = "KIYOSHI"
                 PROVE  /\ got[c][k].n > 4
                        /\ SubSeq(sent'[c], got[c][k].n - 4, got[c][k].n)
                             = <<"ZUN", "ZUN", "ZUN", "ZUN", "DOKO">>
      BY <1>2 DEF Earned
    <3>1. got[c][k].n = k /\ k \in 1 .. Len(got[c]) /\ Len(got[c]) = l
      <4>1. l = Len(got[c]) + 0 /\ Len(got[c]) \in Nat /\ DOMAIN got[c] = 1 .. Len(got[c])
        BY <1>1, <1>2, Lens, Zenon DEF OneOut, l
      <4>2. l = Len(got[c])
        BY <4>1
      <4> QED BY <1>1, <2>4, <4>1, <4>2, Zenon DEF AnswersOwn
    <3>2. k > 4 /\ SubSeq(sent[c], k - 4, k) = <<"ZUN", "ZUN", "ZUN", "ZUN", "DOKO">>
      BY <2>3, <3>1 DEF Earned
    <3>3. SubSeq(sent'[c], k - 4, k) = SubSeq(sent[c], k - 4, k)
      <4>1. sent[c] \in Seq(Sendable) /\ sent'[c] \in Seq(Sendable)
        BY <1>1, <1>3, Lens
      <4>2. \A i \in k - 4 .. k : sent'[c][i] = sent[c][i]
        BY <1>3, <3>1, <3>2
      <4>3. k - 4 \in Nat \ {0} /\ k \in Nat /\ k - 4 <= k /\ k <= l /\ k <= l + 1
        BY <1>3, <3>1, <3>2
      <4>4. k <= Len(sent[c]) /\ k <= Len(sent'[c])
        BY <1>3, <4>3 DEF l
      <4> HIDE DEF l
      <4> QED BY <4>1, <4>2, <4>3, <4>4, SubSeqAgree, SMTT(30)
    <3> QED BY <3>1, <3>2, <3>3
  <2> QED BY <1>9, <2>1, <2>4, <2>5, <2>6
<1> QED BY <1>6, <1>7, <1>8, <1>10, <1>11, <1>12, <1>13 DEF IInv

(* A client that gets an answer has nothing under way any more.            *)
LEMMA RecvInv ==
  ASSUME IInv, NEW c \in Clients, RecvReply(c)
  PROVE  IInv'
<1> DEFINE l == Len(got[c])
<1>1. /\ Shape /\ Faulty /\ Counted /\ KiyoshiExactly /\ OneOut /\ Single /\ Apart /\ Own
      /\ NoneForgotten /\ AnswersOwn /\ Solo
  BY DEF IInv
<1>2. /\ c \in waiting /\ waiting' = waiting \ {c}
      /\ dropped' = dropped \ {c}
      /\ UNCHANGED <<state, requests, faults, sent, heard, answered, doubled>>
  BY DEF RecvReply
<1>3. PICK r \in replies :
        /\ r.client = c /\ replies' = replies \ {r}
        /\ got' = [got EXCEPT ![c] = Append(@, [n |-> r.n, type |-> r.type])]
  BY DEF RecvReply
<1> DEFINE a == [n |-> r.n, type |-> r.type]
           R == [n : Nat, type : Type]
<1>4. a \in R /\ a.n = r.n /\ a.type = r.type
  BY <1>1, <1>3, Datagrams
<1>5. got \in [Clients -> Seq(R)] /\ got[c] \in Seq(R) /\ got'[c] = Append(got[c], a)
  BY <1>1, <1>3 DEF Shape
<1> HIDE DEF a, R
<1>6. /\ l \in Nat /\ got' \in [Clients -> Seq(R)] /\ Len(got'[c]) = l + 1
      /\ DOMAIN got'[c] = 1 .. l + 1 /\ DOMAIN got[c] = 1 .. l
      /\ \A k \in 1 .. l : got'[c][k] = got[c][k]
      /\ got'[c][l + 1] = a
      /\ \A b \in Clients : b # c => got'[b] = got[b]
  <2>1. \A b \in Clients : b # c => got'[b] = got[b]
    BY <1>3, <1>5
  <2>2. /\ got'[c] \in Seq(R) /\ Len(got'[c]) = l + 1 /\ l \in Nat
        /\ \A k \in 1 .. l : got'[c][k] = got[c][k]
        /\ got'[c][l + 1] = a
    BY <1>4, <1>5, AppendParts
  <2>3. got' \in [Clients -> Seq(R)]
    BY <1>3, <1>5, <2>1, <2>2
  <2>4. DOMAIN got'[c] = 1 .. l + 1 /\ DOMAIN got[c] = 1 .. l
    BY <1>5, <2>2
  <2> QED BY <2>1, <2>2, <2>3, <2>4
<1>7. Shape' /\ Faulty'
  BY <1>1, <1>2, <1>3, <1>6 DEF Shape, Faulty, R
<1>8. Counted' /\ KiyoshiExactly'
  BY <1>1, <1>2, Idle
<1>9. l + 1 = Len(sent[c])
  BY <1>1, <1>2, Zenon DEF OneOut
<1> HIDE DEF l
<1>10. OneOut'
  <2> SUFFICES ASSUME NEW b \in Clients
               PROVE  Len(sent[b]) = Len(got'[b]) + (IF b \in waiting' THEN 1 ELSE 0)
    BY <1>2 DEF OneOut
  <2>1. CASE b = c
    <3>1. (l + 1) + 0 = Len(sent[c])
      BY <1>6, <1>9
    <3> QED BY <1>2, <1>6, <2>1, <3>1
  <2>2. CASE b # c
    BY <1>1, <1>2, <1>6, <2>2 DEF OneOut
  <2> QED BY <2>1, <2>2
<1>11. c \notin doubled => /\ r.n = Len(sent[c])
                          /\ \A e \in requests' \cup replies' : e.client # c
  <2> SUFFICES ASSUME c \notin doubled
               PROVE  r.n = Len(sent[c]) /\ \A e \in requests' \cup replies' : e.client # c
    OBVIOUS
  <2>1. r \notin requests /\ \A e \in requests \cup replies : e.client = c => e = r
    BY <1>1, <1>3 DEF Single, Apart
  <2>2. r.n = Len(sent[c])
    BY <1>1, <1>3 DEF Single
  <2> QED BY <1>2, <1>3, <2>1, <2>2
<1>12. Single' /\ Apart' /\ NoneForgotten'
  <2>1. Single'
    BY <1>1, <1>2, <1>3, <1>11 DEF Single
  <2>2. Apart'
    BY <1>1, <1>2, <1>3 DEF Apart
  <2>3. NoneForgotten'
    BY <1>1, <1>2, <1>3 DEF NoneForgotten
  <2> QED BY <2>1, <2>2, <2>3
<1>13. Own'
  BY <1>1, <1>2 DEF Own
<1>14. AnswersOwn'
  <2> SUFFICES ASSUME NEW b \in Clients \ doubled, NEW k \in DOMAIN got'[b]
               PROVE  got'[b][k].n = k
    BY <1>2 DEF AnswersOwn
  <2>1. CASE b # c
    BY <1>1, <1>6, <2>1 DEF AnswersOwn
  <2>2. CASE b = c /\ k = l + 1
    BY <1>4, <1>6, <1>9, <1>11, <2>2
  <2>3. CASE b = c /\ k # l + 1
    <3>1. k \in 1 .. l
      BY <1>6, <2>3
    <3> QED BY <1>1, <1>6, <2>3, <3>1 DEF AnswersOwn
  <2> QED BY <2>1, <2>2, <2>3
<1>15. Solo'
  <2> SUFFICES ASSUME NEW b \in Clients, Alone(b)'
               PROVE  /\ Heard(b)'
                      /\ \A q \in replies' : q.client = b => Earned(b, q)'
                      /\ \A k \in DOMAIN got'[b] : Earned(b, got[b][k])'
    BY DEF Solo
  <2>1. b = c
    <3> SUFFICES ASSUME b # c PROVE FALSE
      OBVIOUS
    <3>1. sent[c] = <<>>
      BY <1>2 DEF Alone
    <3> QED BY <1>6, <1>9, <3>1
  <2>2. Alone(c) /\ c \notin doubled
    BY <1>2, <2>1 DEF Alone
  <2>3. /\ Heard(c) /\ Earned(c, r) /\ \A k \in DOMAIN got[c] : Earned(c, got[c][k])
    BY <1>1, <1>3, <2>2 DEF Solo
  <2>4. Heard(c)'
    <3>1. Zuns(sent[c], Len(sent[c]), state)
      BY <1>3, <2>3 DEF Heard
    <3>2. \A q \in requests' : q.client # c
      BY <1>11, <2>2
    <3> QED BY <1>2, <3>1, <3>2 DEF Heard
  <2>5. \A k \in DOMAIN got'[c] : Earned(c, got[c][k])'
    <3> SUFFICES ASSUME NEW k \in 1 .. l + 1 PROVE Earned(c, got'[c][k])
      BY <1>2, <1>6 DEF Earned
    <3>1. CASE k = l + 1
      BY <1>4, <1>6, <2>3, <3>1 DEF Earned
    <3>2. CASE k # l + 1
      <4>1. k \in 1 .. l
        BY <1>6, <3>2
      <4> QED BY <1>6, <2>3, <4>1
    <3> QED BY <3>1, <3>2
  <2>6. \A q \in replies' : q.client # c
    BY <1>11, <2>2
  <2> QED BY <2>1, <2>4, <2>5, <2>6
<1> QED BY <1>7, <1>8, <1>10, <1>12, <1>13, <1>14, <1>15 DEF IInv

(* The server hears a datagram and sends it back.                          *)
LEMMA HanleInv == IInv /\ ClientHanle => IInv'
<1> SUFFICES ASSUME IInv, ClientHanle PROVE IInv'
  OBVIOUS
<1>1. /\ Shape /\ Faulty /\ Counted /\ KiyoshiExactly /\ OneOut /\ Single /\ Apart /\ Own
      /\ NoneForgotten /\ AnswersOwn /\ Solo
  BY DEF IInv
<1>2. PICK r \in requests :
        /\ requests' = requests \ {r}
        /\ state' = Count(state, r.type)
        /\ replies' = replies \cup RepliesTo(r)
        /\ heard' = Append(heard, r.type)
        /\ answered' = Append(answered, Answer(state, r.type))
        /\ UNCHANGED <<waiting, faults, sent, got, dropped, doubled>>
  BY DEF ClientHanle
<1> DEFINE c == r.client
           l == Len(sent[c])
           q == [r EXCEPT !.type = Answer(state, r.type)]
<1>3. /\ c \in Clients /\ r.n \in Nat /\ r.type \in Sendable
      /\ sent[c] \in Seq(Sendable) /\ l \in Nat /\ state \in 0 .. 4
  BY <1>1, Lens, Datagrams DEF Shape
<1>4. /\ replies' = replies \cup {q} /\ q.client = c /\ q.n = r.n
      /\ q.type = Answer(state, r.type) /\ q \in Datagram(Type)
  <2>1. r \in Datagram(Sendable)
    BY <1>1 DEF Shape
  <2>2. Answer(state, r.type) \in Type
    BY <1>3 DEF Answer, Type
  <2> QED BY <1>2, <2>1, <2>2 DEF RepliesTo, Datagram
<1> HIDE DEF q
<1>5. /\ state' \in 0 .. 4
      /\ heard' \in Seq(Sendable) /\ answered' \in Seq(Type) /\ Len(answered') = Len(heard')
      /\ Counted' /\ KiyoshiExactly'
  BY <1>1, <1>2, <1>3, HearOne
<1>6. Shape' /\ Faulty'
  BY <1>1, <1>2, <1>4, <1>5 DEF Shape, Faulty
<1>7. OneOut' /\ AnswersOwn' /\ Own' /\ NoneForgotten'
  <2>1. OneOut' /\ AnswersOwn' /\ Own'
    BY <1>1, <1>2 DEF OneOut, AnswersOwn, Own
  <2>2. NoneForgotten'
    BY <1>1, <1>2, <1>4 DEF NoneForgotten
  <2> QED BY <2>1, <2>2
<1>8. c \notin doubled =>
        /\ \A e \in requests \cup replies : e.client = c => e = r
        /\ r.n = l /\ c \in waiting /\ r \notin replies
  BY <1>1, <1>2 DEF Single, Apart
<1>9. c \notin doubled =>
        /\ \A e \in requests' : e.client # c
        /\ \A e \in replies' : e.client = c => e = q
  BY <1>2, <1>4, <1>8
<1>10. Single'
  <2> SUFFICES ASSUME NEW d \in requests' \cup replies', d.client \notin doubled
               PROVE  /\ d.client \in waiting /\ d.n = Len(sent[d.client])
                      /\ \A e \in requests' \cup replies' : e.client = d.client => e = d
    BY <1>2 DEF Single
  <2>1. CASE d = q
    BY <1>4, <1>8, <1>9, <2>1
  <2>2. CASE d # q
    <3>1. d \in requests \cup replies /\ d.client # c
      BY <1>2, <1>4, <1>8, <1>9, <2>2
    <3>2. \A e \in requests' \cup replies' : e.client = d.client => e \in requests \cup replies
      BY <1>2, <1>4, <3>1
    <3> QED BY <1>1, <3>1, <3>2 DEF Single
  <2> QED BY <2>1, <2>2
<1>11. Apart'
  <2> SUFFICES ASSUME NEW d \in requests', d \in replies' PROVE d.client \in doubled
    BY <1>2 DEF Apart
  <2>1. d \in requests /\ (d \in replies \/ d = q)
    BY <1>2, <1>4
  <2> QED BY <1>1, <1>4, <1>9, <2>1 DEF Apart
<1>12. Solo'
  <2> SUFFICES ASSUME NEW b \in Clients, Alone(b)'
               PROVE  /\ Heard(b)'
                      /\ \A p \in replies' : p.client = b => Earned(b, p)'
                      /\ \A k \in DOMAIN got'[b] : Earned(b, got[b][k])'
    BY DEF Solo
  <2>0. r.n \in 1 .. l /\ r.type = sent[c][r.n]
    BY <1>1 DEF Own
  <2>1. b = c
    <3> SUFFICES ASSUME b # c PROVE FALSE
      OBVIOUS
    <3>1. sent[c] = <<>>
      BY <1>2, <1>3 DEF Alone
    <3> QED BY <2>0, <3>1
  <2>2. Alone(c) /\ c \notin doubled
    BY <1>2, <2>1 DEF Alone
  <2>3. /\ Zuns(sent[c], l - 1, state) /\ \A k \in DOMAIN got[c] : Earned(c, got[c][k])
    BY <1>1, <1>2, <1>3, <2>2 DEF Solo, Heard
  <2>4. r.n = l /\ l \in Nat \ {0} /\ sent[c][l] = r.type
    BY <1>8, <2>0, <2>2
  <2> HIDE DEF l
  <2>5. Zuns(sent[c], l, state')
    <3>1. CASE r.type = "ZUN" /\ state < 4
      <4>1. state' = state + 1
        BY <1>2, <1>3, <3>1 DEF Count
      <4>2. \A j \in l - (state + 1) + 1 .. l : j \in (l - 1) - state + 1 .. l - 1 \/ j = l
        BY <1>3, <2>4
      <4>3. state + 1 <= l
        BY <1>3, <2>3, <2>4 DEF Zuns
      <4> QED BY <2>3, <2>4, <3>1, <4>1, <4>2, <4>3 DEF Zuns
    <3>2. CASE ~ (r.type = "ZUN" /\ state < 4)
      <4>1. state' = 0
        BY <1>2, <3>2, Zenon DEF Count
      <4> QED BY <2>4, <4>1 DEF Zuns
    <3> QED BY <3>1, <3>2
  <2>6. Earned(c, q)
    <3> SUFFICES ASSUME state = 4, r.type = "DOKO"
                 PROVE  /\ l > 4
                        /\ SubSeq(sent[c], l - 4, l) = <<"ZUN", "ZUN", "ZUN", "ZUN", "DOKO">>
      BY <1>3, <1>4, <2>4 DEF Earned, Answer, Sendable
    <3>1. l > 4
      BY <2>3, <2>4 DEF Zuns
    <3>2. \A j \in {l - 4, l - 3, l - 2, l - 1} : j \in (l - 1) - 4 + 1 .. l - 1
      BY <2>4
    <3>3. \A j \in {l - 4, l - 3, l - 2, l - 1} : sent[c][j] = "ZUN"
      BY <2>3, <3>2 DEF Zuns
    <3>4. l <= Len(sent[c])
      BY <2>4 DEF l
    <3> QED BY <1>3, <2>4, <3>1, <3>3, <3>4, FiveOf
  <2>7. Heard(c)'
    <3>1. \A e \in requests' : e.client # c
      BY <1>9, <2>2
    <3> QED BY <1>2, <2>5, <3>1 DEF Heard, l
  <2>8. \A p \in replies' : p.client = c => Earned(c, p)'
    BY <1>2, <1>9, <2>2, <2>6 DEF Earned
  <2>9. \A k \in DOMAIN got'[c] : Earned(c, got[c][k])'
    BY <1>2, <2>3 DEF Earned
  <2> QED BY <2>1, <2>7, <2>8, <2>9
<1> QED BY <1>5, <1>6, <1>7, <1>10, <1>11, <1>12 DEF IInv

(* What goes wrong.                                                        *)
LEMMA LoseInv == IInv /\ (Lose \/ UNCHANGED vars) => IInv'
<1> SUFFICES ASSUME IInv, Lose \/ UNCHANGED vars PROVE IInv'
  OBVIOUS
<1>1. /\ Shape /\ Faulty /\ Counted /\ KiyoshiExactly /\ OneOut /\ Single /\ Apart /\ Own
      /\ NoneForgotten /\ AnswersOwn /\ Solo
  BY DEF IInv
<1>2. /\ requests' \subseteq requests /\ replies' \subseteq replies
      /\ UNCHANGED <<state, waiting, sent, got, heard, answered, doubled>>
      /\ faults' = faults \/ \E fs \in Faults : faults' \subseteq fs
  BY DEF Lose, Fault, vars
<1>3. /\ dropped \subseteq dropped' /\ dropped' \subseteq Clients
      /\ \A d \in requests \cup replies :
           d \in requests' \cup replies' \/ d.client \in dropped'
  BY <1>1, Datagrams DEF Lose, vars, Shape
<1>4. Shape' /\ Faulty'
  BY <1>1, <1>2, <1>3 DEF Shape, Faulty
<1>5. Counted' /\ KiyoshiExactly'
  BY <1>1, <1>2, Idle
<1>6. OneOut' /\ Single' /\ Apart' /\ Own' /\ AnswersOwn'
  BY <1>1, <1>2 DEF OneOut, Single, Apart, Own, AnswersOwn
<1>7. NoneForgotten'
  BY <1>1, <1>2, <1>3 DEF NoneForgotten
<1>8. Solo'
  <2> SUFFICES ASSUME NEW c \in Clients, Alone(c)'
               PROVE  /\ Heard(c)'
                      /\ \A r \in replies' : r.client = c => Earned(c, r)'
                      /\ \A k \in DOMAIN got[c] : Earned(c, got[c][k])'
    BY <1>2 DEF Solo
  <2>1. Alone(c)
    BY <1>2 DEF Alone
  <2>2. /\ Heard(c) /\ \A r \in replies : r.client = c => Earned(c, r)
        /\ \A k \in DOMAIN got[c] : Earned(c, got[c][k])
    BY <1>1, <2>1 DEF Solo
  <2> QED BY <1>2, <2>2 DEF Heard, Earned
<1> QED BY <1>4, <1>5, <1>6, <1>7, <1>8 DEF IInv

LEMMA DuplicateInv == IInv /\ (DuplicateRequest \/ DuplicateReply) => IInv'
<1> SUFFICES ASSUME IInv, DuplicateRequest \/ DuplicateReply PROVE IInv'
  OBVIOUS
<1>1. /\ Shape /\ Faulty /\ Counted /\ KiyoshiExactly /\ OneOut /\ Single /\ Apart /\ Own
      /\ NoneForgotten /\ AnswersOwn /\ Solo
  BY DEF IInv
<1>2. /\ UNCHANGED <<state, waiting, sent, got, heard, answered, dropped>>
      /\ \E fs \in Faults : faults' \subseteq fs
  BY DEF DuplicateRequest, DuplicateReply, Fault
<1>3. PICK d \in requests \cup replies :
        /\ doubled' = doubled \cup {d.client}
        /\ \/ requests' = requests \cup {[d EXCEPT !.copy = 2]} /\ d \in requests
              /\ replies' = replies
           \/ replies' = replies \cup {[d EXCEPT !.copy = 2]} /\ d \in replies
              /\ requests' = requests
  BY DEF DuplicateRequest, DuplicateReply
<1> DEFINE e == [d EXCEPT !.copy = 2]
<1>4. e.client = d.client /\ e.n = d.n /\ e.type = d.type /\ d.client \in Clients
      /\ (d \in requests => e \in Datagram(Sendable)) /\ (d \in replies => e \in Datagram(Type))
  <2>1. d \in requests => d \in Datagram(Sendable)
    BY <1>1 DEF Shape
  <2>2. d \in replies => d \in Datagram(Type)
    BY <1>1 DEF Shape
  <2>3. \A T : d \in Datagram(T) =>
          /\ e.client = d.client /\ e.n = d.n /\ e.type = d.type /\ d.client \in Clients
          /\ e \in Datagram(T)
    BY DEF Datagram
  <2> HIDE DEF e
  <2> QED BY <2>1, <2>2, <2>3
<1>5. /\ requests \subseteq requests' /\ replies \subseteq replies'
      /\ requests' \subseteq requests \cup {e} /\ (e \in requests' => e \in requests \/ d \in requests)
      /\ replies' \subseteq replies \cup {e} /\ (e \in replies' => e \in replies \/ d \in replies)
  BY <1>3
<1> HIDE DEF e
<1>6. Shape' /\ Faulty'
  <2>1. requests' \subseteq Datagram(Sendable) /\ replies' \subseteq Datagram(Type)
    BY <1>1, <1>4, <1>5 DEF Shape
  <2>2. dropped' \subseteq Clients /\ doubled' \subseteq Clients
    BY <1>1, <1>2, <1>3, <1>4 DEF Shape
  <2> QED BY <1>1, <1>2, <2>1, <2>2 DEF Shape, Faulty
<1>7. Counted' /\ KiyoshiExactly'
  BY <1>1, <1>2, Idle
<1>8. OneOut' /\ NoneForgotten' /\ AnswersOwn'
  BY <1>1, <1>2, <1>3, <1>5 DEF OneOut, NoneForgotten, AnswersOwn
<1>9. Own'
  BY <1>1, <1>2, <1>4, <1>5 DEF Own
<1>10. \A x \in requests' \cup replies' :
         x.client \notin doubled' => x \in requests \cup replies /\ x.client \notin doubled /\ x # e
  BY <1>3, <1>4, <1>5
<1>11. Single'
  <2> SUFFICES ASSUME NEW x \in requests' \cup replies', x.client \notin doubled'
               PROVE  /\ x.client \in waiting /\ x.n = Len(sent[x.client])
                      /\ \A y \in requests' \cup replies' : y.client = x.client => y = x
    BY <1>2 DEF Single
  <2> QED BY <1>1, <1>10 DEF Single
<1>12. Apart'
  <2> SUFFICES ASSUME NEW x \in requests', x \in replies', x.client \notin doubled' PROVE FALSE
    BY DEF Apart
  <2>1. x \in requests /\ x \in replies /\ x.client \notin doubled
    BY <1>5, <1>10
  <2> QED BY <1>1, <2>1 DEF Apart
<1>13. Solo'
  <2> SUFFICES ASSUME NEW c \in Clients, Alone(c)'
               PROVE  /\ Heard(c)'
                      /\ \A x \in replies' : x.client = c => Earned(c, x)'
                      /\ \A k \in DOMAIN got[c] : Earned(c, got[c][k])'
    BY <1>2 DEF Solo
  <2>1. Alone(c) /\ c \notin doubled' /\ e.client # c
    BY <1>2, <1>3, <1>4 DEF Alone
  <2>2. /\ Heard(c) /\ \A x \in replies : x.client = c => Earned(c, x)
        /\ \A k \in DOMAIN got[c] : Earned(c, got[c][k])
    BY <1>1, <2>1 DEF Solo
  <2>3. /\ \A x \in requests' : x.client = c => x \in requests
        /\ \A x \in replies' : x.client = c => x \in replies
    BY <1>5, <2>1
  <2> QED BY <1>2, <2>2, <2>3 DEF Heard, Earned
<1> QED BY <1>6, <1>7, <1>8, <1>9, <1>11, <1>12, <1>13 DEF IInv

LEMMA RestartInv == IInv /\ Restart => IInv'
<1> SUFFICES ASSUME IInv, Restart PROVE IInv'
  OBVIOUS
<1>1. /\ Shape /\ Faulty /\ OneOut /\ Single /\ Apart /\ Own /\ NoneForgotten
      /\ AnswersOwn /\ Solo
  BY DEF IInv
<1>2. /\ state' = 0 /\ heard' = <<>> /\ answered' = <<>>
      /\ requests' \subseteq requests
      /\ UNCHANGED <<replies, waiting, sent, got, doubled>>
      /\ \E fs \in Faults : faults' \subseteq fs
  BY DEF Restart, Fault
<1>0. /\ dropped \subseteq dropped' /\ dropped' \subseteq Clients
      /\ \A d \in requests : d \in requests' \/ d.client \in dropped'
  BY <1>1, Datagrams DEF Restart, Shape
<1>3. \A S : <<>> \in Seq(S)
  OBVIOUS
<1>4. Shape' /\ Faulty'
  <2>1. heard' \in Seq(Sendable) /\ answered' \in Seq(Type) /\ Len(answered') = Len(heard')
    BY <1>2, <1>3
  <2>2. state' \in 0 .. 4
    BY <1>2
  <2>3. Faulty'
    BY <1>2 DEF Faulty
  <2> QED BY <1>0, <1>1, <1>2, <2>1, <2>2, <2>3 DEF Shape
<1>5. Counted' /\ KiyoshiExactly'
  <2>1. 0 \in 0 .. Len(heard') /\ 0 % 5 = state' /\ Len(heard') = 0
    BY <1>2
  <2>2. Streak(heard', 0, 0)
    BY DEF Streak, Zuns
  <2> QED BY <1>2, <2>1, <2>2 DEF Counted, KiyoshiExactly
<1>6. OneOut' /\ Single' /\ Apart' /\ Own' /\ AnswersOwn'
  BY <1>1, <1>2 DEF OneOut, Single, Apart, Own, AnswersOwn
<1>7. NoneForgotten'
  BY <1>0, <1>1, <1>2 DEF NoneForgotten
<1>8. Solo'
  <2> SUFFICES ASSUME NEW c \in Clients, Alone(c)'
               PROVE  /\ Heard(c)'
                      /\ \A r \in replies : r.client = c => Earned(c, r)'
                      /\ \A k \in DOMAIN got[c] : Earned(c, got[c][k])'
    BY <1>2 DEF Solo
  <2>1. Alone(c)
    BY <1>2 DEF Alone
  <2>2. /\ \A r \in replies : r.client = c => Earned(c, r)
        /\ \A k \in DOMAIN got[c] : Earned(c, got[c][k])
    BY <1>1, <2>1 DEF Solo
  <2>3. Len(sent[c]) \in Nat /\ Zuns(sent[c], Len(sent[c]), 0)
    BY <1>1, Lens DEF Zuns
  <2>4. (\E r \in requests : r.client = c) => Zuns(sent[c], Len(sent[c]) - 1, 0)
    <3> SUFFICES ASSUME NEW r \in requests, r.client = c
                 PROVE  Zuns(sent[c], Len(sent[c]) - 1, 0)
      OBVIOUS
    <3>1. r.n \in 1 .. Len(sent[c])
      BY <1>1 DEF Own
    <3> QED BY <2>3, <3>1 DEF Zuns
  <2> QED BY <1>2, <2>2, <2>3, <2>4 DEF Heard, Earned
<1> QED BY <1>4, <1>5, <1>6, <1>7, <1>8 DEF IInv

-------------------------------------------------------------------------------
LEMMA NextInv == IInv /\ [Next]_vars => IInv'
<1> SUFFICES ASSUME IInv, [Next]_vars PROVE IInv'
  OBVIOUS
<1>1. CASE \E c \in Clients, type \in Sendable : SendZundoko(c, type)
  BY <1>1, SendInv
<1>2. CASE \E c \in Clients : RecvReply(c)
  BY <1>2, RecvInv
<1>3. CASE ClientHanle
  BY <1>3, HanleInv
<1>4. CASE Lose \/ UNCHANGED vars
  BY <1>4, LoseInv
<1>5. CASE DuplicateRequest \/ DuplicateReply
  BY <1>5, DuplicateInv
<1>6. CASE Restart
  BY <1>6, RestartInv
<1> QED BY <1>1, <1>2, <1>3, <1>4, <1>5, <1>6 DEF Next

(* The inductive invariant: the server's state is the run of ZUN it heard  *)
(* last, modulo five, a client has at most one datagram under way, and for *)
(* a client that is alone that run is one of its own datagrams.            *)
THEOREM Inductive == Spec => []IInv
<1> QED BY InitInv, NextInv, PTL DEF Spec

(* The variables keep their types; the server never exits for its state.   *)
THEOREM Typing == Spec => []TypeOK
<1>1. IInv => TypeOK
  BY DEF IInv, Shape, Faulty, TypeOK
<1> QED BY <1>1, Inductive, PTL

(* However the datagrams of any number of clients come in, KIYOSHI answers *)
(* the DOKO behind four ZUN, counted from the last fifth one, and no other.*)
THEOREM ExactlyThese == Spec => []KiyoshiExactly
<1>1. IInv => KiyoshiExactly
  BY DEF IInv
<1> QED BY <1>1, Inductive, PTL

(* A client takes no answer for that of another one of its datagrams, when *)
(* the network duplicates none of that client: what becomes of those of    *)
(* others, losses and restarts do not matter.                              *)
THEOREM OwnAnswers == Spec => []AnswersOwn
<1>1. IInv => AnswersOwn
  BY DEF IInv
<1> QED BY <1>1, Inductive, PTL

(* No client waits for nothing, unless a datagram of it was lost since it  *)
(* got the last one: the server, stopped or not, forgets none that it      *)
(* heard, and no answer goes to somebody else.                             *)
THEOREM AllPending == Spec => []NoneForgotten
<1>1. IInv => NoneForgotten
  BY DEF IInv
<1> QED BY <1>1, Inductive, PTL

(* A client that has the server for itself gets KIYOSHI for its own zun zun*)
(* zun zun doko only, through losses and restarts of the server.           *)
THEOREM EarnedAlone == Spec => []AloneEarned
<1>1. IInv => AloneEarned
  <2> SUFFICES ASSUME IInv, NEW c \in Clients, c \notin doubled,
                      \A d \in Clients \ {c} : sent[d] = <<>>,
                      NEW k \in DOMAIN got[c], got[c][k].type = "KIYOSHI"
               PROVE  /\ k > 4
                      /\ SubSeq(sent[c], k - 4, k) = <<"ZUN", "ZUN", "ZUN", "ZUN", "DOKO">>
    BY DEF AloneEarned
  <2>1. got[c][k].n = k
    BY DEF IInv, AnswersOwn
  <2>2. Earned(c, got[c][k])
    BY DEF IInv, Solo, Alone
  <2> QED BY <2>1, <2>2 DEF Earned
<1> QED BY <1>1, Inductive, PTL
=============================================================================
