---------------------------- MODULE PartyProofs ----------------------------
(***************************************************************************)
(* Of every instance of Party: ids, slots and flags keep their types, and  *)
(* no character is listed twice in a party, at the char-server or in a     *)
(* copy.  The second rests on the order of the packets on a link, so the   *)
(* module begins with what adding to the end of a queue and taking its     *)
(* head do to such an order.                                               *)
(***************************************************************************)
EXTENDS Party, FoldFacts, FiniteSetTheorems, TLAPS

-----------------------------------------------------------------------------
(***************************************************************************)
(* Queues.  X, Y and Z are kinds of packets.                               *)
(***************************************************************************)
Occ(q, X) == \E i \in DOMAIN q : q[i] \in X
One(q, X) == \A i, j \in DOMAIN q : q[i] \in X /\ q[j] \in X => i = j

\* Each X has a Y behind it; each Z a Y ahead of it; each X is ahead of
\* each Z, with a Y between them; each X is ahead of each Z.
Followed(q, X, Y) == \A i \in DOMAIN q : q[i] \in X => \E j \in DOMAIN q : i < j /\ q[j] \in Y
Led(q, Y, Z) == \A k \in DOMAIN q : q[k] \in Z => \E j \in DOMAIN q : j < k /\ q[j] \in Y
Between(q, X, Y, Z) ==
    \A i, k \in DOMAIN q : q[i] \in X /\ q[k] \in Z => \E j \in DOMAIN q : i < j /\ j < k /\ q[j] \in Y
Ahead(q, X, Z) == \A i, k \in DOMAIN q : q[i] \in X /\ q[k] \in Z => i < k

\* Where the packets of two queues are when one is added to the other.
LEMMA JoinIndex ==
    ASSUME NEW S, NEW q \in Seq(S), NEW r \in Seq(S)
    PROVE  /\ q \o r \in Seq(S) /\ DOMAIN (q \o r) = 1..(Len(q) + Len(r))
           /\ DOMAIN q = 1..Len(q) /\ DOMAIN r = 1..Len(r) /\ Len(q) \in Nat /\ Len(r) \in Nat
           /\ \A i \in DOMAIN q : i \in DOMAIN (q \o r) /\ (q \o r)[i] = q[i]
           /\ \A i \in DOMAIN r : i + Len(q) \in DOMAIN (q \o r) /\ (q \o r)[i + Len(q)] = r[i]
           /\ \A i \in DOMAIN (q \o r) : \/ i \in DOMAIN q /\ (q \o r)[i] = q[i]
                                         \/ i - Len(q) \in DOMAIN r /\ (q \o r)[i] = r[i - Len(q)]
OBVIOUS

\* Adding one queue after the other.
LEMMA JoinJoin ==
    ASSUME NEW S, NEW x \in Seq(S), NEW y \in Seq(S), NEW z \in Seq(S)
    PROVE  (x \o y) \o z = x \o (y \o z) /\ x \o (y \o z) \in Seq(S) /\ x \o <<>> = x
<1>1. x \o y \in Seq(S) /\ y \o z \in Seq(S) OBVIOUS
<1>2. (x \o y) \o z \in Seq(S) /\ x \o (y \o z) \in Seq(S) BY <1>1
<1>3. Len((x \o y) \o z) = Len(x \o (y \o z)) BY <1>1
<1>4. \A i \in 1..Len((x \o y) \o z) : ((x \o y) \o z)[i] = (x \o (y \o z))[i] BY <1>1
<1>5. x \o <<>> \in Seq(S) /\ Len(x \o <<>>) = Len(x) /\ \A i \in 1..Len(x) : (x \o <<>>)[i] = x[i] OBVIOUS
<1> QED BY <1>2, <1>3, <1>4, <1>5

\* Where the packets are when the head is taken.
LEMMA TailIndex ==
    ASSUME NEW S, NEW q \in Seq(S), q # <<>>
    PROVE  /\ Tail(q) \in Seq(S) /\ Head(q) \in S /\ Head(q) = q[1] /\ 1 \in DOMAIN q
           /\ DOMAIN q = 1..Len(q) /\ Len(q) \in Nat /\ DOMAIN Tail(q) = 1..(Len(q) - 1)
           /\ \A i \in DOMAIN Tail(q) : i + 1 \in DOMAIN q /\ Tail(q)[i] = q[i + 1]
           /\ \A i \in DOMAIN q : i = 1 \/ (i - 1 \in DOMAIN Tail(q) /\ Tail(q)[i - 1] = q[i])
OBVIOUS

\* What adding to a queue keeps.
LEMMA JoinKeeps ==
    ASSUME NEW S, NEW q \in Seq(S), NEW r \in Seq(S), NEW X, NEW Y, NEW Z
    PROVE  /\ Occ(q \o r, X) <=> Occ(q, X) \/ Occ(r, X)
           /\ One(q, X) /\ One(r, X) /\ ~(Occ(q, X) /\ Occ(r, X)) => One(q \o r, X)
           /\ Followed(q, X, Y) /\ Followed(r, X, Y) => Followed(q \o r, X, Y)
           /\ Occ(r, Y) /\ Followed(r, X, Y) => Followed(q \o r, X, Y)
           /\ Led(q, Y, Z) /\ (Occ(q, Y) \/ Led(r, Y, Z)) => Led(q \o r, Y, Z)
           /\ Ahead(q, X, Z) /\ Ahead(r, X, Z) /\ ~(Occ(q, Z) /\ Occ(r, X)) => Ahead(q \o r, X, Z)
<1> DEFINE w == q \o r
<1>i. /\ DOMAIN w = 1..(Len(q) + Len(r))
      /\ DOMAIN q = 1..Len(q) /\ DOMAIN r = 1..Len(r) /\ Len(q) \in Nat /\ Len(r) \in Nat
      /\ \A i \in DOMAIN q : i \in DOMAIN w /\ w[i] = q[i]
      /\ \A i \in DOMAIN r : i + Len(q) \in DOMAIN w /\ w[i + Len(q)] = r[i]
      /\ \A i \in DOMAIN w : \/ i \in DOMAIN q /\ w[i] = q[i]
                             \/ i - Len(q) \in DOMAIN r /\ w[i] = r[i - Len(q)]
  BY JoinIndex
<1> HIDE DEF w
<1>1. Occ(w, X) <=> Occ(q, X) \/ Occ(r, X) BY <1>i DEF Occ
<1>2. One(q, X) /\ One(r, X) /\ ~(Occ(q, X) /\ Occ(r, X)) => One(w, X) BY <1>i DEF One, Occ
<1>3. Followed(q, X, Y) /\ Followed(r, X, Y) => Followed(w, X, Y)
  <2> SUFFICES ASSUME Followed(q, X, Y), Followed(r, X, Y), NEW i \in DOMAIN w, w[i] \in X
               PROVE  \E j \in DOMAIN w : i < j /\ w[j] \in Y
    BY DEF Followed
  <2>1. CASE i \in DOMAIN q /\ w[i] = q[i]
    <3>1. PICK j \in DOMAIN q : i < j /\ q[j] \in Y BY <2>1 DEF Followed
    <3> QED BY <3>1, <1>i
  <2>2. CASE i - Len(q) \in DOMAIN r /\ w[i] = r[i - Len(q)]
    <3>1. PICK j \in DOMAIN r : i - Len(q) < j /\ r[j] \in Y BY <2>2 DEF Followed
    <3>2. j + Len(q) \in DOMAIN w /\ w[j + Len(q)] = r[j] BY <1>i
    <3> QED BY <3>1, <3>2, <1>i
  <2> QED BY <1>i, <2>1, <2>2
<1>4. Occ(r, Y) /\ Followed(r, X, Y) => Followed(w, X, Y)
  <2> SUFFICES ASSUME Occ(r, Y), Followed(r, X, Y), NEW i \in DOMAIN w, w[i] \in X
               PROVE  \E j \in DOMAIN w : i < j /\ w[j] \in Y
    BY DEF Followed
  <2>1. CASE i \in DOMAIN q /\ w[i] = q[i]
    <3>1. PICK j \in DOMAIN r : r[j] \in Y BY DEF Occ
    <3>2. j + Len(q) \in DOMAIN w /\ w[j + Len(q)] = r[j] BY <1>i
    <3> QED BY <2>1, <3>1, <3>2, <1>i
  <2>2. CASE i - Len(q) \in DOMAIN r /\ w[i] = r[i - Len(q)]
    <3>1. PICK j \in DOMAIN r : i - Len(q) < j /\ r[j] \in Y BY <2>2 DEF Followed
    <3>2. j + Len(q) \in DOMAIN w /\ w[j + Len(q)] = r[j] BY <1>i
    <3> QED BY <3>1, <3>2, <1>i
  <2> QED BY <1>i, <2>1, <2>2
<1>5. Led(q, Y, Z) /\ (Occ(q, Y) \/ Led(r, Y, Z)) => Led(w, Y, Z)
  <2> SUFFICES ASSUME Led(q, Y, Z), Occ(q, Y) \/ Led(r, Y, Z), NEW k \in DOMAIN w, w[k] \in Z
               PROVE  \E j \in DOMAIN w : j < k /\ w[j] \in Y
    BY DEF Led
  <2>1. CASE k \in DOMAIN q /\ w[k] = q[k]
    <3>1. PICK j \in DOMAIN q : j < k /\ q[j] \in Y BY <2>1 DEF Led
    <3> QED BY <3>1, <1>i
  <2>2. CASE k - Len(q) \in DOMAIN r /\ w[k] = r[k - Len(q)]
    <3>1. CASE Occ(q, Y)
      <4>1. PICK j \in DOMAIN q : q[j] \in Y BY <3>1 DEF Occ
      <4> QED BY <4>1, <2>2, <1>i
    <3>2. CASE Led(r, Y, Z)
      <4>1. PICK j \in DOMAIN r : j < k - Len(q) /\ r[j] \in Y BY <2>2, <3>2 DEF Led
      <4>2. j + Len(q) \in DOMAIN w /\ w[j + Len(q)] = r[j] BY <1>i
      <4> QED BY <4>1, <4>2, <1>i
    <3> QED BY <3>1, <3>2
  <2> QED BY <1>i, <2>1, <2>2
<1>6. Ahead(q, X, Z) /\ Ahead(r, X, Z) /\ ~(Occ(q, Z) /\ Occ(r, X)) => Ahead(w, X, Z)
  BY <1>i DEF Ahead, Occ
<1> QED BY <1>1, <1>2, <1>3, <1>4, <1>5, <1>6 DEF w

\* Of one kind.
LEMMA JoinOcc ==
    ASSUME NEW S, NEW q \in Seq(S), NEW r \in Seq(S), NEW w, w = q \o r, NEW X
    PROVE  /\ Occ(w, X) <=> Occ(q, X) \/ Occ(r, X)
           /\ One(q, X) /\ One(r, X) /\ ~(Occ(q, X) /\ Occ(r, X)) => One(w, X)
BY JoinKeeps

\* Of two kinds.
LEMMA JoinFollowed ==
    ASSUME NEW S, NEW q \in Seq(S), NEW r \in Seq(S), NEW w, w = q \o r, NEW X, NEW Y,
           Followed(r, X, Y), Followed(q, X, Y) \/ Occ(r, Y)
    PROVE  Followed(w, X, Y)
BY JoinKeeps

\* Of two kinds, one of them only in the first queue.
LEMMA JoinAhead ==
    ASSUME NEW S, NEW q \in Seq(S), NEW r \in Seq(S), NEW w, w = q \o r, NEW X, NEW Z, Ahead(q, X, Z), ~Occ(r, X)
    PROVE  Ahead(w, X, Z)
<1>1. Ahead(r, X, Z) BY DEF Ahead, Occ
<1> QED BY <1>1, JoinKeeps

\* The same of three kinds.
LEMMA JoinBetween ==
    ASSUME NEW S, NEW q \in Seq(S), NEW r \in Seq(S), NEW X, NEW Y, NEW Z,
           Between(q, X, Y, Z), Between(r, X, Y, Z),
           \/ ~Occ(q, X) \/ ~Occ(r, Z) \/ Followed(q, X, Y) \/ Led(r, Y, Z),
           ~(Occ(q, Z) /\ Occ(r, X))
    PROVE  Between(q \o r, X, Y, Z)
<1> DEFINE w == q \o r
<1>i. /\ DOMAIN w = 1..(Len(q) + Len(r))
      /\ DOMAIN q = 1..Len(q) /\ DOMAIN r = 1..Len(r) /\ Len(q) \in Nat /\ Len(r) \in Nat
      /\ \A i \in DOMAIN q : i \in DOMAIN w /\ w[i] = q[i]
      /\ \A i \in DOMAIN r : i + Len(q) \in DOMAIN w /\ w[i + Len(q)] = r[i]
      /\ \A i \in DOMAIN w : \/ i \in DOMAIN q /\ w[i] = q[i]
                             \/ i - Len(q) \in DOMAIN r /\ w[i] = r[i - Len(q)]
  BY JoinIndex
<1> HIDE DEF w
<1>1. SUFFICES ASSUME NEW i \in DOMAIN w, NEW k \in DOMAIN w, w[i] \in X, w[k] \in Z
               PROVE  \E j \in DOMAIN w : i < j /\ j < k /\ w[j] \in Y
  BY DEF Between, w
<1>2. CASE i \in DOMAIN q /\ w[i] = q[i] /\ k \in DOMAIN q /\ w[k] = q[k]
  <2>1. PICK j \in DOMAIN q : i < j /\ j < k /\ q[j] \in Y BY <1>1, <1>2 DEF Between
  <2> QED BY <2>1, <1>i
<1>3. CASE i - Len(q) \in DOMAIN r /\ w[i] = r[i - Len(q)] /\ k - Len(q) \in DOMAIN r /\ w[k] = r[k - Len(q)]
  <2>1. PICK j \in DOMAIN r : i - Len(q) < j /\ j < k - Len(q) /\ r[j] \in Y BY <1>1, <1>3 DEF Between
  <2>2. j + Len(q) \in DOMAIN w /\ w[j + Len(q)] = r[j] BY <1>i
  <2> QED BY <2>1, <2>2, <1>i
<1>4. CASE i - Len(q) \in DOMAIN r /\ w[i] = r[i - Len(q)] /\ k \in DOMAIN q /\ w[k] = q[k]
  BY <1>1, <1>4 DEF Occ
<1>5. CASE i \in DOMAIN q /\ w[i] = q[i] /\ k - Len(q) \in DOMAIN r /\ w[k] = r[k - Len(q)]
  <2>1. Occ(q, X) /\ Occ(r, Z) BY <1>1, <1>5 DEF Occ
  <2>2. CASE Followed(q, X, Y)
    <3>1. PICK j \in DOMAIN q : i < j /\ q[j] \in Y BY <1>1, <1>5, <2>2 DEF Followed
    <3> QED BY <3>1, <1>5, <1>i
  <2>3. CASE Led(r, Y, Z)
    <3>1. PICK j \in DOMAIN r : j < k - Len(q) /\ r[j] \in Y BY <1>1, <1>5, <2>3 DEF Led
    <3>2. j + Len(q) \in DOMAIN w /\ w[j + Len(q)] = r[j] BY <1>i
    <3>3. i < j + Len(q) /\ j + Len(q) < k BY <3>1, <1>5, <1>i
    <3> QED BY <3>1, <3>2, <3>3
  <2> QED BY <2>1, <2>2, <2>3
<1> QED BY <1>i, <1>2, <1>3, <1>4, <1>5

\* What taking the head keeps, and what the head says of the rest.
LEMMA TailKeeps ==
    ASSUME NEW S, NEW q \in Seq(S), q # <<>>, NEW X, NEW Y, NEW Z
    PROVE  /\ Occ(q, X) <=> Head(q) \in X \/ Occ(Tail(q), X)
           /\ One(q, X) => One(Tail(q), X)
           /\ One(q, X) /\ Head(q) \in X => ~Occ(Tail(q), X)
           /\ Followed(q, X, Y) => Followed(Tail(q), X, Y)
           /\ Followed(q, X, Y) /\ Head(q) \in X => Occ(Tail(q), Y)
           /\ Led(q, Y, Z) /\ Head(q) \notin Y => Led(Tail(q), Y, Z)
           /\ Led(q, Y, Z) => Head(q) \notin Z
           /\ Between(q, X, Y, Z) => Between(Tail(q), X, Y, Z)
           /\ Between(q, X, Y, Z) /\ Head(q) \in X => Led(Tail(q), Y, Z)
           /\ Between(q, X, Y, Z) /\ Head(q) \in Z => ~Occ(q, X)
           /\ Ahead(q, X, Z) => Ahead(Tail(q), X, Z)
           /\ Ahead(q, X, Z) /\ Head(q) \in Z => ~Occ(q, X)
<1> DEFINE t == Tail(q)
           h == Head(q)
<1>i. /\ h = q[1] /\ 1 \in DOMAIN q
      /\ DOMAIN q = 1..Len(q) /\ Len(q) \in Nat /\ DOMAIN t = 1..(Len(q) - 1)
      /\ \A i \in DOMAIN t : i + 1 \in DOMAIN q /\ t[i] = q[i + 1]
      /\ \A i \in DOMAIN q : i = 1 \/ (i - 1 \in DOMAIN t /\ t[i - 1] = q[i])
  BY TailIndex
<1> HIDE DEF t, h
<1>1. Occ(q, X) <=> h \in X \/ Occ(t, X) BY <1>i DEF Occ
<1>2. One(q, X) => One(t, X) BY <1>i DEF One
<1>3. One(q, X) /\ h \in X => ~Occ(t, X) BY <1>i DEF One, Occ
<1>4. Followed(q, X, Y) => Followed(t, X, Y)
  <2> SUFFICES ASSUME Followed(q, X, Y), NEW i \in DOMAIN t, t[i] \in X PROVE \E j \in DOMAIN t : i < j /\ t[j] \in Y
    BY DEF Followed
  <2>1. PICK j \in DOMAIN q : i + 1 < j /\ q[j] \in Y BY <1>i DEF Followed
  <2> QED BY <2>1, <1>i
<1>5. Followed(q, X, Y) /\ h \in X => Occ(t, Y) BY <1>i DEF Followed, Occ
<1>6. Led(q, Y, Z) /\ h \notin Y => Led(t, Y, Z)
  <2> SUFFICES ASSUME Led(q, Y, Z), h \notin Y, NEW k \in DOMAIN t, t[k] \in Z PROVE \E j \in DOMAIN t : j < k /\ t[j] \in Y
    BY DEF Led
  <2>1. PICK j \in DOMAIN q : j < k + 1 /\ q[j] \in Y BY <1>i DEF Led
  <2> QED BY <2>1, <1>i
<1>7. Led(q, Y, Z) => h \notin Z BY <1>i DEF Led
<1>8. Between(q, X, Y, Z) => Between(t, X, Y, Z)
  <2> SUFFICES ASSUME Between(q, X, Y, Z), NEW i \in DOMAIN t, NEW k \in DOMAIN t, t[i] \in X, t[k] \in Z
               PROVE  \E j \in DOMAIN t : i < j /\ j < k /\ t[j] \in Y
    BY DEF Between
  <2>1. PICK j \in DOMAIN q : i + 1 < j /\ j < k + 1 /\ q[j] \in Y BY <1>i DEF Between
  <2>2. j - 1 \in DOMAIN t /\ t[j - 1] = q[j] /\ i < j - 1 /\ j - 1 < k BY <2>1, <1>i
  <2> QED BY <2>1, <2>2
<1>9. Between(q, X, Y, Z) /\ h \in X => Led(t, Y, Z)
  <2> SUFFICES ASSUME Between(q, X, Y, Z), h \in X, NEW k \in DOMAIN t, t[k] \in Z
               PROVE  \E j \in DOMAIN t : j < k /\ t[j] \in Y
    BY DEF Led
  <2>1. PICK j \in DOMAIN q : 1 < j /\ j < k + 1 /\ q[j] \in Y BY <1>i DEF Between
  <2>2. j - 1 \in DOMAIN t /\ t[j - 1] = q[j] /\ j - 1 < k BY <2>1, <1>i
  <2> QED BY <2>1, <2>2
<1>10. Between(q, X, Y, Z) /\ h \in Z => ~Occ(q, X) BY <1>i DEF Between, Occ
<1>11. Ahead(q, X, Z) => Ahead(t, X, Z) BY <1>i DEF Ahead
<1>12. Ahead(q, X, Z) /\ h \in Z => ~Occ(q, X) BY <1>i DEF Ahead, Occ
<1> QED BY <1>1, <1>2, <1>3, <1>4, <1>5, <1>6, <1>7, <1>8, <1>9, <1>10, <1>11, <1>12 DEF t, h

\* Empty queues, and queues without a kind.
LEMMA Without ==
    ASSUME NEW q, NEW X, NEW Y, NEW Z
    PROVE  /\ q = <<>> => ~Occ(q, X)
           /\ ~Occ(q, X) => One(q, X) /\ Followed(q, X, Y) /\ Between(q, X, Y, Z) /\ Ahead(q, X, Z)
           /\ ~Occ(q, Z) => Led(q, Y, Z) /\ Between(q, X, Y, Z) /\ Ahead(q, X, Z)
BY DEF Occ, One, Followed, Between, Ahead, Led

\* Nothing of A is added, and at most the head is gone.
Calm(q, w, S, A) == \E r \in Seq(S) : ~Occ(r, A) /\ (w = q \o r \/ (q # <<>> /\ w = Tail(q) \o r) \/ w = <<>>)

\* What such a step keeps.
LEMMA CalmKeeps ==
    ASSUME NEW S, NEW q \in Seq(S), NEW w, NEW A, Calm(q, w, S, A),
           NEW X \in SUBSET A, NEW Y, NEW Z \in SUBSET A
    PROVE  /\ Occ(w, X) => Occ(q, X)
           /\ One(q, X) => One(w, X)
           /\ Followed(q, X, Y) => Followed(w, X, Y)
           /\ Ahead(q, X, Z) => Ahead(w, X, Z)
<1>1. PICK r \in Seq(S) : ~Occ(r, A) /\ (w = q \o r \/ (q # <<>> /\ w = Tail(q) \o r) \/ w = <<>>) BY DEF Calm
<1>2. ~Occ(r, X) /\ ~Occ(r, Z) BY <1>1 DEF Occ
<1>3. One(r, X) /\ Followed(r, X, Y) /\ Ahead(r, X, Z) BY <1>2, Without
<1>4. CASE w = q \o r BY <1>2, <1>3, <1>4, JoinKeeps
<1>5. CASE q # <<>> /\ w = Tail(q) \o r
  <2>1. Tail(q) \in Seq(S) BY <1>5
  <2>2. /\ Occ(Tail(q), X) => Occ(q, X)
        /\ One(q, X) => One(Tail(q), X)
        /\ Followed(q, X, Y) => Followed(Tail(q), X, Y)
        /\ Ahead(q, X, Z) => Ahead(Tail(q), X, Z)
    BY <1>5, TailKeeps
  <2> HIDE DEF Calm
  <2> QED BY <1>2, <1>3, <1>5, <2>1, <2>2, JoinKeeps
<1>6. CASE w = <<>> BY <1>6, Without
<1> QED BY <1>1, <1>4, <1>5, <1>6

\* The three ways.
LEMMA CalmIs ==
    ASSUME NEW S, NEW q \in Seq(S), NEW A
    PROVE  /\ Calm(q, q, S, A) /\ Calm(q, <<>>, S, A)
           /\ q # <<>> => Calm(q, Tail(q), S, A)
           /\ \A r \in Seq(S) : ~Occ(r, A) => Calm(q, q \o r, S, A)
<1>1. <<>> \in Seq(S) /\ ~Occ(<<>>, A) BY DEF Occ
<1>2. q = q \o <<>> BY JoinJoin
<1>3. q # <<>> => Tail(q) = Tail(q) \o <<>>
  <2>1. q # <<>> => Tail(q) \in Seq(S) OBVIOUS
  <2> QED BY <2>1, JoinJoin
<1> QED BY <1>1, <1>2, <1>3 DEF Calm

-----------------------------------------------------------------------------
(***************************************************************************)
(* The inductive invariant.  Types: ids are of parties that were founded,  *)
(* so that the next one is new to every record and every packet.           *)
(***************************************************************************)
Known == {p \in Parties : p < nextid}

Places == 1..MAX_PARTY
Entry == [char : Chars \cup {0}, leader : BOOLEAN, online : BOOLEAN]
CopyEntry == [char : Chars \cup {0}, leader : BOOLEAN, sd : BOOLEAN]
InfoEntry == [char : Chars \cup {0}, leader : BOOLEAN]
Session(K) == [party_id : K \cup {0}, party_invite : K \cup {0}, party_joining : BOOLEAN, party_creating : BOOLEAN]

Packet(types, K) ==
    [type : types, party : K \cup {0}, char : Chars \cup {0}, flag : BOOLEAN,
     member : {NoParty} \cup [Places -> InfoEntry]]

UpTypes == {"create", "info", "addmember", "leave", "changemap", "leaderchange", "save", "quit", "move", "registry"}
UpMsg(K) ==
    {m \in Packet(UpTypes, K) :
        /\ m.char \in Chars
        /\ m.type \in {"info", "addmember", "leave", "changemap", "leaderchange"} => m.party \in K}

DownTypes ==
    {"created", "info", "noinfo", "memberadded", "withdraw", "broken", "membermoved", "auth", "registry"}
DownMsg(K) ==
    {m \in Packet(DownTypes, K) :
        /\ m.type \notin {"info", "broken"} => m.char \in Chars
        /\ m.type \notin {"created", "auth", "registry"} \/ (m.type = "created" /\ ~m.flag) => m.party \in K
        /\ m.type = "info" => m.member \in [Places -> InfoEntry]}

Types ==
    /\ where \in [Chars -> Servers \cup {0}]
    /\ sd \in [Chars -> Session(Known)]
    /\ party \in [Servers -> [Parties -> {NoParty} \cup [Places -> CopyEntry]]]
    /\ party_db_ \in [Parties -> {NoParty} \cup [Places -> Entry]]
    /\ row \in [Chars -> Known \cup {0}] /\ char_db_ \in [Chars -> Known \cup {0, -1}]
    /\ crashed \subseteq Servers /\ auth_db \subseteq Chars /\ nextid \in Nat \ {0}
    /\ up \in [Servers -> Seq(UpMsg(Known))] /\ down \in [Servers -> Seq(DownMsg(Known))]

\* Nobody has heard of a party that was not founded.
Unfounded == \A p \in Parties \ Known : party_db_[p] = NoParty /\ \A s \in Servers : party[s][p] = NoParty

\* Kinds of packets about a character.
Up(c, types) == {m \in UpMsg(Parties) : m.char = c /\ m.type \in types}
Down(c, types) == {m \in DownMsg(Parties) : m.char = c /\ m.type \in types}
UpToken(c) == Up(c, {"quit", "move", "registry"})
DownToken(c) == Down(c, {"auth", "registry"})

\* One session: a character plays, or it is under way in one packet, or in auth_db, its
\* cached data at hand.
Token(c) ==
    /\ \A s \in Servers : One(up[s], UpToken(c)) /\ One(down[s], DownToken(c))
    /\ \A s, t \in Servers : Occ(up[s], UpToken(c)) /\ Occ(up[t], UpToken(c)) => s = t
    /\ \A s, t \in Servers : Occ(down[s], DownToken(c)) /\ Occ(down[t], DownToken(c)) => s = t
    /\ \A s, t \in Servers : ~(Occ(up[s], UpToken(c)) /\ Occ(down[t], DownToken(c)))
    /\ \A s \in Servers : Occ(up[s], UpToken(c)) \/ Occ(down[s], DownToken(c)) => where[c] = 0 /\ c \notin auth_db
    /\ c \in auth_db => where[c] = 0 /\ char_db_[c] # -1

\* A map-server that is gone has no packets, no players and no copies.
Gone == \A s \in crashed : /\ up[s] = <<>> /\ down[s] = <<>> /\ \A c \in Chars : where[c] # s
                           /\ \A p \in Parties : party[s][p] = NoParty

\* One request to join: its character waits for the answer, or its leaving is behind the
\* request; an answer is ahead of any packet that brings the character back.
Add(c) == Up(c, {"addmember"})
Added(c) == Down(c, {"memberadded"})
Joins(c) ==
    /\ \A s \in Servers : \/ Followed(up[s], Add(c), Up(c, {"quit", "move"}))
                          \/ where[c] = s /\ sd[c].party_joining
    /\ \A s \in Servers : One(up[s], Add(c))
    /\ \A s, t \in Servers : Occ(up[s], Add(c)) /\ Occ(up[t], Add(c)) => s = t
    /\ \A s \in Servers : Occ(down[s], Added(c)) =>
          /\ where[c] = s => sd[c].party_joining /\ One(down[s], Added(c)) /\ ~Occ(up[s], Add(c))
          /\ ~Occ(up[s], Up(c, {"registry"}))
    /\ \A s \in Servers : Ahead(down[s], Added(c), DownToken(c))

\* A copy that a member is missing from, and the packets that add and that remove it.
Lacks(s, p, c) == party[s][p] # NoParty /\ c \notin In(party[s][p])
Puts(p, c) == {m \in DownMsg(Parties) : m.type = "info" /\ m.party = p /\ c \in In(m.member)}
Drops(p, c) ==
    {m \in DownMsg(Parties) : m.party = p /\ \/ m.type = "info" /\ c \notin In(m.member)
                                             \/ m.type = "withdraw" /\ m.char = c}

\* The packets after which a session of the character may be invited: none that drops it
\* is behind them.
Opens(s, p, c) ==
    {m \in DownMsg(Parties) : m.char = c /\ \/ m.type = "registry"
                                            \/ /\ m.type = "memberadded" /\ m.party = p /\ ~m.flag
                                               /\ where[c] = s}

Listed(s, p, c) ==
    /\ Followed(down[s], Drops(p, c), Puts(p, c))
    /\ Lacks(s, p, c) => Occ(down[s], Puts(p, c)) /\ Led(down[s], Puts(p, c), Opens(s, p, c))
    /\ where[c] = s /\ (Lacks(s, p, c) \/ Occ(down[s], Drops(p, c))) => Occ(down[s], Opens(s, p, c))
    /\ Between(down[s], Drops(p, c), Puts(p, c), Opens(s, p, c))

Once(slots) == \A i, j \in DOMAIN slots : slots[i].char = slots[j].char /\ slots[i].char # 0 => i = j

\* Packets that should not exist: a list with somebody twice, a request to add a member.
Twice == {m \in DownMsg(Parties) : m.type = "info" /\ ~Once(m.member)}
Again == {m \in UpMsg(Parties) : m.type = "addmember" /\ m.char \in In(party_db_[m.party])}

Timely == \A s \in Servers : ~Occ(down[s], Twice) /\ ~Occ(up[s], Again)
OnceEach == \A p \in Parties : Once(party_db_[p]) /\ \A s \in Servers : Once(party[s][p])
Invites == \A c \in Chars : where[c] # 0 /\ ~sd[c].party_joining /\ sd[c].party_invite # 0
                                => c \notin In(party_db_[sd[c].party_invite])
Lists == \A s \in Servers, p \in Parties, c \in Chars : c \in In(party_db_[p]) => Listed(s, p, c)

Tokens == \A c \in Chars : Token(c)
Joining == \A c \in Chars : Joins(c)
PartyInv == /\ Types /\ Unfounded /\ Tokens /\ Gone /\ Joining
            /\ Timely /\ OnceEach /\ Invites /\ Lists

-----------------------------------------------------------------------------
(***************************************************************************)
(* The model's helpers.                                                    *)
(***************************************************************************)
\* A list of slots is empty or has them all.
LEMMA SlotFacts ==
    ASSUME NEW E, NEW slots \in {NoParty} \cup [Places -> E]
    PROVE  /\ slots = NoParty => DOMAIN slots = {}
           /\ slots # NoParty => DOMAIN slots = Places /\ \A i \in Places : slots[i] \in E
           /\ DOMAIN slots \subseteq Places /\ \A i \in DOMAIN slots : slots[i] \in E
           /\ slots \in Seq(E)
<1>1. MAX_PARTY \in Nat BY PartyAssumption
<1>2. NoParty \in Seq(E) /\ DOMAIN NoParty = {} BY DEF NoParty
<1>3. ASSUME slots \in [Places -> E] PROVE slots \in Seq(E) BY <1>1, <1>3 DEF Places
<1> QED BY <1>2, <1>3

\* The slot found first.
LEMMA MinAt ==
    ASSUME NEW slots, DOMAIN slots \subseteq Places, NEW c, NEW T \in SUBSET At(slots, c), T # {}
    PROVE  Min(T) \in T /\ Min(T) \in DOMAIN slots /\ Min(T) \in Places /\ slots[Min(T)].char = c
<1>1. Places \subseteq Nat BY PartyAssumption DEF Places
<1>2. T \in SUBSET Nat BY <1>1 DEF At
<1>3. Min(T) \in T BY <1>2, MinNat
<1> QED BY <1>3 DEF At

\* A change of entries keeps a list of slots one.
LEMMA SlotChange ==
    ASSUME NEW E, NEW slots \in {NoParty} \cup [Places -> E], NEW i \in DOMAIN slots, NEW e \in E
    PROVE  /\ [slots EXCEPT ![i] = e] \in {NoParty} \cup [Places -> E]
           /\ [slots EXCEPT ![i] = e] # NoParty /\ slots # NoParty
           /\ DOMAIN [slots EXCEPT ![i] = e] = DOMAIN slots
<1>1. slots # NoParty /\ slots \in [Places -> E] BY SlotFacts
<1>2. [slots EXCEPT ![i] = e] \in [Places -> E] BY <1>1
<1>3. DOMAIN [slots EXCEPT ![i] = e] = Places /\ DOMAIN slots = Places BY <1>1
<1>4. [slots EXCEPT ![i] = e] # NoParty BY <1>3, SlotFacts
<1> QED BY <1>1, <1>2, <1>3, <1>4

\* The loops find entries of the list.
LEMMA AmongFacts ==
    ASSUME NEW E, NEW slots \in Seq(E), NEW X
    PROVE  /\ Among(slots, X) \in Seq(E)
           /\ \A k \in DOMAIN Among(slots, X) :
                  Among(slots, X)[k] \in X /\ \E j \in DOMAIN slots : Among(slots, X)[k] = slots[j]
<1>1. Among(slots, X) = Selected(slots, X) BY DEF Among, Selected, FoldLeft, MapThenFoldSet
<1> QED BY <1>1, SelectFacts

\* Packets of known parties are packets.
LEMMA MoreMsg ==
    ASSUME NEW J, NEW K, J \subseteq K
    PROVE  UpMsg(J) \subseteq UpMsg(K) /\ DownMsg(J) \subseteq DownMsg(K)
BY DEF UpMsg, DownMsg, Packet

\* Sending adds to one queue.
LEMMA SendEffect ==
    ASSUME Types, NEW s \in Servers, NEW r \in Seq(UpMsg(Known)), Send(s, r)
    PROVE  /\ up' \in [Servers -> Seq(UpMsg(Known))]
           /\ up'[s] = up[s] \o r /\ \A t \in Servers : t # s => up'[t] = up[t]
<1>1. up \in [Servers -> Seq(UpMsg(Known))] BY DEF Types
<1>2. up[s] \o r \in Seq(UpMsg(Known)) BY <1>1
<1>3. up' = [up EXCEPT ![s] = up[s] \o r] BY DEF Send
<1> QED BY <1>1, <1>2, <1>3

\* The char-server takes the head of one queue.
LEMMA ReceiveEffect ==
    ASSUME Types, NEW s \in Servers, NEW type, Receive(s, type)
    PROVE  /\ up' \in [Servers -> Seq(UpMsg(Known))]
           /\ up[s] \in Seq(UpMsg(Known)) /\ up[s] # <<>> /\ Head(up[s]) \in UpMsg(Known) /\ Head(up[s]).type = type
           /\ up'[s] = Tail(up[s]) /\ \A t \in Servers : t # s => up'[t] = up[t]
<1>1. up \in [Servers -> Seq(UpMsg(Known))] BY DEF Types
<1>2. up[s] \in Seq(UpMsg(Known)) /\ up[s] # <<>> BY <1>1 DEF Receive
<1>3. Tail(up[s]) \in Seq(UpMsg(Known)) /\ Head(up[s]) \in UpMsg(Known) BY <1>2
<1>4. up' = [up EXCEPT ![s] = Tail(up[s])] /\ Head(up[s]).type = type BY DEF Receive
<1> QED BY <1>1, <1>2, <1>3, <1>4

\* A map-server takes the head of its queue.
LEMMA TakeEffect ==
    ASSUME Types, NEW s \in Servers, NEW type, Take(s, type)
    PROVE  /\ down' \in [Servers -> Seq(DownMsg(Known))]
           /\ down[s] \in Seq(DownMsg(Known)) /\ down[s] # <<>>
           /\ Head(down[s]) \in DownMsg(Known) /\ Head(down[s]).type = type
           /\ down'[s] = Tail(down[s]) /\ \A t \in Servers : t # s => down'[t] = down[t]
<1>1. down \in [Servers -> Seq(DownMsg(Known))] BY DEF Types
<1>2. down[s] \in Seq(DownMsg(Known)) /\ down[s] # <<>> BY <1>1 DEF Take
<1>3. Tail(down[s]) \in Seq(DownMsg(Known)) /\ Head(down[s]) \in DownMsg(Known) BY <1>2
<1>4. down' = [down EXCEPT ![s] = Tail(down[s])] /\ Head(down[s]).type = type BY DEF Take
<1> QED BY <1>1, <1>2, <1>3, <1>4

\* The char-server adds to the queues of those that are there.
Told(s, all, answer) ==
    \A t \in Servers \ crashed : /\ t = s => down'[t] = down[t] \o (all \o answer)
                                 /\ t # s => down'[t] = down[t] \o (all \o <<>>)

\* What telling does to the queues, those of servers that are gone left alone.
LEMMA TellEffect ==
    ASSUME Types, Gone, NEW s, NEW K, Known \subseteq K,
           NEW all \in Seq(DownMsg(K)), NEW answer \in Seq(DownMsg(K)), Tell(s, all, answer)
    PROVE  /\ down' \in [Servers -> Seq(DownMsg(K))]
           /\ \A t \in Servers : down[t] \in Seq(DownMsg(K))
           /\ \A t \in crashed : down'[t] = down[t]
           /\ Told(s, all, answer)
<1>1. \A t \in Servers : down[t] \in Seq(DownMsg(K))
  <2>1. \A t \in Servers : down[t] \in Seq(DownMsg(Known)) BY DEF Types
  <2>2. DownMsg(Known) \subseteq DownMsg(K) BY MoreMsg
  <2> QED BY <2>1, <2>2
<1>2. ASSUME NEW t \in Servers
      PROVE  LET a == IF t = s THEN answer ELSE <<>>
             IN  down[t] \o all \o a = down[t] \o (all \o a) /\ down[t] \o all \o a \in Seq(DownMsg(K))
  <2> DEFINE a == IF t = s THEN answer ELSE <<>>
  <2>1. a \in Seq(DownMsg(K)) OBVIOUS
  <2>2. down[t] \in Seq(DownMsg(K)) BY <1>1
  <2> HIDE DEF a
  <2>3. down[t] \o all \o a = down[t] \o (all \o a) /\ down[t] \o all \o a \in Seq(DownMsg(K)) 
    <3>1. PICK x, S : x = down[t] /\ S = DownMsg(K) OBVIOUS
    <3>2. x \in Seq(S) /\ all \in Seq(S) /\ a \in Seq(S) BY <2>1, <2>2, <3>1
    <3>3. (x \o all) \o a = x \o (all \o a) /\ x \o (all \o a) \in Seq(S) BY <3>2, JoinJoin
    <3> QED BY <3>1, <3>3, Zenon
  <2> QED BY <2>3 DEF a
<1>3. \A t \in crashed : t \in Servers /\ down[t] = <<>> BY DEF Gone, Types
<1>4. down' = [t \in Servers |-> IF t \in crashed THEN <<>>
                               ELSE down[t] \o all \o (IF t = s THEN answer ELSE <<>>)] BY DEF Tell
<1>5. down' \in [Servers -> Seq(DownMsg(K))]
  <2>1. \A t \in Servers : (IF t \in crashed THEN <<>>
                               ELSE down[t] \o all \o (IF t = s THEN answer ELSE <<>>)) \in Seq(DownMsg(K))
    <3> TAKE t \in Servers
    <3>1. <<>> \in Seq(DownMsg(K)) OBVIOUS
    <3>2. down[t] \o all \o (IF t = s THEN answer ELSE <<>>) \in Seq(DownMsg(K)) BY <1>2
    <3> QED BY <3>1, <3>2
  <2> QED BY <2>1, <1>4
<1>6. \A t \in crashed : down'[t] = down[t] BY <1>3, <1>4
<1>7. \A t \in Servers \ crashed : down'[t] = down[t] \o (all \o (IF t = s THEN answer ELSE <<>>))
  BY <1>2, <1>4
<1>8. Told(s, all, answer) BY <1>7 DEF Told
<1> QED BY <1>1, <1>5, <1>6, <1>8

\* A packet without a list.
Plain(type, p, c, flag) == [type |-> type, party |-> p, char |-> c, flag |-> flag, member |-> NoParty]

\* A packet without a flag, and with one.
LEMMA PackIs ==
    ASSUME NEW type, NEW p, NEW c
    PROVE  Pack(type, p, c) = Plain(type, p, c, FALSE)
BY DEF Pack, Plain

\* One with the flag.
LEMMA FlagIs ==
    ASSUME NEW type, NEW p, NEW c
    PROVE  [Pack(type, p, c) EXCEPT !.flag = TRUE] = Plain(type, p, c, TRUE)
<1>1. \A f, g : [Plain(type, p, c, f) EXCEPT !.flag = g] = Plain(type, p, c, g) BY DEF Plain
<1> QED BY <1>1, PackIs, Zenon

\* Requests, not about a party or about one.
LEMMA UpPack ==
    ASSUME NEW K, NEW p \in K \cup {0}, NEW c \in Chars
    PROVE  /\ Pack("create", p, c) \in UpMsg(K)
           /\ Pack("save", p, c) \in UpMsg(K)
           /\ Pack("quit", p, c) \in UpMsg(K)
           /\ Pack("move", p, c) \in UpMsg(K)
BY DEF Pack, UpMsg, Packet, UpTypes

\* Requests that name a party.
LEMMA UpParty ==
    ASSUME NEW K, NEW p \in K, NEW c \in Chars
    PROVE  /\ Pack("info", p, c) \in UpMsg(K)
           /\ Pack("addmember", p, c) \in UpMsg(K)
           /\ Pack("leave", p, c) \in UpMsg(K)
           /\ Pack("changemap", p, c) \in UpMsg(K)
           /\ Pack("leaderchange", p, c) \in UpMsg(K)
BY DEF Pack, UpMsg, Packet, UpTypes

\* A change of map, of somebody online.
LEMMA UpFlag ==
    ASSUME NEW K, NEW p \in K, NEW c \in Chars
    PROVE  Plain("changemap", p, c, TRUE) \in UpMsg(K)
BY DEF Plain, UpMsg, Packet, UpTypes

\* Answers and announcements.
LEMMA DownPack ==
    ASSUME NEW K, NEW p \in K, NEW c \in Chars
    PROVE  /\ Pack("created", p, c) \in DownMsg(K)
           /\ Pack("noinfo", p, c) \in DownMsg(K)
           /\ Pack("memberadded", p, c) \in DownMsg(K)
           /\ Pack("withdraw", p, c) \in DownMsg(K)
           /\ Pack("membermoved", p, c) \in DownMsg(K)
BY DEF Pack, Plain, DownMsg, Packet, DownTypes

\* Announcements that name nobody, or perhaps no party.
LEMMA DownOther ==
    ASSUME NEW K, NEW p \in K, NEW i \in K \cup {0}, NEW c \in Chars
    PROVE  /\ Pack("broken", p, 0) \in DownMsg(K)
           /\ Pack("auth", i, c) \in DownMsg(K)
BY DEF Pack, Plain, DownMsg, Packet, DownTypes

\* An answer: the party is full.
LEMMA DownFlag ==
    ASSUME NEW K, NEW p \in K, NEW c \in Chars
    PROVE  /\ Plain("memberadded", p, c, TRUE) \in DownMsg(K)
BY DEF Pack, Plain, DownMsg, Packet, DownTypes

\* An answer: no party was founded.
LEMMA DownFail ==
    ASSUME NEW K, NEW c \in Chars
    PROVE  /\ Plain("created", 0, c, TRUE) \in DownMsg(K)
BY DEF Pack, Plain, DownMsg, Packet, DownTypes

\* The announcement of a party.
LEMMA InfoTypes ==
    ASSUME NEW K, NEW p \in K, NEW c \in Chars \cup {0}, NEW slots, slots \in [Places -> Entry],
           NEW n, n = Info(p, slots, c)
    PROVE  /\ n \in DownMsg(K) /\ n.type = "info" /\ n.party = p
           /\ In(n.member) = In(slots) /\ (Once(slots) => Once(n.member))
<1> DEFINE member == [i \in Places |-> [char |-> slots[i].char, leader |-> slots[i].leader]]
           m == [type |-> "info", party |-> p, char |-> c, flag |-> FALSE, member |-> member]
<1>1. member \in [Places -> InfoEntry] BY DEF Entry, InfoEntry
<1>2. Info(p, slots, c) = m
  <2>1. DOMAIN slots = Places OBVIOUS
  <2>2. [i \in DOMAIN slots |-> [char |-> slots[i].char, leader |-> slots[i].leader]] = member BY <2>1
  <2> DEFINE R(f, l) == [type |-> "info", party |-> p, char |-> c, flag |-> f, member |-> l]
  <2> HIDE DEF member
  <2>3. \A f, l : [R(f, l) EXCEPT !.member = member] = R(f, member) OBVIOUS
  <2>4. Pack("info", p, c) = R(FALSE, NoParty) BY DEF Pack
  <2>5. Info(p, slots, c) = [Pack("info", p, c) EXCEPT !.member = member] BY <2>2, Zenon DEF Info
  <2> HIDE DEF R
  <2>6. Info(p, slots, c) = R(FALSE, member) BY <2>3, <2>4, <2>5, Zenon
  <2> QED BY <2>6 DEF R
<1>3. In(member) = In(slots) BY DEF In
<1>4. Once(slots) => Once(member) BY DEF Once
<1> HIDE DEF member
<1>5. m \in DownMsg(K) BY <1>1 DEF DownMsg, Packet, DownTypes
<1>6. m.type = "info" /\ m.party = p /\ m.member = member OBVIOUS
<1> HIDE DEF m
<1> QED BY <1>2, <1>3, <1>4, <1>5, <1>6

\* The announcement to all.
LEMMA InfoAll ==
    ASSUME NEW K, NEW p \in K, NEW slots, slots \in [Places -> Entry], Once(slots), NEW n, n = Info(p, slots, 0)
    PROVE  n \in DownMsg(K) /\ n.type = "info" /\ n.party = p /\ In(n.member) = In(slots) /\ Once(n.member)
BY InfoTypes

-----------------------------------------------------------------------------
(***************************************************************************)
(* What a step keeps that is of no concern to a character or a party.      *)
(***************************************************************************)
UpOf(c) == Up(c, {"addmember", "quit", "move", "registry"})
DownOf(c) == Down(c, {"auth", "registry", "memberadded"})
CalmFor(c) == \A t \in Servers : /\ Calm(up[t], up'[t], UpMsg(Parties), UpOf(c))
                                 /\ Calm(down[t], down'[t], DownMsg(Parties), DownOf(c))

\* Queues are of packets.
LEMMA Queues ==
    ASSUME Types
    PROVE  /\ Known \subseteq Parties /\ UpMsg(Known) \subseteq UpMsg(Parties) /\ DownMsg(Known) \subseteq DownMsg(Parties)
           /\ \A s \in Servers : up[s] \in Seq(UpMsg(Parties)) /\ down[s] \in Seq(DownMsg(Parties))
<1>1. Known \subseteq Parties BY DEF Known
<1>2. UpMsg(Known) \subseteq UpMsg(Parties) /\ DownMsg(Known) \subseteq DownMsg(Parties) BY <1>1, MoreMsg
<1>3. \A s \in Servers : up[s] \in Seq(UpMsg(Known)) /\ down[s] \in Seq(DownMsg(Known)) BY DEF Types
<1> QED BY <1>1, <1>2, <1>3

TokenCalm(c) == \A t \in Servers : /\ Calm(up[t], up'[t], UpMsg(Parties), UpToken(c))
                                   /\ Calm(down[t], down'[t], DownMsg(Parties), DownToken(c))

\* What is calm for a character is calm for its packet.
LEMMA CalmIsTokenCalm ==
    ASSUME NEW c, CalmFor(c)
    PROVE  TokenCalm(c)
<1>1. UpToken(c) \in SUBSET UpOf(c) /\ DownToken(c) \in SUBSET DownOf(c)
  BY DEF UpToken, DownToken, UpOf, DownOf, Up, Down
<1>2. \A q : /\ ~Occ(q, UpOf(c)) => ~Occ(q, UpToken(c))
             /\ ~Occ(q, DownOf(c)) => ~Occ(q, DownToken(c))
  BY <1>1 DEF Occ
<1> QED BY <1>2 DEF CalmFor, TokenCalm, Calm

\* The packets of other characters.
LEMMA CalmToken ==
    ASSUME Types, NEW c \in Chars, Token(c), TokenCalm(c), where'[c] \in {where[c], 0},
           c \in auth_db' => c \in auth_db /\ (char_db_'[c] = char_db_[c] \/ char_db_'[c] # -1)
    PROVE  Token(c)'
<1>2. ASSUME NEW t \in Servers
      PROVE  /\ Occ(up'[t], UpToken(c)) => Occ(up[t], UpToken(c))
             /\ One(up[t], UpToken(c)) => One(up'[t], UpToken(c))
             /\ Occ(down'[t], DownToken(c)) => Occ(down[t], DownToken(c))
             /\ One(down[t], DownToken(c)) => One(down'[t], DownToken(c))
  <2>1. /\ Calm(up[t], up'[t], UpMsg(Parties), UpToken(c))
        /\ Calm(down[t], down'[t], DownMsg(Parties), DownToken(c))
    BY DEF TokenCalm
  <2>2. up[t] \in Seq(UpMsg(Parties)) /\ down[t] \in Seq(DownMsg(Parties)) BY Queues
  <2>3. (Occ(up'[t], UpToken(c)) => Occ(up[t], UpToken(c))) /\ (One(up[t], UpToken(c)) => One(up'[t], UpToken(c)))
    BY <2>1, <2>2, CalmKeeps
  <2>4. /\ Occ(down'[t], DownToken(c)) => Occ(down[t], DownToken(c))
        /\ One(down[t], DownToken(c)) => One(down'[t], DownToken(c))
    BY <2>1, <2>2, CalmKeeps
  <2> QED BY <2>3, <2>4
<1>3. UpToken(c)' = UpToken(c) /\ DownToken(c)' = DownToken(c) BY DEF UpToken, DownToken
<1>4. c \in auth_db' => where'[c] = 0 /\ char_db_'[c] # -1 BY DEF Token
<1> QED BY <1>2, <1>3, <1>4 DEF Token

\* No request to join and no answer to one is added, and the answers stay ahead.
JoinCalm(c) == \A t \in Servers : /\ Calm(up[t], up'[t], UpMsg(Parties), UpOf(c))
                                  /\ Calm(down[t], down'[t], DownMsg(Parties), Added(c))
                                  /\ Ahead(down'[t], Added(c), DownToken(c))
\* Then its requests to join and their answers stay in order.
LEMMA CalmJoinsAhead ==
    ASSUME Types, NEW c \in Chars, Joins(c), JoinCalm(c),
           \/ where'[c] = where[c] /\ sd'[c].party_joining = sd[c].party_joining
           \/ where'[c] = 0 /\ where[c] \in Servers /\ up'[where[c]] = <<>>
    PROVE  Joins(c)'
<1> DEFINE A == UpOf(c)
           out == Up(c, {"quit", "move"})
           reg == Up(c, {"registry"})
           tok == DownToken(c)
<1>1. /\ Add(c) \in SUBSET A /\ out \in SUBSET A /\ reg \in SUBSET A
  BY DEF Add, UpOf, Up
<1> HIDE DEF A, out, reg, tok
<1>2. ASSUME NEW t \in Servers
      PROVE  /\ Occ(up'[t], Add(c)) => Occ(up[t], Add(c))
             /\ One(up[t], Add(c)) => One(up'[t], Add(c))
             /\ Followed(up[t], Add(c), out) => Followed(up'[t], Add(c), out)
             /\ Occ(up'[t], reg) => Occ(up[t], reg)
             /\ Occ(down'[t], Added(c)) => Occ(down[t], Added(c))
             /\ One(down[t], Added(c)) => One(down'[t], Added(c))
             /\ Ahead(down'[t], Added(c), tok)
  <2>1. Calm(up[t], up'[t], UpMsg(Parties), A) /\ Calm(down[t], down'[t], DownMsg(Parties), Added(c)) BY DEF JoinCalm, A
  <2>2. up[t] \in Seq(UpMsg(Parties)) /\ down[t] \in Seq(DownMsg(Parties)) BY Queues
  <2>3. /\ Occ(up'[t], Add(c)) => Occ(up[t], Add(c))
        /\ One(up[t], Add(c)) => One(up'[t], Add(c))
        /\ Followed(up[t], Add(c), out) => Followed(up'[t], Add(c), out)
    BY <1>1, <2>1, <2>2, CalmKeeps
  <2>4. Occ(up'[t], reg) => Occ(up[t], reg) BY <1>1, <2>1, <2>2, CalmKeeps
  <2>5. /\ Occ(down'[t], Added(c)) => Occ(down[t], Added(c))
        /\ One(down[t], Added(c)) => One(down'[t], Added(c))
    BY <2>1, <2>2, CalmKeeps
  <2>6. Ahead(down'[t], Added(c), tok) BY DEF JoinCalm, tok
  <2> QED BY <2>3, <2>4, <2>5, <2>6
<1>3. /\ Add(c)' = Add(c) /\ Added(c)' = Added(c) /\ out' = out /\ reg' = reg /\ tok' = tok
  BY DEF Add, Added, out, reg, tok, DownToken
<1>4. \A t \in Servers : Followed(up'[t], Add(c), out) \/ (where'[c] = t /\ sd'[c].party_joining)
  <2> TAKE t \in Servers
  <2>1. Followed(up[t], Add(c), out) \/ (where[c] = t /\ sd[c].party_joining) BY DEF Joins, out
  <2>2. up'[t] = <<>> => Followed(up'[t], Add(c), out) BY Without
  <2> QED BY <1>2, <2>1, <2>2
<1>5. 0 \notin Servers BY PartyAssumption
<1>6. \A t \in Servers : Occ(down'[t], Added(c)) =>
          /\ where'[c] = t => sd'[c].party_joining /\ One(down'[t], Added(c)) /\ ~Occ(up'[t], Add(c))
          /\ ~Occ(up'[t], reg)
  BY <1>2, <1>5 DEF Joins, reg
<1>7. \A t \in Servers : One(up'[t], Add(c)) /\ Ahead(down'[t], Added(c), tok) BY <1>2 DEF Joins, tok
<1>8. \A t, u \in Servers : Occ(up'[t], Add(c)) /\ Occ(up'[u], Add(c)) => t = u BY <1>2 DEF Joins
<1> QED BY <1>3, <1>4, <1>6, <1>7, <1>8 DEF Joins, out, reg, tok

\* The same when nothing that concerns the character is added.
LEMMA CalmJoins ==
    ASSUME Types, NEW c \in Chars, Joins(c), CalmFor(c),
           \/ where'[c] = where[c] /\ sd'[c].party_joining = sd[c].party_joining
           \/ where'[c] = 0 /\ where[c] \in Servers /\ up'[where[c]] = <<>>
    PROVE  Joins(c)'
<1>1. Added(c) \in SUBSET DownOf(c) /\ DownToken(c) \in SUBSET DownOf(c) BY DEF Added, DownToken, DownOf, Down
<1>2. JoinCalm(c)
  <2> SUFFICES ASSUME NEW t \in Servers
               PROVE  /\ Calm(up[t], up'[t], UpMsg(Parties), UpOf(c))
                      /\ Calm(down[t], down'[t], DownMsg(Parties), Added(c))
                      /\ Ahead(down'[t], Added(c), DownToken(c))
    BY DEF JoinCalm
  <2>1. Calm(up[t], up'[t], UpMsg(Parties), UpOf(c)) /\ Calm(down[t], down'[t], DownMsg(Parties), DownOf(c)) BY DEF CalmFor
  <2>2. Calm(down[t], down'[t], DownMsg(Parties), Added(c)) BY <1>1, <2>1 DEF Calm, Occ
  <2>3. down[t] \in Seq(DownMsg(Parties)) BY Queues
  <2>4. Ahead(down[t], Added(c), DownToken(c)) BY DEF Joins
  <2> QED BY <1>1, <2>1, <2>2, <2>3, <2>4, CalmKeeps
<1> QED BY <1>2, CalmJoinsAhead

\* The packets that open, after a step that brings the character to no other map-server.
LEMMA OpensLess ==
    ASSUME NEW s, NEW p, NEW c, where'[c] = s => where[c] = s, NEW q
    PROVE  /\ Opens(s, p, c)' \subseteq Opens(s, p, c)
           /\ where'[c] = s => Opens(s, p, c)' = Opens(s, p, c)
           /\ Led(q, Puts(p, c), Opens(s, p, c)) => Led(q, Puts(p, c), Opens(s, p, c)')
           /\ Between(q, Drops(p, c), Puts(p, c), Opens(s, p, c)) => Between(q, Drops(p, c), Puts(p, c), Opens(s, p, c)')
<1>1. Opens(s, p, c)' \subseteq Opens(s, p, c) BY DEF Opens
<1>2. where'[c] = s => Opens(s, p, c)' = Opens(s, p, c) BY DEF Opens
<1>3. Led(q, Puts(p, c), Opens(s, p, c)) => Led(q, Puts(p, c), Opens(s, p, c)') BY <1>1 DEF Led
<1>4. Between(q, Drops(p, c), Puts(p, c), Opens(s, p, c)) => Between(q, Drops(p, c), Puts(p, c), Opens(s, p, c)')
  BY <1>1 DEF Between
<1> QED BY <1>1, <1>2, <1>3, <1>4

\* Listed, of a queue q.
ListedIn(q, lacks, here, D, P, O) ==
    /\ Followed(q, D, P)
    /\ lacks => Occ(q, P) /\ Led(q, P, O)
    /\ here /\ (lacks \/ Occ(q, D)) => Occ(q, O)
    /\ Between(q, D, P, O)

\* The condition on the queue, before and after a step.
LEMMA ListedIs ==
    ASSUME NEW s, NEW p, NEW c
    PROVE  /\ Listed(s, p, c)
                <=> ListedIn(down[s], Lacks(s, p, c), where[c] = s, Drops(p, c), Puts(p, c), Opens(s, p, c))
           /\ Listed(s, p, c)'
                <=> ListedIn(down'[s], Lacks(s, p, c)', where'[c] = s, Drops(p, c), Puts(p, c), Opens(s, p, c)')
<1>1. Drops(p, c)' = Drops(p, c) /\ Puts(p, c)' = Puts(p, c) BY DEF Drops, Puts
<1> QED BY <1>1 DEF Listed, ListedIn

\* Packets are added, none that drops the character.
LEMMA ListedJoin ==
    ASSUME NEW s, NEW p, NEW c, Listed(s, p, c), where'[c] = s => where[c] = s, Lacks(s, p, c)' => Lacks(s, p, c),
           NEW S, down[s] \in Seq(S), NEW r \in Seq(S), down'[s] = down[s] \o r,
           ~Occ(r, Drops(p, c))
    PROVE  Listed(s, p, c)'
<1> DEFINE q == down[s]
           D == Drops(p, c)
           P == Puts(p, c)
           O == Opens(s, p, c)
           N == Opens(s, p, c)'
           now == Lacks(s, p, c)'
           had == Lacks(s, p, c)
           stays == where'[c] = s
           here == where[c] = s
<1>0. q \in Seq(S) /\ ~Occ(r, D) /\ (stays => here) /\ (now => had) OBVIOUS
<1>1. Followed(q, D, P) /\ (had => Occ(q, P) /\ Led(q, P, O)) /\ (here /\ (had \/ Occ(q, D)) => Occ(q, O)) /\ Between(q, D, P, O)
  BY DEF Listed
<1>2. (stays => N = O) /\ (Led(q, P, O) => Led(q, P, N)) /\ (Between(q, D, P, O) => Between(q, D, P, N)) BY OpensLess
<1>3. down'[s] = q \o r OBVIOUS
<1>i. Listed(s, p, c)' <=> ListedIn(down'[s], now, stays, D, P, N) BY ListedIs
<1> HIDE DEF q, D, P, O, N, now, had, stays, here
<1>4. Followed(r, D, P) /\ Between(r, D, P, N) BY <1>0, Without
<1>5. Followed(q \o r, D, P) BY <1>0, <1>1, <1>4, JoinKeeps
<1>6. (Occ(q \o r, P) <=> Occ(q, P) \/ Occ(r, P)) /\ (Occ(q \o r, D) <=> Occ(q, D) \/ Occ(r, D)) /\ (Occ(q \o r, N) <=> Occ(q, N) \/ Occ(r, N))
  BY <1>0, JoinKeeps
<1>7. now => Led(q \o r, P, N) BY <1>0, <1>1, <1>2, JoinKeeps
<1>8. Between(q \o r, D, P, N) BY <1>0, <1>1, <1>2, <1>4, JoinBetween
<1>9. ListedIn(q \o r, now, stays, D, P, N) BY <1>0, <1>1, <1>2, <1>5, <1>6, <1>7, <1>8 DEF ListedIn
<1> QED BY <1>3, <1>9, <1>i

\* The head is taken: if it adds the character the copy has it; if the copy lost it the
\* head was one that drops it.
LEMMA ListedTail ==
    ASSUME NEW s, NEW p, NEW c, Listed(s, p, c), where'[c] = s => where[c] = s,
           NEW S, down[s] \in Seq(S), down[s] # <<>>, down'[s] = Tail(down[s]),
           Head(down[s]) \in Puts(p, c) => ~Lacks(s, p, c)',
           Lacks(s, p, c)' => Lacks(s, p, c) \/ Head(down[s]) \in Drops(p, c)
    PROVE  Listed(s, p, c)'
<1> DEFINE q == down[s]
           D == Drops(p, c)
           P == Puts(p, c)
           O == Opens(s, p, c)
           N == Opens(s, p, c)'
           now == Lacks(s, p, c)'
           had == Lacks(s, p, c)
           stays == where'[c] = s
           here == where[c] = s
           h == Head(q)
           t == Tail(q)
<1>0. q \in Seq(S) /\ q # <<>> /\ (stays => here) /\ (h \in P => ~now) /\ (now => had \/ h \in D) OBVIOUS
<1>1. Followed(q, D, P) /\ (had => Occ(q, P) /\ Led(q, P, O)) /\ (here /\ (had \/ Occ(q, D)) => Occ(q, O)) /\ Between(q, D, P, O)
  BY DEF Listed
<1>2. (stays => N = O) /\ (Led(t, P, O) => Led(t, P, N)) /\ (Between(t, D, P, O) => Between(t, D, P, N)) BY OpensLess
<1>3. down'[s] = t OBVIOUS
<1>i. Listed(s, p, c)' <=> ListedIn(down'[s], now, stays, D, P, N) BY ListedIs
<1>4. /\ Followed(q, D, P) => Followed(t, D, P)
      /\ Followed(q, D, P) /\ h \in D => Occ(t, P)
      /\ Led(q, P, O) /\ h \notin P => Led(t, P, O)
      /\ Led(q, P, O) => h \notin O
      /\ Between(q, D, P, O) => Between(t, D, P, O)
      /\ Between(q, D, P, O) /\ h \in D => Led(t, P, O)
      /\ Between(q, D, P, O) /\ h \in O => ~Occ(q, D)
  BY TailKeeps
<1>5. (Occ(q, P) <=> h \in P \/ Occ(t, P)) /\ (Occ(q, D) <=> h \in D \/ Occ(t, D)) /\ (Occ(q, O) <=> h \in O \/ Occ(t, O))
  BY TailKeeps
<1> HIDE DEF q, D, P, O, N, now, had, stays, here, h, t
<1>6. now => Occ(t, P) /\ Led(t, P, N) BY <1>0, <1>1, <1>2, <1>4, <1>5
<1>7. stays /\ (now \/ Occ(t, D)) => Occ(t, N) BY <1>0, <1>1, <1>2, <1>4, <1>5
<1>9. ListedIn(t, now, stays, D, P, N) BY <1>1, <1>2, <1>4, <1>6, <1>7 DEF ListedIn
<1> QED BY <1>3, <1>9, <1>i

\* A map-server that is gone.
LEMMA ListedGone ==
    ASSUME NEW s, NEW p, NEW c, down'[s] = <<>>, party'[s][p] = NoParty, where'[c] # s
    PROVE  Listed(s, p, c)'
<1>1. ~Lacks(s, p, c)' BY DEF Lacks
<1>2. \A X : ~Occ(down'[s], X) BY Without
<1>3. /\ Followed(down'[s], Drops(p, c), Puts(p, c))
      /\ Between(down'[s], Drops(p, c), Puts(p, c), Opens(s, p, c)')
  BY <1>2, Without
<1>4. ListedIn(down'[s], Lacks(s, p, c)', where'[c] = s, Drops(p, c), Puts(p, c), Opens(s, p, c)')
  BY <1>1, <1>3 DEF ListedIn
<1> QED BY <1>4, ListedIs

-----------------------------------------------------------------------------
(***************************************************************************)
(* Requests that are of no concern to who is in a party, and what players  *)
(* do in general.                                                          *)
(***************************************************************************)
\* A step that founds no party.
LEMMA TypesStep ==
    ASSUME Types, UNCHANGED nextid,
           where' \in [Chars -> Servers \cup {0}], sd' \in [Chars -> Session(Known)],
           party' \in [Servers -> [Parties -> {NoParty} \cup [Places -> CopyEntry]]],
           party_db_' \in [Parties -> {NoParty} \cup [Places -> Entry]],
           row' \in [Chars -> Known \cup {0}], char_db_' \in [Chars -> Known \cup {0, -1}],
           crashed' \subseteq Servers, auth_db' \subseteq Chars,
           up' \in [Servers -> Seq(UpMsg(Known))], down' \in [Servers -> Seq(DownMsg(Known))]
    PROVE  Types'
<1>1. Known' = Known BY DEF Known
<1>2. nextid' \in Nat \ {0} BY DEF Types
<1> QED BY <1>1, <1>2 DEF Types

\* A character that plays has a map-server, and its copy, if any, is a list of slots.
LEMMA Playing ==
    ASSUME Types, NEW c \in Chars, where[c] # 0
    PROVE  /\ where[c] \in Servers /\ sd[c] \in Session(Known) /\ sd[c].party_id \in Known \cup {0}
           /\ Copy(c) \in {NoParty} \cup [Places -> CopyEntry]
           /\ sd[c].party_id # 0 => sd[c].party_id \in Known /\ sd[c].party_id \in Parties
                                    /\ Copy(c) = party[where[c]][sd[c].party_id]
           /\ Copy(c) # NoParty => sd[c].party_id # 0
<1>1. where[c] \in Servers BY DEF Types
<1>2. sd[c] \in Session(Known) /\ sd[c].party_id \in Known \cup {0} BY DEF Types, Session
<1>3. sd[c].party_id # 0 => sd[c].party_id \in Known /\ sd[c].party_id \in Parties BY <1>2 DEF Known
<1>4. CASE sd[c].party_id = 0 BY <1>1, <1>2, <1>4 DEF Copy
<1>5. CASE sd[c].party_id # 0
  <2>1. Copy(c) = party[where[c]][sd[c].party_id] BY <1>5 DEF Copy
  <2>2. party[where[c]][sd[c].party_id] \in {NoParty} \cup [Places -> CopyEntry] BY <1>1, <1>3, <1>5 DEF Types
  <2> QED BY <1>1, <1>2, <1>3, <1>5, <2>1, <2>2
<1> QED BY <1>4, <1>5

\* Nobody is added, saved or brought back.
CalmUp ==
    /\ up' \in [Servers -> Seq(UpMsg(Known))]
    /\ \A t \in Servers : \E r \in Seq(UpMsg(Known)) :
           up'[t] = up[t] \o r /\ \A i \in DOMAIN r : r[i].type \notin {"addmember", "quit", "move", "registry"}
    /\ \A t \in crashed : up'[t] = up[t]

\* Nobody waits for another answer; nobody is invited either.
SameWaits == sd' \in [Chars -> Session(Known)] /\ \A d \in Chars : sd'[d].party_joining = sd[d].party_joining
CalmSd == SameWaits /\ \A d \in Chars : sd'[d].party_invite \in {sd[d].party_invite, 0}

\* The same characters in the same slots.
Alike(a, b) == (a = NoParty <=> b = NoParty) /\ DOMAIN a = DOMAIN b /\ \A i \in DOMAIN a : a[i].char = b[i].char

\* The same members.
LEMMA AlikeFacts ==
    ASSUME NEW a, NEW b, Alike(a, b)
    PROVE  In(b) = In(a) /\ (Once(a) => Once(b))
BY DEF Alike, In, Once

\* Such requests are calm for everybody.
LEMMA CalmUpFor ==
    ASSUME Types, CalmUp, NEW c, NEW t \in Servers
    PROVE  /\ Calm(up[t], up'[t], UpMsg(Parties), UpOf(c))
           /\ ~Occ(up[t], Again) => ~Occ(up'[t], Again)
<1>1. PICK r \in Seq(UpMsg(Known)) :
           up'[t] = up[t] \o r /\ \A i \in DOMAIN r : r[i].type \notin {"addmember", "quit", "move", "registry"}
  BY DEF CalmUp
<1>2. r \in Seq(UpMsg(Parties)) /\ up[t] \in Seq(UpMsg(Parties)) BY Queues
<1>3. ~Occ(r, UpOf(c)) BY <1>1 DEF Occ, UpOf, Up
<1>4. ~Occ(r, Again) BY <1>1 DEF Occ, Again
<1>5. Calm(up[t], up'[t], UpMsg(Parties), UpOf(c)) BY <1>1, <1>2, <1>3, CalmIs
<1>6. Occ(up'[t], Again) <=> Occ(up[t], Again) \/ Occ(r, Again)
  <2>1. up'[t] = up[t] \o r BY <1>1
  <2> QED BY <1>2, <2>1, JoinOcc
<1> QED BY <1>4, <1>5, <1>6

\* Tokens and requests to join after such a step.
LEMMA CalmSessions ==
    ASSUME Types, Tokens, Joining, CalmUp, SameWaits, UNCHANGED <<where, auth_db, char_db_>>,
           \A t \in Servers, c \in Chars : Calm(down[t], down'[t], DownMsg(Parties), DownOf(c))
    PROVE  Tokens' /\ Joining'
<1>1. \A c \in Chars : CalmFor(c) BY CalmUpFor DEF CalmFor
<1>2. ASSUME NEW c \in Chars PROVE Token(c)' /\ Joins(c)'
  <2>1. Token(c)' BY <1>1, CalmIsTokenCalm, CalmToken DEF Tokens
  <2>2. Joins(c)' BY <1>1, CalmJoins DEF Joining, SameWaits
  <2> QED BY <2>1, <2>2
<1> QED BY <1>2 DEF Tokens, Joining

\* No invitation to a party one is in comes about.
LEMMA CalmInvites ==
    ASSUME Invites, CalmSd, UNCHANGED <<where, party_db_>>
    PROVE  Invites'
BY DEF Invites, CalmSd, SameWaits

\* A list, when nothing is added or taken and nobody arrives.
LEMMA ListedStay ==
    ASSUME Types, NEW s \in Servers, NEW p, NEW c, Listed(s, p, c), down'[s] = down[s], where'[c] = s => where[c] = s,
           Alike(party[s][p], party'[s][p])
    PROVE  Listed(s, p, c)'
<1>2. Lacks(s, p, c)' <=> Lacks(s, p, c) BY AlikeFacts DEF Lacks, Alike
<1>4. down[s] \in Seq(DownMsg(Parties)) /\ <<>> \in Seq(DownMsg(Parties)) BY Queues
<1>5. down'[s] = down[s] \o <<>> BY <1>4, JoinJoin
<1>6. ~Occ(<<>>, Drops(p, c)) BY Without
<1> QED BY <1>2, <1>4, <1>5, <1>6, ListedJoin

\* All lists.
LEMMA ListsStay ==
    ASSUME Types, Lists, UNCHANGED <<party_db_, down>>, \A c \in Chars : where'[c] \in {where[c], 0},
           \A s \in Servers, p \in Parties : Alike(party[s][p], party'[s][p])
    PROVE  Lists'
<1> SUFFICES ASSUME NEW s \in Servers, NEW p \in Parties, NEW c \in Chars, c \in In(party_db_[p]) PROVE Listed(s, p, c)'
  BY DEF Lists
<1>1. Listed(s, p, c) BY DEF Lists
<1>3. where'[c] = s => where[c] = s BY PartyAssumption
<1> QED BY <1>1, <1>3, ListedStay

\* What is left to show of a request, by who is invited.
LEMMA CalmStep ==
    ASSUME PartyInv, CalmUp, SameWaits, Invites', UNCHANGED <<where, crashed, charVars, down>>,
           party' \in [Servers -> [Parties -> {NoParty} \cup [Places -> CopyEntry]]],
           \A s \in Servers, p \in Parties : Alike(party[s][p], party'[s][p])
    PROVE  PartyInv'
<1> USE DEF PartyInv
<1>0. UNCHANGED <<party_db_, nextid, row, char_db_, auth_db>> BY DEF charVars
<1>1. Types' BY <1>0, TypesStep DEF Types, CalmUp, SameWaits
<1>2. Known' = Known BY <1>0 DEF Known
<1>3. Unfounded' BY <1>0, <1>2 DEF Unfounded, Alike
<1>4. \A t \in Servers, c \in Chars : Calm(down[t], down'[t], DownMsg(Parties), DownOf(c)) BY Queues, CalmIs
<1>5. Tokens' /\ Joining' BY <1>0, <1>4, CalmSessions
<1>6. Gone' BY DEF Gone, CalmUp, Alike, Types
<1>7. Again' = Again /\ Twice' = Twice BY <1>0 DEF Again, Twice
<1>8. Timely' BY <1>7, CalmUpFor DEF Timely
<1>9. OnceEach' BY <1>0, AlikeFacts DEF OnceEach
<1>11. Lists' BY <1>0, ListsStay
<1> QED BY <1>1, <1>3, <1>5, <1>6, <1>8, <1>9, <1>11

\* The same when nobody is invited.
LEMMA CalmRequest ==
    ASSUME PartyInv, CalmUp, CalmSd, UNCHANGED <<where, crashed, charVars, down>>,
           party' \in [Servers -> [Parties -> {NoParty} \cup [Places -> CopyEntry]]],
           \A s \in Servers, p \in Parties : Alike(party[s][p], party'[s][p])
    PROVE  PartyInv'
<1>1. SameWaits BY DEF CalmSd
<1>2. Invites' BY CalmInvites DEF PartyInv, charVars
<1> QED BY <1>1, <1>2, CalmStep

\* Packets that are no request to join and in which nobody is under way.
LEMMA SendCalm ==
    ASSUME Types, NEW s \in Servers, s \notin crashed, NEW r \in Seq(UpMsg(Known)), Send(s, r),
           \A i \in DOMAIN r : r[i].type \notin {"addmember", "quit", "move", "registry"}
    PROVE  CalmUp
<1>1. /\ up' \in [Servers -> Seq(UpMsg(Known))]
      /\ up'[s] = up[s] \o r /\ \A t \in Servers : t # s => up'[t] = up[t]
  BY SendEffect
<1>2. \A t \in Servers : up[t] \in Seq(UpMsg(Known)) BY DEF Types
<1>3. <<>> \in Seq(UpMsg(Known)) /\ DOMAIN <<>> = {} OBVIOUS
<1>4. \A t \in Servers : up[t] = up[t] \o <<>> BY <1>2, <1>3, JoinJoin
<1>5. crashed \subseteq Servers BY DEF Types
<1> QED BY <1>1, <1>3, <1>4, <1>5 DEF CalmUp

\* One packet.
LEMMA SendOne ==
    ASSUME Types, NEW s \in Servers, s \notin crashed, NEW m \in UpMsg(Known), Send(s, <<m>>),
           m.type \notin {"addmember", "quit", "move", "registry"}
    PROVE  CalmUp
<1>1. <<m>> \in Seq(UpMsg(Known)) /\ \A i \in DOMAIN <<m>> : <<m>>[i] = m OBVIOUS
<1> QED BY <1>1, SendCalm

\* Nothing is sent.
LEMMA SendNone ==
    ASSUME Types, UNCHANGED up
    PROVE  CalmUp
<1>2. \A t \in Servers : up[t] \in Seq(UpMsg(Known)) BY DEF Types
<1>3. <<>> \in Seq(UpMsg(Known)) /\ DOMAIN <<>> = {} OBVIOUS
<1>4. \A t \in Servers : up[t] = up[t] \o <<>> BY <1>2, <1>3, JoinJoin
<1> QED BY <1>3, <1>4 DEF CalmUp, Types

\* Copies that stay.
LEMMA PartyStays ==
    ASSUME Types, UNCHANGED party
    PROVE  /\ party' \in [Servers -> [Parties -> {NoParty} \cup [Places -> CopyEntry]]]
           /\ \A s \in Servers, p \in Parties : Alike(party[s][p], party'[s][p])
BY DEF Types, Alike

\* Whoever plays does so on a map-server that is there.
LEMMA PlayingHere ==
    ASSUME Types, Gone, NEW c \in Chars, Client(c)
    PROVE  where[c] # 0 /\ where[c] \in Servers /\ where[c] \notin crashed
BY Playing DEF Gone, Client

\* No session changes.
LEMMA SdStays ==
    ASSUME Types, UNCHANGED sd
    PROVE  CalmSd
BY DEF Types, CalmSd, SameWaits

\* A player founds a party.
LEMMA CreateInv ==
    ASSUME PartyInv, NEW c \in Chars, party_create(c)
    PROVE  PartyInv'
<1> USE DEF PartyInv
<1>1. /\ Client(c) /\ Send(where[c], <<Pack("create", 0, c)>>)
      /\ sd' = [sd EXCEPT ![c].party_creating = TRUE]
      /\ Rest /\ UNCHANGED <<where, party>>
  BY Zenon DEF party_create
<1>2. sd \in [Chars -> Session(Known)] BY DEF Types
<1>3. CalmSd BY <1>1, <1>2 DEF Session, CalmSd, SameWaits
<1>4. Pack("create", 0, c) \in UpMsg(Known) BY UpPack
<1>t. Pack("create", 0, c).type = "create" BY DEF Pack
<1>5. CalmUp BY <1>1, <1>4, <1>t, PlayingHere, SendOne
<1> QED BY <1>1, <1>3, <1>5, PartyStays, CalmRequest DEF Rest

\* A player leaves, or is expelled.
LEMMA LeaveInv ==
    ASSUME PartyInv, NEW c \in Chars, NEW d \in Chars, party_leave(c) \/ party_removemember(c, d)
    PROVE  PartyInv'
<1> USE DEF PartyInv
<1>1. PICK e \in Chars : Client(c) /\ Send(where[c], <<Pack("leave", sd[c].party_id, e)>>)
                         /\ Rest /\ UNCHANGED <<where, sd, party>> /\ At(Copy(c), c) # {}
  BY Zenon DEF party_leave, party_removemember
<1>2. where[c] \in Servers /\ where[c] # 0 /\ where[c] \notin crashed BY <1>1, PlayingHere
<1>3. sd[c].party_id \in Known
  <2>1. Copy(c) # NoParty BY <1>1, <1>2, Playing, SlotFacts DEF At
  <2> QED BY <2>1, <1>2, Playing
<1>4. Pack("leave", sd[c].party_id, e) \in UpMsg(Known) BY <1>3, UpParty
<1>t. Pack("leave", sd[c].party_id, e).type = "leave" BY DEF Pack
<1>5. CalmUp BY <1>1, <1>2, <1>4, <1>t, SendOne
<1> QED BY <1>1, <1>5, SdStays, PartyStays, CalmRequest DEF Rest

\* A player is saved.
LEMMA AutosaveInv ==
    ASSUME PartyInv, NEW c \in Chars, pc_autosave(c)
    PROVE  PartyInv'
<1> USE DEF PartyInv
<1>1. Client(c) /\ Send(where[c], <<Pack("save", sd[c].party_id, c)>>) /\ Rest /\ UNCHANGED <<where, sd, party>>
  BY Zenon DEF pc_autosave
<1>2. where[c] \in Servers /\ where[c] # 0 /\ where[c] \notin crashed /\ sd[c].party_id \in Known \cup {0}
  BY <1>1, PlayingHere, Playing
<1>4. Pack("save", sd[c].party_id, c) \in UpMsg(Known) BY <1>2, UpPack
<1>t. Pack("save", sd[c].party_id, c).type = "save" BY DEF Pack
<1>5. CalmUp BY <1>1, <1>2, <1>4, <1>t, SendOne
<1> QED BY <1>1, <1>5, SdStays, PartyStays, CalmRequest DEF Rest

\* A player changes maps.
LEMMA MoveInv ==
    ASSUME PartyInv, NEW c \in Chars, party_send_movemap(c)
    PROVE  PartyInv'
<1> USE DEF PartyInv
<1>1. /\ Client(c) /\ sd' = [sd EXCEPT ![c].party_invite = 0] /\ Rest /\ UNCHANGED <<where, party>>
      /\ \/ sd[c].party_id # 0 /\ Send(where[c], <<[Pack("changemap", sd[c].party_id, c) EXCEPT !.flag = TRUE]>>)
         \/ UNCHANGED up
  BY Zenon DEF party_send_movemap
<1>2. where[c] \in Servers /\ where[c] # 0 /\ where[c] \notin crashed BY <1>1, PlayingHere
<1>3. sd \in [Chars -> Session(Known)] BY DEF Types
<1>4. CalmSd BY <1>1, <1>3 DEF Session, CalmSd, SameWaits
<1>5. CalmUp
  <2>1. CASE sd[c].party_id # 0 /\ Send(where[c], <<[Pack("changemap", sd[c].party_id, c) EXCEPT !.flag = TRUE]>>)
    <3> DEFINE m == Plain("changemap", sd[c].party_id, c, TRUE)
    <3>1. Send(where[c], <<m>>) BY <2>1, FlagIs, Zenon
    <3>2. sd[c].party_id \in Known BY <1>2, <2>1, Playing
    <3>3. m \in UpMsg(Known) BY <3>2, UpFlag
    <3>4. m.type = "changemap" BY DEF Plain
    <3> HIDE DEF m
    <3> QED BY <1>2, <3>1, <3>3, <3>4, SendOne
  <2> QED BY <1>1, <2>1, SendNone
<1> QED BY <1>1, <1>4, <1>5, PartyStays, CalmRequest DEF Rest

\* A rank given to or taken from a member in a copy.
Ranked(a, k, new) == \E b \in BOOLEAN : new = [a EXCEPT ![k].leader = b]

\* The copy has the same members in the same slots.
LEMMA RankSet ==
    ASSUME NEW a, a \in [Places -> CopyEntry], NEW k \in Places,
           NEW new, Ranked(a, k, new)
    PROVE  new \in [Places -> CopyEntry] /\ \A l \in Places : new[l].char = a[l].char
<1>1. PICK b \in BOOLEAN : new = [a EXCEPT ![k].leader = b] BY DEF Ranked
<1>2. PICK e : e = [a[k] EXCEPT !.leader = b] OBVIOUS
<1>3. e \in CopyEntry /\ e.char = a[k].char BY <1>2 DEF CopyEntry
<1>4. new = [a EXCEPT ![k] = e] BY <1>1, <1>2
<1> QED BY <1>3, <1>4

\* The leader hands the rank to a member in the copy.
LEMMA ChangeLeaderInv ==
    ASSUME PartyInv, NEW c \in Chars, NEW d \in Chars, party_changeleader(c, d)
    PROVE  PartyInv'
<1> USE DEF PartyInv
<1> DEFINE s == where[c]
           id == sd[c].party_id
           i == Min(Mine(c))
           j == Min(Mine(d))
           copy == party[s][id]
           new == [[copy EXCEPT ![i].leader = FALSE] EXCEPT ![j].leader = TRUE]
<1>1. /\ Client(c) /\ where[d] = s /\ sd[d].party_id = id /\ Mine(c) # {} /\ Mine(d) # {}
      /\ Send(s, <<Pack("leaderchange", id, d)>>) /\ Rest /\ UNCHANGED <<where, sd>>
  BY DEF party_changeleader
<1>p. party' = [party EXCEPT ![s][id] = new] BY Zenon DEF party_changeleader
<1>2. s \in Servers /\ s # 0 /\ s \notin crashed BY <1>1, PlayingHere
<1>3. Copy(c) # NoParty
  <2>1. CASE Copy(c) = NoParty
    <3>1. DOMAIN Copy(c) = {} BY <1>2, <2>1, Playing, SlotFacts
    <3> QED BY <1>1, <3>1 DEF Mine, At
  <2> QED BY <2>1
<1>4. id \in Known /\ id \in Parties /\ id # 0 /\ Copy(c) = copy /\ copy \in [Places -> CopyEntry] /\ Copy(d) = copy
  <2>1. id # 0 BY <1>2, <1>3, Playing
  <2>2. Copy(d) = copy BY <1>1, <2>1 DEF Copy
  <2> QED BY <1>2, <1>3, <2>1, <2>2, Playing
<1>5. i \in Places /\ j \in Places
  <2>1. DOMAIN copy \subseteq Places BY <1>4
  <2>2. Mine(c) \in SUBSET At(copy, c) /\ Mine(d) \in SUBSET At(copy, d) BY <1>4 DEF Mine
  <2> QED BY <1>1, <2>1, <2>2, MinAt
<1> HIDE DEF i, j
<1>6. new \in [Places -> CopyEntry] /\ \A k \in Places : new[k].char = copy[k].char
  <2>1. PICK mid : Ranked(copy, i, mid) /\ new = [mid EXCEPT ![j].leader = TRUE] BY DEF Ranked
  <2>2. Ranked(mid, j, new) BY <2>1 DEF Ranked
  <2> HIDE DEF new, copy
  <2>3. mid \in [Places -> CopyEntry] /\ \A k \in Places : mid[k].char = copy[k].char BY <1>4, <1>5, <2>1, RankSet
  <2>4. new \in [Places -> CopyEntry] /\ \A k \in Places : new[k].char = mid[k].char BY <1>5, <2>2, <2>3, RankSet
  <2> QED BY <2>3, <2>4
<1>7. Alike(copy, new)
  <2>1. DOMAIN new = Places /\ DOMAIN copy = Places BY <1>4, <1>6
  <2>2. copy # NoParty /\ new # NoParty BY <1>4, <1>5, <2>1, SlotFacts
  <2> HIDE DEF new, copy
  <2> QED BY <1>6, <2>1, <2>2 DEF Alike
<1> HIDE DEF new
<1>8. /\ party' \in [Servers -> [Parties -> {NoParty} \cup [Places -> CopyEntry]]]
      /\ \A t \in Servers, p \in Parties : party'[t][p] = IF t = s /\ p = id THEN new ELSE party[t][p]
  BY <1>2, <1>4, <1>6, <1>p DEF Types
<1>9. \A t \in Servers, p \in Parties : Alike(party[t][p], party'[t][p]) BY <1>7, <1>8 DEF Alike
<1>10. Pack("leaderchange", id, d) \in UpMsg(Known) BY <1>4, UpParty
<1>11. Pack("leaderchange", id, d).type = "leaderchange" BY DEF Pack
<1>12. CalmUp BY <1>1, <1>2, <1>10, <1>11, SendOne
<1> QED BY <1>1, <1>8, <1>9, <1>12, SdStays, CalmRequest DEF Rest

\* The invited one is not a member: a member that the copy lacks waits for the answer.
LEMMA InviteInv ==
    ASSUME PartyInv, NEW c \in Chars, NEW d \in Chars, party_invite(c, d)
    PROVE  PartyInv'
<1> USE DEF PartyInv
<1> DEFINE s == where[c]
           id == sd[c].party_id
<1>1. /\ Client(c) /\ where[d] = s /\ Mine(c) # {} /\ At(Copy(c), d) = {}
      /\ sd' = [sd EXCEPT ![d].party_invite = id] /\ Rest /\ UNCHANGED <<where, party, up>>
  BY DEF party_invite
<1>2. s \in Servers /\ s # 0 BY <1>1, PlayingHere
<1>3. Copy(c) # NoParty
  <2>1. CASE Copy(c) = NoParty
    <3>1. DOMAIN Copy(c) = {} BY <1>2, <2>1, Playing, SlotFacts
    <3> QED BY <1>1, <3>1 DEF Mine, At
  <2> QED BY <2>1
<1>4. id \in Known /\ id \in Parties /\ Copy(c) = party[s][id] BY <1>2, <1>3, Playing
<1>5. Lacks(s, id, d) BY <1>1, <1>3, <1>4 DEF Lacks, In, At
<1>6. d \in In(party_db_[id]) => sd[d].party_joining
  <2> SUFFICES ASSUME d \in In(party_db_[id]) PROVE sd[d].party_joining OBVIOUS
  <2>1. Listed(s, id, d) BY <1>2, <1>4 DEF Lists
  <2>2. Occ(down[s], Opens(s, id, d)) BY <1>1, <1>5, <2>1 DEF Listed
  <2>3. ~Occ(down[s], DownToken(d)) BY <1>1, <1>2 DEF Tokens, Token
  <2>4. Occ(down[s], Added(d))
    <3>1. PICK k \in DOMAIN down[s] : down[s][k] \in Opens(s, id, d) BY <2>2 DEF Occ
    <3>2. down[s][k] \notin DownToken(d) BY <2>3, <3>1 DEF Occ
    <3>3. down[s][k] \in Added(d) BY <3>1, <3>2 DEF Opens, DownToken, Added, Down
    <3> QED BY <3>3 DEF Occ
  <2> QED BY <1>1, <1>2, <2>4 DEF Joining, Joins
<1>7. sd \in [Chars -> Session(Known)] BY DEF Types
<1>8. SameWaits /\ \A e \in Chars : sd'[e].party_invite = IF e = d THEN id ELSE sd[e].party_invite
  BY <1>1, <1>4, <1>7 DEF SameWaits, Session
<1>9. UNCHANGED party_db_ BY <1>1 DEF Rest, charVars
<1>10. Invites' BY <1>1, <1>6, <1>8, <1>9 DEF Invites, SameWaits
<1> QED BY <1>1, <1>8, <1>10, SendNone, PartyStays, CalmStep DEF Rest

\* Who asks to join waits, or has left behind the request.
LEMMA AddMeans ==
    ASSUME NEW c \in Chars, Token(c), Joins(c), NEW t \in Servers, Occ(up[t], Add(c))
    PROVE  \/ where[c] = t /\ sd[c].party_joining
           \/ where[c] = 0 /\ Occ(up[t], UpToken(c)) /\ Occ(up[t], Up(c, {"quit", "move"}))
<1>1. CASE Followed(up[t], Add(c), Up(c, {"quit", "move"}))
  <2>1. Occ(up[t], Up(c, {"quit", "move"})) BY <1>1 DEF Followed, Occ
  <2>2. Occ(up[t], UpToken(c)) BY <2>1 DEF Occ, UpToken, Up
  <2> QED BY <2>1, <2>2 DEF Token
<1> QED BY <1>1 DEF Joins

\* An invitation is answered: the request to join is the only one.
LEMMA ReplyInv ==
    ASSUME PartyInv, NEW c \in Chars, NEW flag \in BOOLEAN, party_reply_invite(c, flag)
    PROVE  PartyInv'
<1> USE DEF PartyInv
<1> DEFINE s == where[c]
           id == sd[c].party_invite
           m == Pack("addmember", id, c)
<1>1. /\ Client(c) /\ id # 0 /\ Rest /\ UNCHANGED <<where, party>>
      /\ \/ ~sd[c].party_joining /\ sd' = [sd EXCEPT ![c].party_joining = TRUE] /\ Send(s, <<m>>)
         \/ sd' = [sd EXCEPT ![c].party_invite = 0] /\ UNCHANGED up
  BY Zenon DEF party_reply_invite
<1>2. s \in Servers /\ s # 0 /\ s \notin crashed BY <1>1, PlayingHere
<1>3. sd \in [Chars -> Session(Known)] BY DEF Types
<1>4. CASE sd' = [sd EXCEPT ![c].party_invite = 0] /\ UNCHANGED up
  <2>1. CalmSd BY <1>3, <1>4 DEF Session, CalmSd, SameWaits
  <2> QED BY <1>1, <1>4, <2>1, SendNone, PartyStays, CalmRequest DEF Rest
<1>5. CASE ~sd[c].party_joining /\ sd' = [sd EXCEPT ![c].party_joining = TRUE] /\ Send(s, <<m>>)
  <2>0. UNCHANGED <<party_db_, nextid, row, char_db_, auth_db, down, crashed>> BY <1>1 DEF Rest, charVars
  <2>1. /\ sd' \in [Chars -> Session(Known)] /\ sd'[c].party_joining = TRUE
        /\ \A d \in Chars : /\ sd'[d].party_invite = sd[d].party_invite
                            /\ d # c => sd'[d].party_joining = sd[d].party_joining
    BY <1>3, <1>5 DEF Session
  <2>2. id \in Known BY <1>1, <1>3 DEF Session
  <2>3. m \in UpMsg(Known) BY <2>2, UpParty
  <2>4. m.type = "addmember" /\ m.char = c /\ m.party = id BY DEF Pack
  <2> HIDE DEF m
  <2> DEFINE r == <<m>>
  <2>5. r \in Seq(UpMsg(Known)) /\ r \in Seq(UpMsg(Parties)) BY <2>3, Queues
  <2>6. /\ up' \in [Servers -> Seq(UpMsg(Known))]
        /\ up'[s] = up[s] \o r /\ \A t \in Servers : t # s => up'[t] = up[t]
    BY <1>2, <1>5, <2>5, SendEffect
  <2>7. \A t \in Servers : up[t] \in Seq(UpMsg(Parties)) /\ down[t] \in Seq(DownMsg(Parties)) BY Queues
  <2>q. up[s] \in Seq(UpMsg(Parties)) BY <1>2, <2>7
  <2>8. \A X : Occ(r, X) <=> m \in X BY DEF Occ
  <2>9. \A X : One(r, X) BY DEF One
  <2> HIDE DEF r
  <2>10. Types' BY <1>1, <2>0, <2>1, <2>6, TypesStep DEF Types
  <2>11. \A d \in Chars : \A t \in Servers : Calm(down[t], down'[t], DownMsg(Parties), DownToken(d)) /\ Calm(down[t], down'[t], DownMsg(Parties), DownOf(d))
    BY <2>0, <2>7, CalmIs
  <2>12. Tokens'
    <3> SUFFICES ASSUME NEW d \in Chars PROVE Token(d)' BY DEF Tokens
    <3>1. ~Occ(r, UpToken(d)) BY <2>4, <2>8 DEF UpToken, Up
    <3>2. \A t \in Servers : Calm(up[t], up'[t], UpMsg(Parties), UpToken(d)) BY <2>5, <2>6, <2>7, <3>1, CalmIs
    <3>3. TokenCalm(d) BY <2>11, <3>2 DEF TokenCalm
    <3> QED BY <1>1, <2>0, <3>3, CalmToken DEF Tokens
  <2>13. \A t \in Servers : ~Occ(up[t], Add(c)) BY <1>2, <1>5, AddMeans DEF Tokens, Joining
  <2>14. Joins(c)'
    <3>1. ~Occ(r, Up(c, {"registry"})) BY <2>4, <2>8 DEF Up
    <3>2. Occ(up'[s], Up(c, {"registry"})) => Occ(up[s], Up(c, {"registry"})) BY <2>5, <2>6, <2>q, <3>1, JoinOcc
    <3>3. One(up[s], Add(c)) /\ ~Occ(up[s], Add(c)) BY <1>2, <2>13 DEF Joining, Joins
    <3>4. One(up'[s], Add(c)) BY <2>5, <2>6, <2>q, <2>9, <3>3, JoinOcc
    <3>5. Add(c)' = Add(c) /\ Added(c)' = Added(c) /\ DownToken(c)' = DownToken(c) BY DEF Add, Added, DownToken
    <3>6. where'[c] = s /\ sd'[c].party_joining BY <1>1, <2>1
    <3>7. ~Occ(down[s], Added(c)) BY <1>2, <1>5 DEF Joining, Joins
    <3>8. Joins(c) BY DEF Joining
    <3>9. \A t \in Servers : Occ(up'[t], Add(c)) => t = s BY <2>6, <2>13
    <3>10. \A t \in Servers : Followed(up'[t], Add(c), Up(c, {"quit", "move"})) \/ (where'[c] = t /\ sd'[c].party_joining)
      BY <1>2, <2>6, <3>6, <3>8 DEF Joins
    <3>11. \A t \in Servers : One(up'[t], Add(c)) /\ Ahead(down'[t], Added(c), DownToken(c)) BY <2>0, <2>6, <3>4, <3>8 DEF Joins
    <3>12. \A t \in Servers : Occ(down'[t], Added(c)) =>
              /\ where'[c] = t => sd'[c].party_joining /\ One(down'[t], Added(c)) /\ ~Occ(up'[t], Add(c))
              /\ ~Occ(up'[t], Up(c, {"registry"}))
      BY <2>0, <2>6, <3>6, <3>7, <3>8 DEF Joins
    <3> QED BY <3>5, <3>9, <3>10, <3>11, <3>12 DEF Joins
  <2>15. Joining'
    <3> SUFFICES ASSUME NEW d \in Chars, d # c PROVE Joins(d)' BY <2>14 DEF Joining
    <3>1. ~Occ(r, UpOf(d)) BY <2>4, <2>8 DEF UpOf, Up
    <3>2. \A t \in Servers : Calm(up[t], up'[t], UpMsg(Parties), UpOf(d)) BY <2>5, <2>6, <2>7, <3>1, CalmIs
    <3>3. CalmFor(d) BY <2>11, <3>2 DEF CalmFor
    <3> QED BY <1>1, <2>1, <3>3, CalmJoins DEF Joining
  <2>16. Known' = Known BY <2>0 DEF Known
  <2>17. Unfounded' /\ Gone' /\ OnceEach' BY <1>1, <1>2, <2>0, <2>6, <2>16 DEF Unfounded, Gone, OnceEach, Types
  <2>18. Again' = Again /\ Twice' = Twice BY <2>0 DEF Again, Twice
  <2>19. m \notin Again BY <1>1, <1>2, <1>5, <2>4 DEF Again, Invites
  <2>20. Timely'
    <3>1. Occ(up'[s], Again) <=> Occ(up[s], Again) \/ Occ(r, Again) BY <2>5, <2>6, <2>q, JoinOcc
    <3> QED BY <1>2, <2>0, <2>6, <2>8, <2>18, <2>19, <3>1 DEF Timely
  <2>21. Invites' BY <1>1, <2>0, <2>1 DEF Invites
  <2>22. Lists' BY <1>1, <2>0, PartyStays, ListsStay
  <2> QED BY <2>10, <2>12, <2>15, <2>17, <2>20, <2>21, <2>22
<1> QED BY <1>1, <1>4, <1>5

\* The copies after a session is gone.
LEMMA LogoutAlike ==
    ASSUME Types, NEW c \in Chars, where[c] # 0, party' = Logout(c)
    PROVE  /\ party' \in [Servers -> [Parties -> {NoParty} \cup [Places -> CopyEntry]]]
           /\ \A s \in Servers, p \in Parties : Alike(party[s][p], party'[s][p])
<1>1. CASE Mine(c) = {} BY <1>1, PartyStays DEF Logout
<1>2. CASE Mine(c) # {}
  <2> DEFINE s == where[c]
             id == sd[c].party_id
             i == Min(Mine(c))
             copy == party[s][id]
             new == [copy EXCEPT ![i].sd = FALSE]
  <2>1. Copy(c) # NoParty
    <3>1. CASE Copy(c) = NoParty
      <4>1. DOMAIN Copy(c) = {} BY <3>1, Playing, SlotFacts
      <4> QED BY <1>2, <4>1 DEF Mine, At
    <3> QED BY <3>1
  <2>2. s \in Servers /\ id \in Parties /\ Copy(c) = copy /\ copy \in [Places -> CopyEntry] BY <2>1, Playing
  <2>3. i \in Places
    <3>1. DOMAIN copy \subseteq Places BY <2>2
    <3>2. Mine(c) \in SUBSET At(copy, c) BY <2>2 DEF Mine
    <3> QED BY <1>2, <3>1, <3>2, MinAt
  <2>p. party' = [party EXCEPT ![s][id] = new] BY <1>2, Zenon DEF Logout
  <2> HIDE DEF i
  <2>4. new \in [Places -> CopyEntry] /\ \A k \in Places : new[k].char = copy[k].char BY <2>2, <2>3 DEF CopyEntry
  <2>5. Alike(copy, new)
    <3>1. DOMAIN new = Places /\ DOMAIN copy = Places BY <2>2, <2>4
    <3>2. copy # NoParty /\ new # NoParty BY <2>3, <3>1, SlotFacts
    <3> HIDE DEF new, copy
    <3> QED BY <2>4, <3>1, <3>2 DEF Alike
  <2> HIDE DEF new
  <2>6. /\ party' \in [Servers -> [Parties -> {NoParty} \cup [Places -> CopyEntry]]]
        /\ \A t \in Servers, p \in Parties : party'[t][p] = IF t = s /\ p = id THEN new ELSE party[t][p]
    BY <2>2, <2>4, <2>p DEF Types
  <2>7. \A t \in Servers, p \in Parties : Alike(party[t][p], party'[t][p]) BY <2>5, <2>6 DEF Alike
  <2> QED BY <2>6, <2>7
<1> QED BY <1>1, <1>2

\* One packet and others alike.
LEMMA FirstAndRest ==
    ASSUME NEW S, NEW a \in Seq(S), Len(a) = 1, NEW b \in Seq(S), NEW n, \A i \in DOMAIN b : b[i] = n
    PROVE  /\ a \o b \in Seq(S) /\ 1 \in DOMAIN (a \o b) /\ (a \o b)[1] = a[1]
           /\ \A i \in DOMAIN (a \o b) : i = 1 \/ (a \o b)[i] = n
<1>1. /\ a \o b \in Seq(S) /\ DOMAIN a = 1..Len(a) /\ \A i \in DOMAIN a : i \in DOMAIN (a \o b) /\ (a \o b)[i] = a[i]
      /\ \A i \in DOMAIN (a \o b) : \/ i \in DOMAIN a /\ (a \o b)[i] = a[i]
                                    \/ i - Len(a) \in DOMAIN b /\ (a \o b)[i] = b[i - Len(a)]
  BY JoinIndex
<1>2. 1 \in DOMAIN a /\ \A i \in DOMAIN a : i = 1 BY <1>1
<1> QED BY <1>1, <1>2

\* The packets a leaving player causes.
Departs(r, c, type) ==
    /\ 1 \in DOMAIN r /\ r[1].type = type
    /\ \A i \in DOMAIN r : r[i].char = c /\ (i = 1 \/ r[i].type = "changemap")

\* The packets of somebody that leaves: the first says so.
LEMMA LeavingPackets ==
    ASSUME Types, NEW c \in Chars, where[c] # 0, NEW type \in {"quit", "move"}
    PROVE  \E r \in Seq(UpMsg(Known)) :
               r = <<Pack(type, sd[c].party_id, c)>> \o Leaving(c) /\ Departs(r, c, type)
<1>0. PICK m, n : m = Pack(type, sd[c].party_id, c) /\ n = Pack("changemap", sd[c].party_id, c) OBVIOUS
<1>1. sd[c].party_id \in Known \cup {0} BY Playing
<1>2. m \in UpMsg(Known)
  <2>1. Pack("quit", sd[c].party_id, c) \in UpMsg(Known) /\ Pack("move", sd[c].party_id, c) \in UpMsg(Known) BY <1>1, UpPack
  <2> QED BY <1>0, <2>1
<1>3. m.type = type /\ m.char = c /\ n.type = "changemap" /\ n.char = c BY <1>0 DEF Pack
<1>4. sd[c].party_id # 0 => n \in UpMsg(Known) BY <1>0, <1>1, UpParty
<1> DEFINE a == <<m>>
           b == IF sd[c].party_id = 0 THEN <<>> ELSE <<n>>
           S == UpMsg(Known)
<1>5. b = Leaving(c) BY <1>0 DEF Leaving
<1>6. a \in Seq(S) /\ Len(a) = 1 /\ a[1] = m BY <1>2
<1>7. b \in Seq(S) /\ \A i \in DOMAIN b : b[i] = n
  <2>1. CASE sd[c].party_id = 0 BY <2>1
  <2>2. CASE sd[c].party_id # 0
    <3>1. <<n>> \in Seq(S) /\ \A i \in DOMAIN <<n>> : <<n>>[i] = n BY <1>4, <2>2
    <3> QED BY <2>2, <3>1
  <2> QED BY <2>1, <2>2
<1>8. a = <<Pack(type, sd[c].party_id, c)>> BY <1>0
<1> HIDE DEF a, b, S
<1>9. /\ a \o b \in Seq(S) /\ 1 \in DOMAIN (a \o b) /\ (a \o b)[1] = a[1]
      /\ \A i \in DOMAIN (a \o b) : i = 1 \/ (a \o b)[i] = n
  BY <1>6, <1>7, FirstAndRest
<1> DEFINE r == a \o b
<1>10. r = <<Pack(type, sd[c].party_id, c)>> \o Leaving(c) BY <1>5, <1>8, Zenon
<1>11. r \in Seq(S) /\ 1 \in DOMAIN r /\ r[1] = m /\ \A i \in DOMAIN r : i = 1 \/ r[i] = n BY <1>6, <1>9
<1> HIDE DEF r
<1>12. Departs(r, c, type) BY <1>3, <1>11 DEF Departs
<1>13. r \in Seq(UpMsg(Known)) BY <1>11 DEF S
<1> QED BY <1>10, <1>12, <1>13, Zenon

\* A player leaves the map-server: the pointer goes, and the save is behind what it asked for.
LEMMA LeftInv ==
    ASSUME PartyInv, NEW c \in Chars, Client(c), Left(c), Rest,
           NEW type \in {"quit", "move"}, NEW r \in Seq(UpMsg(Known)), Send(where[c], r), Departs(r, c, type)
    PROVE  PartyInv'
<1> USE DEF PartyInv
<1> DEFINE s == where[c]
<1>0. UNCHANGED <<party_db_, nextid, row, char_db_, auth_db, down, crashed>> BY DEF Rest, charVars
<1>1. s \in Servers /\ s # 0 /\ s \notin crashed BY PlayingHere
<1>2. /\ r \in Seq(UpMsg(Known)) /\ 1 \in DOMAIN r /\ r[1].type = type /\ r[1].char = c
      /\ \A i \in DOMAIN r : r[i].char = c /\ (i = 1 \/ r[i].type = "changemap")
  BY DEF Departs
<1>3. Send(s, r) OBVIOUS
<1>4. /\ up' \in [Servers -> Seq(UpMsg(Known))]
      /\ up'[s] = up[s] \o r /\ \A t \in Servers : t # s => up'[t] = up[t]
  BY <1>1, <1>2, <1>3, SendEffect
<1>5. \A t \in Servers : up[t] \in Seq(UpMsg(Parties)) /\ down[t] \in Seq(DownMsg(Parties)) BY Queues
<1>6. r \in Seq(UpMsg(Parties)) /\ \A i \in DOMAIN r : r[i] \in UpMsg(Parties) BY <1>2, Queues
<1>7. /\ Occ(r, UpToken(c)) /\ Occ(r, Up(c, {"quit", "move"})) /\ One(r, UpToken(c))
      /\ ~Occ(r, Add(c)) /\ ~Occ(r, Up(c, {"registry"})) /\ ~Occ(r, Again)
  <2>1. Occ(r, UpToken(c)) /\ Occ(r, Up(c, {"quit", "move"})) BY <1>2, <1>6 DEF Occ, UpToken, Up
  <2>2. One(r, UpToken(c)) BY <1>2 DEF One, UpToken, Up
  <2>3. ~Occ(r, Add(c)) /\ ~Occ(r, Up(c, {"registry"})) /\ ~Occ(r, Again) BY <1>2 DEF Occ, Add, Up, Again
  <2> QED BY <2>1, <2>2, <2>3
<1>8. \A d \in Chars : d # c => ~Occ(r, UpOf(d)) BY <1>2 DEF Occ, UpOf, Up
<1>9. where \in [Chars -> Servers \cup {0}] /\ sd \in [Chars -> Session(Known)] BY DEF Types
<1>w. where' = [where EXCEPT ![c] = 0] /\ sd' = [sd EXCEPT ![c] = NoSession] /\ party' = Logout(c) BY DEF Left
<1>10. /\ where' \in [Chars -> Servers \cup {0}] /\ where'[c] = 0
       /\ \A d \in Chars : d # c => where'[d] = where[d]
  BY <1>9, <1>w
<1>11. sd' \in [Chars -> Session(Known)] /\ \A d \in Chars : d # c => sd'[d] = sd[d]
  <2>1. NoSession \in Session(Known) BY DEF NoSession, Session
  <2> QED BY <1>9, <1>w, <2>1
<1>12. /\ party' \in [Servers -> [Parties -> {NoParty} \cup [Places -> CopyEntry]]]
       /\ \A t \in Servers, p \in Parties : Alike(party[t][p], party'[t][p])
  BY <1>1, <1>w, LogoutAlike
<1>13. Types' BY <1>0, <1>4, <1>10, <1>11, <1>12, TypesStep DEF Types
<1>14. Known' = Known BY <1>0 DEF Known
<1>15. \A t \in Servers : ~Occ(up[t], UpToken(c)) /\ ~Occ(down[t], DownToken(c)) BY <1>1 DEF Tokens, Token
<1>16. c \notin auth_db BY <1>1 DEF Tokens, Token
<1>17. Token(c)'
  <2>1. One(up'[s], UpToken(c))
    <3>1. One(up[s], UpToken(c)) BY <1>1, <1>15, Without
    <3>2. up[s] \in Seq(UpMsg(Parties)) /\ ~Occ(up[s], UpToken(c)) BY <1>1, <1>5, <1>15
    <3>3. up'[s] = up[s] \o r /\ r \in Seq(UpMsg(Parties)) /\ One(r, UpToken(c)) BY <1>4, <1>6, <1>7
    <3> HIDE DEF s
    <3> QED BY <3>1, <3>2, <3>3, JoinOcc
  <2>2. \A t \in Servers : t # s => One(up'[t], UpToken(c)) /\ ~Occ(up'[t], UpToken(c)) BY <1>4, <1>15, Without
  <2>3. \A t \in Servers : One(down'[t], DownToken(c)) /\ ~Occ(down'[t], DownToken(c)) BY <1>0, <1>15, Without
  <2>4. UpToken(c)' = UpToken(c) /\ DownToken(c)' = DownToken(c) BY DEF UpToken, DownToken
  <2> QED BY <1>0, <1>10, <1>16, <2>1, <2>2, <2>3, <2>4 DEF Token
<1>18. \A d \in Chars : d # c => CalmFor(d)
  <2> SUFFICES ASSUME NEW d \in Chars, d # c PROVE CalmFor(d) OBVIOUS
  <2>1. \A t \in Servers : Calm(up[t], up'[t], UpMsg(Parties), UpOf(d)) BY <1>4, <1>5, <1>6, <1>8, CalmIs
  <2>2. \A t \in Servers : Calm(down[t], down'[t], DownMsg(Parties), DownOf(d)) BY <1>0, <1>5, CalmIs
  <2> QED BY <2>1, <2>2 DEF CalmFor
<1>19. Tokens'
  <2> SUFFICES ASSUME NEW d \in Chars, d # c PROVE Token(d)' BY <1>17 DEF Tokens
  <2> QED BY <1>0, <1>10, <1>18, CalmIsTokenCalm, CalmToken DEF Tokens
<1>20. Joins(c)'
  <2>0. Joins(c) BY DEF Joining
  <2>1. Followed(up'[s], Add(c), Up(c, {"quit", "move"}))
    <3> DEFINE out == Up(c, {"quit", "move"})
               S == UpMsg(Parties)
    <3>1. Followed(r, Add(c), out) BY <1>7, Without
    <3>2. up[s] \in Seq(S) /\ r \in Seq(S) BY <1>1, <1>5, <1>6
    <3>3. up'[s] = up[s] \o r /\ Occ(r, out) BY <1>4, <1>7
    <3> HIDE DEF out, S, s
    <3>4. Followed(up'[s], Add(c), out) BY <3>1, <3>2, <3>3, JoinFollowed
    <3> QED BY <3>4 DEF out, s
  <2>2. \A t \in Servers : t # s => Followed(up'[t], Add(c), Up(c, {"quit", "move"})) BY <1>4, <2>0 DEF Joins
  <2>3. /\ One(up'[s], Add(c)) /\ (Occ(up'[s], Add(c)) => Occ(up[s], Add(c)))
        /\ Occ(up'[s], Up(c, {"registry"})) => Occ(up[s], Up(c, {"registry"}))
    <3>1. One(up[s], Add(c)) /\ One(r, Add(c)) BY <1>1, <1>7, <2>0, Without DEF Joins
    <3>2. up[s] \in Seq(UpMsg(Parties)) BY <1>1, <1>5
    <3> QED BY <1>4, <1>6, <1>7, <3>1, <3>2, JoinOcc
  <2>4. Add(c)' = Add(c) /\ Added(c)' = Added(c) /\ DownToken(c)' = DownToken(c) BY DEF Add, Added, DownToken
  <2>5. \A t \in Servers : One(up'[t], Add(c)) /\ Ahead(down'[t], Added(c), DownToken(c)) BY <1>0, <1>4, <2>0, <2>3 DEF Joins
  <2>6. \A t, u \in Servers : Occ(up'[t], Add(c)) /\ Occ(up'[u], Add(c)) => t = u BY <1>4, <2>0, <2>3 DEF Joins
  <2>7. \A t \in Servers : where'[c] # t BY <1>10, PartyAssumption
  <2>8. \A t \in Servers : Occ(down'[t], Added(c)) => ~Occ(up'[t], Up(c, {"registry"})) BY <1>0, <1>4, <2>0, <2>3 DEF Joins
  <2> QED BY <2>1, <2>2, <2>4, <2>5, <2>6, <2>7, <2>8 DEF Joins
<1>21. Joining'
  <2> SUFFICES ASSUME NEW d \in Chars, d # c PROVE Joins(d)' BY <1>20 DEF Joining
  <2> QED BY <1>10, <1>11, <1>18, CalmJoins DEF Joining
<1>22. Unfounded' BY <1>0, <1>12, <1>14 DEF Unfounded, Alike
<1>23. Gone'
  <2> SUFFICES ASSUME NEW t \in crashed
               PROVE  /\ up'[t] = <<>> /\ down'[t] = <<>> /\ \A d \in Chars : where'[d] # t
                      /\ \A p \in Parties : party'[t][p] = NoParty
    BY <1>0 DEF Gone
  <2>1. t \in Servers /\ t # s /\ t # 0 BY <1>1, PartyAssumption DEF Types
  <2>2. up[t] = <<>> /\ down[t] = <<>> /\ (\A d \in Chars : where[d] # t) /\ \A p \in Parties : party[t][p] = NoParty
    BY DEF Gone
  <2> QED BY <1>0, <1>4, <1>10, <1>12, <2>1, <2>2 DEF Alike
<1>24. OnceEach' BY <1>0, <1>12, AlikeFacts DEF OnceEach
<1>25. Again' = Again /\ Twice' = Twice BY <1>0 DEF Again, Twice
<1>26. Timely'
  <2>1. up[s] \in Seq(UpMsg(Parties)) BY <1>1, <1>5
  <2>2. ~Occ(up'[s], Again)
    <3>1. ~Occ(up[s], Again) BY <1>1 DEF Timely
    <3> QED BY <1>4, <1>6, <1>7, <2>1, <3>1, JoinOcc
  <2> QED BY <1>0, <1>4, <1>25, <2>2 DEF Timely
<1>27. Invites' BY <1>0, <1>10, <1>11 DEF Invites
<1>28. Lists' BY <1>0, <1>10, <1>12, ListsStay
<1> QED BY <1>13, <1>19, <1>21, <1>22, <1>23, <1>24, <1>26, <1>27, <1>28

\* The steps of the players.
LEMMA PlayerInv ==
    ASSUME PartyInv, PlayerStep
    PROVE  PartyInv'
<1>1. PICK c \in Chars :
        \/ party_create(c) \/ party_leave(c) \/ party_send_movemap(c)
        \/ \E d \in Chars : party_invite(c, d) \/ party_removemember(c, d) \/ party_changeleader(c, d)
        \/ \E flag \in BOOLEAN : party_reply_invite(c, flag)
        \/ map_quit(c) \/ pc_setpos(c) \/ pc_autosave(c)
  BY DEF PlayerStep
<1>2. CASE party_create(c) BY <1>2, CreateInv
<1>3. CASE party_leave(c) BY <1>3, LeaveInv
<1>4. CASE party_send_movemap(c) BY <1>4, MoveInv
<1>5. ASSUME NEW d \in Chars, party_invite(c, d) PROVE PartyInv' BY <1>5, InviteInv
<1>6. ASSUME NEW d \in Chars, party_removemember(c, d) PROVE PartyInv' BY <1>6, LeaveInv
<1>7. ASSUME NEW d \in Chars, party_changeleader(c, d) PROVE PartyInv' BY <1>7, ChangeLeaderInv
<1>8. ASSUME NEW flag \in BOOLEAN, party_reply_invite(c, flag) PROVE PartyInv' BY <1>8, ReplyInv
<1>9. CASE map_quit(c)
  <2>1. Client(c) /\ Left(c) /\ Rest /\ Send(where[c], <<Pack("quit", sd[c].party_id, c)>> \o Leaving(c))
    BY <1>9, Zenon DEF map_quit
  <2>2. where[c] # 0 BY <2>1 DEF Client
  <2>3. PICK r \in Seq(UpMsg(Known)) :
               r = <<Pack("quit", sd[c].party_id, c)>> \o Leaving(c) /\ Departs(r, c, "quit")
    BY <2>2, LeavingPackets, Zenon DEF PartyInv
  <2>4. Send(where[c], r) BY <2>1, <2>3, Zenon
  <2>5. Client(c) /\ Left(c) /\ Rest /\ Departs(r, c, "quit") BY <2>1, <2>3, Zenon
  <2> QED BY <2>4, <2>5, LeftInv
<1>10. CASE pc_setpos(c)
  <2>1. Client(c) /\ Left(c) /\ Rest /\ Send(where[c], <<Pack("move", sd[c].party_id, c)>> \o Leaving(c))
    BY <1>10, Zenon DEF pc_setpos
  <2>2. where[c] # 0 BY <2>1 DEF Client
  <2>3. PICK r \in Seq(UpMsg(Known)) :
               r = <<Pack("move", sd[c].party_id, c)>> \o Leaving(c) /\ Departs(r, c, "move")
    BY <2>2, LeavingPackets, Zenon DEF PartyInv
  <2>4. Send(where[c], r) BY <2>1, <2>3, Zenon
  <2>5. Client(c) /\ Left(c) /\ Rest /\ Departs(r, c, "move") BY <2>1, <2>3, Zenon
  <2> QED BY <2>4, <2>5, LeftInv
<1>11. CASE pc_autosave(c) BY <1>11, AutosaveInv
<1> QED BY <1>1, <1>2, <1>3, <1>4, <1>5, <1>6, <1>7, <1>8, <1>9, <1>10, <1>11

-----------------------------------------------------------------------------
(***************************************************************************)
(* Answers and announcements at a map-server.                              *)
(***************************************************************************)
\* What is left to show when map-server s takes a packet.
LEMMA TakeStep ==
    ASSUME PartyInv, NEW s \in Servers, NEW type, Take(s, type), UNCHANGED <<crashed, charVars>>,
           where' \in [Chars -> Servers \cup {0}], \A c \in Chars : where'[c] \in {where[c], s},
           sd' \in [Chars -> Session(Known)],
           up' \in [Servers -> Seq(UpMsg(Known))], \A t \in Servers : t # s => up'[t] = up[t], ~Occ(up'[s], Again),
           party' \in [Servers -> [Parties -> {NoParty} \cup [Places -> CopyEntry]]],
           \A t \in Servers : t # s => party'[t] = party[t],
           \A p \in Parties : Once(party'[s][p]) /\ (p \notin Known => party'[s][p] = NoParty),
           Tokens', Joining', Invites',
           \A p \in Parties, c \in Chars : c \in In(party_db_[p]) => Listed(s, p, c)'
    PROVE  PartyInv'
<1> USE DEF PartyInv
<1>0. UNCHANGED <<party_db_, nextid, row, char_db_, auth_db>> BY DEF charVars
<1>1. /\ down' \in [Servers -> Seq(DownMsg(Known))] /\ down[s] \in Seq(DownMsg(Known)) /\ down[s] # <<>>
      /\ down'[s] = Tail(down[s]) /\ \A t \in Servers : t # s => down'[t] = down[t]
  BY TakeEffect
<1>2. s \notin crashed BY <1>1 DEF Gone
<1>3. Types' BY <1>0, <1>1, TypesStep DEF Types
<1>4. Known' = Known BY <1>0 DEF Known
<1>5. Unfounded' BY <1>0, <1>4 DEF Unfounded
<1>6. Gone'
  <2> SUFFICES ASSUME NEW t \in crashed
               PROVE  /\ up'[t] = <<>> /\ down'[t] = <<>> /\ \A d \in Chars : where'[d] # t
                      /\ \A p \in Parties : party'[t][p] = NoParty
    BY DEF Gone
  <2>1. t \in Servers /\ t # s BY <1>2 DEF Types
  <2>2. up[t] = <<>> /\ down[t] = <<>> /\ (\A d \in Chars : where[d] # t) /\ \A p \in Parties : party[t][p] = NoParty
    BY DEF Gone
  <2>3. up'[t] = up[t] /\ down'[t] = down[t] /\ party'[t] = party[t] BY <1>1, <2>1
  <2>4. \A d \in Chars : where'[d] # t BY <2>1, <2>2
  <2> QED BY <2>2, <2>3, <2>4
<1>7. Again' = Again /\ Twice' = Twice BY <1>0 DEF Again, Twice
<1>8. Timely'
  <2>1. Occ(down[s], Twice) <=> Head(down[s]) \in Twice \/ Occ(Tail(down[s]), Twice) BY <1>1, TailKeeps
  <2> QED BY <1>1, <1>7, <2>1 DEF Timely
<1>9. OnceEach' BY <1>0 DEF OnceEach
<1>10. Lists'
  <2> SUFFICES ASSUME NEW t \in Servers, t # s, NEW p \in Parties, NEW c \in Chars, c \in In(party_db_[p])
               PROVE  Listed(t, p, c)'
    BY <1>0 DEF Lists
  <2>1. Listed(t, p, c) BY DEF Lists
  <2>2. Alike(party[t][p], party'[t][p]) BY DEF Alike
  <2>3. where'[c] = t => where[c] = t OBVIOUS
  <2> QED BY <1>1, <2>1, <2>2, <2>3, ListedStay
<1> QED BY <1>3, <1>5, <1>6, <1>8, <1>9, <1>10

\* Copies of other map-servers and parties stay, the one the packet is about follows it.
HandedOn(s) ==
    /\ party' \in [Servers -> [Parties -> {NoParty} \cup [Places -> CopyEntry]]]
    /\ \A t \in Servers : t # s => party'[t] = party[t]
    /\ \A p \in Parties : Once(party'[s][p]) /\ (p \notin Known => party'[s][p] = NoParty)
    /\ \A p \in Parties, c \in Chars : c \in In(party_db_[p]) =>
           /\ Head(down[s]) \in Puts(p, c) => ~Lacks(s, p, c)'
           /\ Lacks(s, p, c)' => Lacks(s, p, c) \/ Head(down[s]) \in Drops(p, c)

\* Then every member is listed.
LEMMA FollowsListed ==
    ASSUME PartyInv, NEW s \in Servers, NEW type, Take(s, type), HandedOn(s),
           NEW p \in Parties, NEW c \in Chars, c \in In(party_db_[p]), where'[c] = s => where[c] = s
    PROVE  Listed(s, p, c)'
<1>1. down[s] \in Seq(DownMsg(Known)) /\ down[s] # <<>> /\ down'[s] = Tail(down[s]) BY TakeEffect DEF PartyInv
<1>2. Listed(s, p, c) BY DEF PartyInv, Lists
<1>3. Head(down[s]) \in Puts(p, c) => ~Lacks(s, p, c)' BY DEF HandedOn
<1>4. Lacks(s, p, c)' => Lacks(s, p, c) \/ Head(down[s]) \in Drops(p, c) BY DEF HandedOn
<1> QED BY <1>1, <1>2, <1>3, <1>4, ListedTail

\* Taking a packet is calm for everybody.
LEMMA TakeCalm ==
    ASSUME Types, NEW s \in Servers, NEW type, Take(s, type), NEW t \in Servers, NEW A
    PROVE  Calm(down[t], down'[t], DownMsg(Parties), A)
<1>1. down[s] # <<>> /\ down'[s] = Tail(down[s]) /\ \A u \in Servers : u # s => down'[u] = down[u]
  BY TakeEffect
<1>2. down[t] \in Seq(DownMsg(Parties)) BY Queues
<1> QED BY <1>1, <1>2, CalmIs

\* Only s sends, and nothing that concerns who is where or in which party.
CalmSend(s) == CalmUp /\ \A t \in Servers : t # s => up'[t] = up[t]

\* Nobody's waiting changes.
LEMMA CalmTake ==
    ASSUME PartyInv, NEW s \in Servers, NEW type, Take(s, type), UNCHANGED <<where, crashed, charVars>>,
           CalmSend(s), CalmSd, HandedOn(s)
    PROVE  PartyInv'
<1> USE DEF PartyInv
<1>0. UNCHANGED <<party_db_, nextid, row, char_db_, auth_db>> BY DEF charVars
<1>1. Invites' BY <1>0, CalmInvites
<1>2. Tokens' /\ Joining' BY <1>0, TakeCalm, CalmSessions DEF CalmSd, CalmSend
<1>3. ~Occ(up'[s], Again) BY CalmUpFor DEF Timely, CalmSend
<1>4. \A p \in Parties, c \in Chars : c \in In(party_db_[p]) => Listed(s, p, c)' BY FollowsListed
<1>5. where' \in [Chars -> Servers \cup {0}] /\ \A c \in Chars : where'[c] \in {where[c], s} BY DEF Types
<1>6. /\ sd' \in [Chars -> Session(Known)] /\ up' \in [Servers -> Seq(UpMsg(Known))]
      /\ \A t \in Servers : t # s => up'[t] = up[t]
  BY DEF CalmSd, SameWaits, CalmSend, CalmUp
<1> QED BY <1>1, <1>2, <1>3, <1>4, <1>5, <1>6, TakeStep DEF HandedOn

\* Who sends is there.
LEMMA SendTake ==
    ASSUME PartyInv, NEW s \in Servers, NEW type, Take(s, type), NEW r \in Seq(UpMsg(Known)), Send(s, r),
           \A i \in DOMAIN r : r[i].type \notin {"addmember", "quit", "move", "registry"}
    PROVE  CalmSend(s)
<1>1. s \notin crashed BY TakeEffect DEF PartyInv, Gone
<1>2. CalmUp BY <1>1, SendCalm DEF PartyInv
<1>3. \A t \in Servers : t # s => up'[t] = up[t] BY SendEffect DEF PartyInv
<1> QED BY <1>2, <1>3 DEF CalmSend

\* Nothing, or a request that a character leaves.
LEMMA SendLeave ==
    ASSUME PartyInv, NEW s \in Servers, NEW type, Take(s, type), NEW p, NEW c, NEW b,
           b \in BOOLEAN, b => p \in Known /\ c \in Chars,
           Send(s, IF b THEN <<Pack("leave", p, c)>> ELSE <<>>)
    PROVE  CalmSend(s)
<1>1. PICK m : m = Pack("leave", p, c) OBVIOUS
<1>2. m.type = "leave" BY <1>1 DEF Pack
<1>3. b => m \in UpMsg(Known) BY <1>1, UpParty
<1> DEFINE r == IF b THEN <<m>> ELSE <<>>
<1>4. Send(s, r) BY <1>1, Zenon
<1>5. r \in Seq(UpMsg(Known)) /\ \A i \in DOMAIN r : r[i] = m
  <2>1. CASE b
    <3>1. <<m>> \in Seq(UpMsg(Known)) /\ \A i \in DOMAIN <<m>> : <<m>>[i] = m BY <1>3, <2>1
    <3> QED BY <2>1, <3>1
  <2>2. CASE ~b BY <2>2
  <2> QED BY <2>1, <2>2
<1> HIDE DEF r
<1> QED BY <1>2, <1>4, <1>5, SendTake

\* The copies stay, and the packet is no list and drops nobody.
LEMMA FollowsSame ==
    ASSUME PartyInv, NEW s \in Servers, Head(down[s]).type # "info",
           party' \in [Servers -> [Parties -> {NoParty} \cup [Places -> CopyEntry]]],
           \A t \in Servers : t # s => party'[t] = party[t],
           \A p \in Parties : Alike(party[s][p], party'[s][p])
    PROVE  HandedOn(s)
<1>1. ASSUME NEW p \in Parties PROVE Once(party'[s][p]) /\ (p \notin Known => party'[s][p] = NoParty)
  BY AlikeFacts DEF PartyInv, OnceEach, Unfounded, Alike
<1>2. ASSUME NEW p \in Parties, NEW c \in Chars PROVE Lacks(s, p, c)' => Lacks(s, p, c)
  BY AlikeFacts DEF Lacks, Alike
<1>3. \A p, c : Head(down[s]) \notin Puts(p, c) BY DEF Puts
<1> QED BY <1>1, <1>2, <1>3 DEF HandedOn

\* What the head of the queue is.
LEMMA HeadOf ==
    ASSUME Types, NEW s \in Servers, NEW type, Take(s, type)
    PROVE  /\ Head(down[s]) \in DownMsg(Known) /\ Head(down[s]) \in DownMsg(Parties) /\ Head(down[s]).type = type
           /\ Head(down[s]).party \in Known \cup {0} /\ Head(down[s]).flag \in BOOLEAN
           /\ type \notin {"info", "broken"} => Head(down[s]).char \in Chars
           /\ type \notin {"created", "auth", "registry"} => Head(down[s]).party \in Known /\ Head(down[s]).party \in Parties
           /\ type = "created" /\ ~Head(down[s]).flag => Head(down[s]).party \in Known
           /\ type = "info" => Head(down[s]).member \in [Places -> InfoEntry]
<1>1. Head(down[s]) \in DownMsg(Known) /\ Head(down[s]).type = type BY TakeEffect
<1>2. Head(down[s]) \in DownMsg(Parties) BY <1>1, Queues
<1>3. Known \subseteq Parties BY DEF Known
<1> DEFINE m == Head(down[s])
<1> HIDE DEF m
<1>4. m \in DownMsg(Known) /\ m.type = type BY <1>1 DEF m
<1>5. /\ m.party \in Known \cup {0} /\ m.flag \in BOOLEAN
      /\ type \notin {"info", "broken"} => m.char \in Chars
      /\ type \notin {"created", "auth", "registry"} => m.party \in Known
      /\ type = "created" /\ ~m.flag => m.party \in Known
      /\ type = "info" => m.member \in [Places -> InfoEntry]
  BY <1>4 DEF DownMsg, Packet
<1> QED BY <1>1, <1>2, <1>3, <1>5 DEF m

\* The founder hears of its party.
LEMMA CreatedInv ==
    ASSUME PartyInv, NEW s \in Servers, party_created(s)
    PROVE  PartyInv'
<1> USE DEF PartyInv
<1> DEFINE p == Head(down[s]).party
           c == Head(down[s]).char
           fail == Head(down[s]).flag
<1>1. /\ Take(s, "created") /\ UNCHANGED <<charVars, where, crashed>> /\ UNCHANGED party
      /\ \/ Send(s, IF fail THEN <<>> ELSE <<Pack("leave", p, c)>>) /\ UNCHANGED sd
         \/ sd' = [sd EXCEPT ![c].party_creating = FALSE, ![c].party_id = IF fail THEN @ ELSE p] /\ UNCHANGED up
  BY Zenon DEF party_created, Handled
<1>2. c \in Chars /\ fail \in BOOLEAN /\ (~fail => p \in Known) /\ Head(down[s]).type = "created" BY <1>1, HeadOf
<1> HIDE DEF p, c, fail
<1>3. HandedOn(s) BY <1>1, <1>2, PartyStays, FollowsSame
<1>4. CASE Send(s, IF fail THEN <<>> ELSE <<Pack("leave", p, c)>>) /\ UNCHANGED sd
  <2> DEFINE b == ~fail
  <2>1. Send(s, IF b THEN <<Pack("leave", p, c)>> ELSE <<>>) BY <1>4
  <2>2. b \in BOOLEAN /\ (b => p \in Known /\ c \in Chars) BY <1>2
  <2> HIDE DEF b
  <2>3. CalmSend(s) BY <1>1, <2>1, <2>2, SendLeave
  <2> QED BY <1>1, <1>3, <1>4, <2>3, SdStays, CalmTake
<1>5. CASE sd' = [sd EXCEPT ![c].party_creating = FALSE, ![c].party_id = IF fail THEN @ ELSE p] /\ UNCHANGED up
  <2>1. sd \in [Chars -> Session(Known)] BY DEF Types
  <2>2. CalmSd BY <1>2, <1>5, <2>1 DEF Session, CalmSd, SameWaits
  <2>3. CalmSend(s) BY <1>5, SendNone DEF CalmSend
  <2> QED BY <1>1, <1>3, <2>2, <2>3, CalmTake
<1> QED BY <1>1, <1>4, <1>5

\* One copy changes.
LEMMA CopySet ==
    ASSUME Types, NEW s \in Servers, NEW p \in Parties, NEW new \in {NoParty} \cup [Places -> CopyEntry],
           party' = [party EXCEPT ![s][p] = new]
    PROVE  /\ party' \in [Servers -> [Parties -> {NoParty} \cup [Places -> CopyEntry]]]
           /\ \A t \in Servers : t # s => party'[t] = party[t]
           /\ \A q \in Parties : party'[s][q] = IF q = p THEN new ELSE party[s][q]
BY DEF Types

\* One entry of a copy changes, the character in it stays.
LEMMA EntryAlike ==
    ASSUME Types, NEW s \in Servers, NEW p \in Parties, NEW copy, copy = party[s][p], NEW i \in DOMAIN copy,
           NEW e \in CopyEntry, e.char = copy[i].char,
           NEW new, new = [copy EXCEPT ![i] = e], party' = [party EXCEPT ![s][p] = new]
    PROVE  /\ party' \in [Servers -> [Parties -> {NoParty} \cup [Places -> CopyEntry]]]
           /\ \A t \in Servers : t # s => party'[t] = party[t]
           /\ \A q \in Parties : Alike(party[s][q], party'[s][q])
<1>1. copy \in {NoParty} \cup [Places -> CopyEntry] BY DEF Types
<1>2. new \in {NoParty} \cup [Places -> CopyEntry] /\ new # NoParty /\ copy # NoParty /\ DOMAIN new = DOMAIN copy
  BY <1>1, SlotChange
<1>3. \A k \in DOMAIN copy : new[k].char = copy[k].char OBVIOUS
<1>4. Alike(copy, new) BY <1>2, <1>3 DEF Alike
<1>6. /\ party' \in [Servers -> [Parties -> {NoParty} \cup [Places -> CopyEntry]]]
      /\ \A t \in Servers : t # s => party'[t] = party[t]
      /\ \A q \in Parties : party'[s][q] = IF q = p THEN new ELSE party[s][q]
  BY <1>2, CopySet
<1>7. \A q \in Parties : Alike(party[s][q], party'[s][q]) BY <1>4, <1>6 DEF Alike
<1> QED BY <1>6, <1>7

\* Only the party of some sessions changes.
Tunes(K, f, g) ==
    /\ f \in [Chars -> Session(K)] /\ g \in [Chars -> Session(K)]
    /\ \A d \in Chars : g[d].party_joining = f[d].party_joining /\ g[d].party_invite = f[d].party_invite

\* Sessions that take the party of the list.
LEMMA CheckedTunes ==
    ASSUME NEW K, NEW s, NEW p \in K, NEW f, NEW g, Tunes(K, f, g), NEW C
    PROVE  Tunes(K, f, Checked(s, p, g, C))
<1> DEFINE new(d) == [g[d] EXCEPT !.party_id = p]
           h == Checked(s, p, g, C)
<1>0. g \in [Chars -> Session(K)] BY DEF Tunes
<1>1. ASSUME NEW d \in Chars
      PROVE  /\ g[d] \in Session(K) /\ new(d) \in Session(K)
             /\ new(d).party_joining = g[d].party_joining /\ new(d).party_invite = g[d].party_invite
  BY <1>0 DEF Session
<1>2. ASSUME NEW d \in Chars PROVE h[d] \in {g[d], new(d)}
  BY DEF Checked
<1>3. h = [d \in Chars |-> h[d]] BY DEF Checked
<1> HIDE DEF new, h
<1>4. h \in [Chars -> Session(K)] BY <1>1, <1>2, <1>3
<1>5. Tunes(K, f, h) BY <1>1, <1>2, <1>4 DEF Tunes
<1> QED BY <1>5 DEF h

\* Nobody waits for another answer then.
LEMMA TunesCalm ==
    ASSUME Types, Tunes(Known, sd, sd')
    PROVE  CalmSd
BY DEF Tunes, CalmSd, SameWaits

\* A member is online, or not, or on another map.
LEMMA MovedInv ==
    ASSUME PartyInv, NEW s \in Servers, party_recv_movemap(s)
    PROVE  PartyInv'
<1> USE DEF PartyInv
<1> DEFINE p == Head(down[s]).party
           c == Head(down[s]).char
           i == At(party[s][p], c)
           joined == Checked(s, p, sd, {c})
           on == c \in Here(s) /\ joined[c].party_id = p
           b == c \in Here(s) /\ joined[c].party_id # p
<1>1. /\ Take(s, "membermoved") /\ UNCHANGED <<charVars, where, crashed>>
      /\ \/ UNCHANGED <<party, sd, up>>
         \/ /\ i # {} /\ party' = [party EXCEPT ![s][p][Min(i)].sd = on] /\ sd' = joined
            /\ Send(s, IF b THEN <<Pack("leave", p, c)>> ELSE <<>>)
  BY Zenon DEF party_recv_movemap, Handled
<1>t. Take(s, "membermoved") BY <1>1
<1>2. c \in Chars /\ p \in Known /\ p \in Parties /\ Head(down[s]).type = "membermoved" BY <1>t, HeadOf
<1>3. CASE UNCHANGED <<party, sd, up>>
  <2>1. HandedOn(s) BY <1>2, <1>3, PartyStays, FollowsSame
  <2>2. CalmSend(s) BY <1>3, SendNone DEF CalmSend
  <2> QED BY <1>1, <1>3, <2>1, <2>2, SdStays, CalmTake
<1>4. CASE /\ i # {} /\ party' = [party EXCEPT ![s][p][Min(i)].sd = on] /\ sd' = joined
           /\ Send(s, IF b THEN <<Pack("leave", p, c)>> ELSE <<>>)
  <2>1. on \in BOOLEAN /\ b \in BOOLEAN OBVIOUS
  <2>2. sd \in [Chars -> Session(Known)] BY DEF Types
  <2>3. CalmSd
    <3>1. Tunes(Known, sd, sd) BY <2>2 DEF Tunes
    <3>2. Tunes(Known, sd, joined) BY <1>2, <3>1, CheckedTunes
    <3> QED BY <1>4, <3>2, TunesCalm
  <2> HIDE DEF on, b, joined
  <2>4. CalmSend(s) BY <1>1, <1>2, <1>4, <2>1, SendLeave
  <2> DEFINE j == Min(i)
             copy == party[s][p]
             e == [copy[j] EXCEPT !.sd = on]
  <2>5. copy \in {NoParty} \cup [Places -> CopyEntry] BY <1>2 DEF Types
  <2>6. j \in DOMAIN copy
    <3>1. DOMAIN copy \subseteq Places BY <2>5, SlotFacts
    <3>2. i \in SUBSET At(copy, c) /\ i # {} BY <1>4
    <3> HIDE DEF i, copy, c
    <3> QED BY <3>1, <3>2, MinAt
  <2>7. party' = [party EXCEPT ![s][p] = [copy EXCEPT ![j] = e]] BY <1>4, Zenon
  <2>8. copy[j] \in CopyEntry BY <2>5, <2>6, SlotFacts
  <2> HIDE DEF j
  <2>9. e \in CopyEntry /\ e.char = copy[j].char BY <2>1, <2>8 DEF CopyEntry
  <2> HIDE DEF e
  <2>10. /\ party' \in [Servers -> [Parties -> {NoParty} \cup [Places -> CopyEntry]]]
         /\ \A t \in Servers : t # s => party'[t] = party[t]
         /\ \A q \in Parties : Alike(party[s][q], party'[s][q])
    <3> DEFINE new == [copy EXCEPT ![j] = e]
    <3>1. party' = [party EXCEPT ![s][p] = new] /\ copy = party[s][p] /\ new = [copy EXCEPT ![j] = e]
          /\ j \in DOMAIN copy /\ e \in CopyEntry /\ e.char = copy[j].char
      BY <2>6, <2>7, <2>9
    <3>2. p \in Parties BY <1>2
    <3> HIDE DEF new, copy, p
    <3> QED BY <3>1, <3>2, EntryAlike
  <2>11. HandedOn(s) BY <1>2, <2>10, FollowsSame
  <2> QED BY <1>1, <2>3, <2>4, <2>11, CalmTake
<1> QED BY <1>1, <1>3, <1>4

\* A copy is removed.
LEMMA FollowsNone ==
    ASSUME PartyInv, NEW s \in Servers, Head(down[s]).type # "info", NEW p \in Parties,
           party' = [party EXCEPT ![s][p] = NoParty]
    PROVE  HandedOn(s)
<1> USE DEF PartyInv
<1>1. /\ party' \in [Servers -> [Parties -> {NoParty} \cup [Places -> CopyEntry]]]
      /\ \A t \in Servers : t # s => party'[t] = party[t]
      /\ \A q \in Parties : party'[s][q] = IF q = p THEN NoParty ELSE party[s][q]
  BY DEF Types
<1>2. Once(NoParty) BY DEF Once, NoParty
<1>3. ASSUME NEW q \in Parties PROVE Once(party'[s][q]) /\ (q \notin Known => party'[s][q] = NoParty)
  BY <1>1, <1>2 DEF OnceEach, Unfounded
<1>4. ASSUME NEW q \in Parties, NEW c \in Chars PROVE Lacks(s, q, c)' => Lacks(s, q, c) BY <1>1 DEF Lacks
<1>5. \A q, c : Head(down[s]) \notin Puts(q, c) BY DEF Puts
<1> QED BY <1>1, <1>3, <1>4, <1>5 DEF HandedOn

\* Sessions lose their party.
LEMMA SomeLeave ==
    ASSUME Types, NEW X, sd' = [d \in Chars |-> IF d \in X THEN [sd[d] EXCEPT !.party_id = 0] ELSE sd[d]]
    PROVE  CalmSd
<1>1. \A d \in Chars : sd[d] \in Session(Known) BY DEF Types
<1>2. \A d \in Chars : LET e == [sd[d] EXCEPT !.party_id = 0]
                       IN  /\ e \in Session(Known) /\ e.party_joining = sd[d].party_joining
                           /\ e.party_invite = sd[d].party_invite
  BY <1>1 DEF Session
<1> QED BY <1>1, <1>2 DEF CalmSd, SameWaits

\* The copy goes.
LEMMA BrokenInv ==
    ASSUME PartyInv, NEW s \in Servers, party_broken(s) \/ party_recv_noinfo(s)
    PROVE  PartyInv'
<1> USE DEF PartyInv
<1> DEFINE p == Head(down[s]).party
           c == Head(down[s]).char
           Pointed(d) == \E i \in At(party[s][p], d) : party[s][p][i].sd
           Asks(d) == d = c /\ d \in Here(s) /\ sd[d].party_id = p
<1>1. PICK type \in {"broken", "noinfo"}, X \in SUBSET Chars :
         /\ Take(s, type) /\ UNCHANGED <<charVars, where, crashed>> /\ UNCHANGED up
         /\ party' = [party EXCEPT ![s][p] = NoParty]
         /\ sd' = [d \in Chars |-> IF d \in X THEN [sd[d] EXCEPT !.party_id = 0] ELSE sd[d]]
  <2>1. CASE party_broken(s)
    <3> DEFINE X == {d \in Chars : Pointed(d)}
    <3>1. /\ Take(s, "broken") /\ UNCHANGED <<charVars, where, crashed>> /\ UNCHANGED up
          /\ party' = [party EXCEPT ![s][p] = NoParty]
          /\ sd' = [d \in Chars |-> IF Pointed(d) THEN [sd[d] EXCEPT !.party_id = 0] ELSE sd[d]]
      BY <2>1, Zenon DEF party_broken, Broken, Handled
    <3>2. sd' = [d \in Chars |-> IF d \in X THEN [sd[d] EXCEPT !.party_id = 0] ELSE sd[d]] BY <3>1
    <3>3. X \in SUBSET Chars OBVIOUS
    <3> HIDE DEF X, Pointed
    <3> QED BY <3>1, <3>2, <3>3
  <2>2. CASE party_recv_noinfo(s)
    <3> DEFINE X == {d \in Chars : Pointed(d) \/ Asks(d)}
    <3>1. /\ Take(s, "noinfo") /\ UNCHANGED <<charVars, where, crashed>> /\ UNCHANGED up
          /\ party' = [party EXCEPT ![s][p] = NoParty]
          /\ sd' = [d \in Chars |-> IF Pointed(d) \/ Asks(d) THEN [sd[d] EXCEPT !.party_id = 0] ELSE sd[d]]
      BY <2>2, Zenon DEF party_recv_noinfo, Handled
    <3> HIDE DEF Pointed, Asks
    <3>2. sd' = [d \in Chars |-> IF d \in X THEN [sd[d] EXCEPT !.party_id = 0] ELSE sd[d]] BY <3>1
    <3>3. X \in SUBSET Chars OBVIOUS
    <3> HIDE DEF X
    <3> QED BY <3>1, <3>2, <3>3
  <2> QED BY <2>1, <2>2
<1>2. p \in Parties /\ Head(down[s]).type = type BY <1>1, HeadOf
<1>3. HandedOn(s) BY <1>1, <1>2, FollowsNone
<1>4. CalmSd BY <1>1, SomeLeave
<1>5. CalmSend(s) BY <1>1, SendNone DEF CalmSend
<1> QED BY <1>1, <1>3, <1>4, <1>5, CalmTake

\* The slot of a member becomes free.
LEMMA FreeSlot ==
    ASSUME NEW slots, Once(slots), NEW c, c # 0, NEW i, i \in DOMAIN slots, slots[i].char = c,
           NEW new, DOMAIN new = DOMAIN slots, new[i].char = 0, \A k \in DOMAIN slots : k # i => new[k] = slots[k]
    PROVE  Once(new) /\ In(new) = In(slots) \ {c}
<1>5. Once(new) BY DEF Once
<1>6. \A k \in DOMAIN slots : k # i => slots[k].char # c BY DEF Once
<1>7. In(new) = In(slots) \ {c} BY <1>6 DEF In
<1> QED BY <1>5, <1>7

\* A member leaves the copy.
LEMMA WithdrawInv ==
    ASSUME PartyInv, NEW s \in Servers, party_member_withdraw(s), ~Crash(s)
    PROVE  PartyInv'
<1> USE DEF PartyInv
<1> DEFINE p == Head(down[s]).party
           c == Head(down[s]).char
           i == At(party[s][p], c)
           copy == party[s][p]
           new == [copy EXCEPT ![Min(i)] = BlankCopy]
<1>1. /\ Take(s, "withdraw") /\ Handled /\ UNCHANGED up
      /\ party' = IF i = {} THEN party ELSE [party EXCEPT ![s][p] = new]
      /\ sd' = sd \/ sd' = [sd EXCEPT ![c].party_id = 0]
  BY Zenon DEF party_member_withdraw
<1>t. Take(s, "withdraw") BY <1>1
<1>2. c \in Chars /\ p \in Known /\ p \in Parties /\ Head(down[s]).type = "withdraw" /\ Head(down[s]) \in DownMsg(Parties)
  BY <1>t, HeadOf
<1>3. UNCHANGED <<charVars, where, crashed>> BY <1>1 DEF Handled
<1>4. CalmSend(s) BY <1>1, SendNone DEF CalmSend
<1>5. CalmSd
  <2>1. sd \in [Chars -> Session(Known)] BY DEF Types
  <2>2. CASE sd' = sd BY <2>2, SdStays
  <2>3. CASE sd' = [sd EXCEPT ![c].party_id = 0] BY <1>2, <2>1, <2>3 DEF Session, CalmSd, SameWaits
  <2> QED BY <1>1, <2>2, <2>3
<1>6. CASE i = {}
  <2>1. HandedOn(s) BY <1>1, <1>2, <1>6, PartyStays, FollowsSame
  <2> QED BY <1>t, <1>3, <1>4, <1>5, <2>1, CalmTake
<1>7. CASE i # {}
  <2>1. copy \in {NoParty} \cup [Places -> CopyEntry] /\ Once(copy) BY <1>2 DEF Types, OnceEach
  <2>2. BlankCopy \in CopyEntry /\ BlankCopy.char = 0 BY DEF BlankCopy, CopyEntry
  <2>3. c # 0 BY <1>2, PartyAssumption
  <2>4. new \in [Places -> CopyEntry] /\ new # NoParty /\ copy # NoParty /\ Once(new) /\ In(new) = In(copy) \ {c}
    <3> DEFINE j == Min(At(copy, c))
    <3>1. new = [copy EXCEPT ![j] = BlankCopy] BY <1>7
    <3>2. j \in DOMAIN copy /\ copy[j].char = c
      <4>1. DOMAIN copy \subseteq Places BY <2>1, SlotFacts
      <4>2. At(copy, c) # {} BY <1>7
      <4> HIDE DEF copy, c
      <4> QED BY <4>1, <4>2, MinAt
    <3> HIDE DEF new, copy, c, j
    <3>3. new \in {NoParty} \cup [Places -> CopyEntry] /\ new # NoParty /\ copy # NoParty /\ DOMAIN new = DOMAIN copy
      BY <2>1, <2>2, <3>1, <3>2, SlotChange
    <3>4. new[j].char = 0 /\ \A k \in DOMAIN copy : k # j => new[k] = copy[k] BY <2>2, <3>1, <3>2
    <3>5. Once(new) /\ In(new) = In(copy) \ {c} BY <2>1, <2>3, <3>2, <3>3, <3>4, FreeSlot
    <3> QED BY <3>3, <3>5
  <2>5. party' = [party EXCEPT ![s][p] = new] BY <1>1, <1>7
  <2> HIDE DEF new
  <2>6. /\ party' \in [Servers -> [Parties -> {NoParty} \cup [Places -> CopyEntry]]]
        /\ \A t \in Servers : t # s => party'[t] = party[t]
        /\ \A q \in Parties : party'[s][q] = IF q = p THEN new ELSE party[s][q]
    BY <1>2, <2>4, <2>5, CopySet
  <2>7. ASSUME NEW q \in Parties PROVE Once(party'[s][q]) /\ (q \notin Known => party'[s][q] = NoParty)
    BY <1>2, <2>4, <2>6 DEF OnceEach, Unfounded
  <2>8. \A q, d : Head(down[s]) \notin Puts(q, d) BY <1>2 DEF Puts
  <2>9. Head(down[s]) \in Drops(p, c) BY <1>2 DEF Drops
  <2>10. ASSUME NEW q \in Parties, NEW d \in Chars
         PROVE  Lacks(s, q, d)' => Lacks(s, q, d) \/ Head(down[s]) \in Drops(q, d)
    <3>1. Lacks(s, q, d)' <=> (party'[s][q] # NoParty /\ d \notin In(party'[s][q])) BY DEF Lacks
    <3> QED BY <2>4, <2>6, <2>9, <3>1 DEF Lacks
  <2>11. HandedOn(s) BY <2>6, <2>7, <2>8, <2>10 DEF HandedOn
  <2> QED BY <1>t, <1>3, <1>4, <1>5, <2>11, CalmTake
<1> QED BY <1>6, <1>7

\* The copy is made anew.
LEMMA InfoInv ==
    ASSUME PartyInv, NEW s \in Servers, party_recv_info(s)
    PROVE  PartyInv'
<1> USE DEF PartyInv
<1> DEFINE p == Head(down[s]).party
           new == Head(down[s]).member
           asked == Head(down[s]).char
           old == party[s][p]
           removed == {old[i].char : i \in {i \in DOMAIN old : old[i].sd}} \ In(new)
           parted == [c \in Chars |-> IF c \in removed /\ sd[c].party_id = p
                                      THEN [sd[c] EXCEPT !.party_id = 0] ELSE sd[c]]
           joined == Checked(s, p, parted, In(new))
           strangers == Strangers(s, p, joined, new)
           On(c) == c \in Here(s) /\ joined[c].party_id = p
           copy == [i \in DOMAIN new |-> [char |-> new[i].char, leader |-> new[i].leader, sd |-> On(new[i].char)]]
           r == [i \in DOMAIN strangers |-> Pack("leave", p, strangers[i].char)]
<1>1. /\ Take(s, "info") /\ UNCHANGED <<charVars, where, crashed>>
      /\ party' = [party EXCEPT ![s][p] = copy]
      /\ sd' = IF asked \in Here(s) \ In(new) /\ joined[asked].party_id = p
               THEN [joined EXCEPT ![asked].party_id = 0] ELSE joined
      /\ Send(s, r)
  BY Zenon DEF party_recv_info, Handled
<1>t. Take(s, "info") BY <1>1
<1>2. /\ p \in Known /\ p \in Parties /\ Head(down[s]).type = "info" /\ Head(down[s]) \in DownMsg(Parties)
      /\ new \in [Places -> InfoEntry]
  BY <1>t, HeadOf
<1>3. Once(new)
  <2>1. Occ(down[s], Twice) <=> Head(down[s]) \in Twice \/ Occ(Tail(down[s]), Twice)
    <3>1. down[s] \in Seq(DownMsg(Known)) /\ down[s] # <<>> BY <1>t, TakeEffect
    <3> QED BY <3>1, TailKeeps
  <2>2. ~Occ(down[s], Twice) BY DEF Timely
  <2> QED BY <1>2, <2>1, <2>2 DEF Twice
<1> HIDE DEF p, new, asked, old
<1>4. Tunes(Known, sd, parted)
  <2>1. \A d \in Chars : sd[d] \in Session(Known) BY DEF Types
  <2>2. \A d \in Chars : LET e == [sd[d] EXCEPT !.party_id = 0]
                         IN  /\ e \in Session(Known) /\ e.party_joining = sd[d].party_joining
                             /\ e.party_invite = sd[d].party_invite
    BY <2>1 DEF Session
  <2>3. sd \in [Chars -> Session(Known)] BY DEF Types
  <2> HIDE DEF removed
  <2> QED BY <2>1, <2>2, <2>3 DEF Tunes
<1> HIDE DEF parted
<1>5. Tunes(Known, sd, joined) BY <1>2, <1>4, CheckedTunes
<1>6. CASE strangers \in Seq(InfoEntry) /\ \A k \in DOMAIN strangers : strangers[k].char \in Chars
  <2> HIDE DEF strangers
  <2>1. r \in Seq(UpMsg(Known)) /\ \A k \in DOMAIN r : r[k].type = "leave"
    <3>1. \A k \in DOMAIN strangers : Pack("leave", p, strangers[k].char) \in UpMsg(Known) BY <1>2, <1>6, UpParty
    <3>2. \A d : Pack("leave", p, d).type = "leave" BY DEF Pack
    <3>3. DOMAIN strangers = 1..Len(strangers) /\ Len(strangers) \in Nat BY <1>6
    <3> QED BY <3>1, <3>2, <3>3
  <2> HIDE DEF r
  <2>2. CalmSend(s) BY <1>1, <1>t, <2>1, SendTake
  <2> HIDE DEF joined
  <2>3. CalmSd
    <3>1. CASE sd' = joined BY <1>5, <3>1, TunesCalm
    <3>2. CASE asked \in Here(s) /\ sd' = [joined EXCEPT ![asked].party_id = 0]
      <4>1. asked \in Chars BY <3>2 DEF Here
      <4>2. Tunes(Known, sd, sd') BY <1>5, <3>2, <4>1 DEF Tunes, Session
      <4> QED BY <4>2, TunesCalm
    <3> QED BY <1>1, <3>1, <3>2
  <2>4. copy \in [Places -> CopyEntry] /\ DOMAIN new = Places /\ \A k \in Places : copy[k].char = new[k].char
    <3>1. \A c : On(c) \in BOOLEAN OBVIOUS
    <3> HIDE DEF On
    <3> QED BY <1>2, <3>1 DEF CopyEntry, InfoEntry
  <2>5. Once(copy) /\ In(copy) = In(new) BY <1>2, <1>3, <2>4 DEF Once, In
  <2>6. party' = [party EXCEPT ![s][p] = copy] BY <1>1
  <2> HIDE DEF copy
  <2>7. /\ party' \in [Servers -> [Parties -> {NoParty} \cup [Places -> CopyEntry]]]
        /\ \A t \in Servers : t # s => party'[t] = party[t]
        /\ \A q \in Parties : party'[s][q] = IF q = p THEN copy ELSE party[s][q]
    BY <1>2, <2>4, <2>6, CopySet
  <2>8. ASSUME NEW q \in Parties PROVE Once(party'[s][q]) /\ (q \notin Known => party'[s][q] = NoParty)
    BY <1>2, <2>5, <2>7 DEF OnceEach, Unfounded
  <2>9. ASSUME NEW q \in Parties, NEW d \in Chars
        PROVE  /\ Head(down[s]) \in Puts(q, d) => ~Lacks(s, q, d)'
               /\ Lacks(s, q, d)' => Lacks(s, q, d) \/ Head(down[s]) \in Drops(q, d)
    <3>1. Lacks(s, q, d)' <=> (party'[s][q] # NoParty /\ d \notin In(party'[s][q])) BY DEF Lacks
    <3>2. Head(down[s]) \in Puts(q, d) => q = p /\ d \in In(new) BY DEF Puts, p, new
    <3>3. q = p /\ d \notin In(new) => Head(down[s]) \in Drops(q, d) BY <1>2 DEF Drops, p, new
    <3> QED BY <2>5, <2>7, <3>1, <3>2, <3>3 DEF Lacks
  <2>10. HandedOn(s) BY <2>7, <2>8, <2>9 DEF HandedOn
  <2> QED BY <1>1, <2>2, <2>3, <2>10, CalmTake
<1>7. strangers \in Seq(InfoEntry) /\ \A k \in DOMAIN strangers : strangers[k].char \in Chars
  <2> DEFINE X == {m \in Range(new) : m.char \in Here(s) /\ joined[m.char].party_id # p}
  <2>1. strangers = Among(new, X) BY DEF Strangers
  <2>2. \A m \in X : m.char \in Chars BY DEF Here
  <2>3. new \in Seq(InfoEntry) BY <1>2, SlotFacts
  <2> HIDE DEF X
  <2> QED BY <2>1, <2>2, <2>3, AmongFacts
<1> QED BY <1>6, <1>7

\* The answer to a request: there is one, and nothing else waits for it.
LEMMA MemberAddedInv ==
    ASSUME PartyInv, NEW s \in Servers, party_member_added(s)
    PROVE  PartyInv'
<1> USE DEF PartyInv
<1> DEFINE p == Head(down[s]).party
           d0 == Head(down[s]).char
           fail == Head(down[s]).flag
           expected == d0 \in Here(s) /\ sd[d0].party_joining
           known == party[s][p] # NoParty
           new == [sd EXCEPT ![d0].party_joining = FALSE, ![d0].party_invite = 0,
                             ![d0].party_id = IF known /\ ~fail THEN p ELSE @]
           b == (~expected /\ ~fail) \/ (expected /\ ~known)
<1>1. /\ Take(s, "memberadded") /\ UNCHANGED <<charVars, where, crashed>> /\ UNCHANGED party
      /\ Send(s, IF b THEN <<Pack("leave", p, d0)>> ELSE <<>>)
      /\ \/ ~expected /\ UNCHANGED sd
         \/ expected /\ sd' = new
  BY Zenon DEF party_member_added, Handled
<1>t. Take(s, "memberadded") BY <1>1
<1>2. /\ d0 \in Chars /\ p \in Known /\ p \in Parties /\ fail \in BOOLEAN
      /\ Head(down[s]).type = "memberadded" /\ Head(down[s]) \in DownMsg(Parties)
  BY <1>t, HeadOf
<1>3. HandedOn(s) BY <1>1, <1>2, PartyStays, FollowsSame
<1>4. CalmSend(s)
  <2>1. b \in BOOLEAN OBVIOUS
  <2> HIDE DEF b
  <2> QED BY <1>1, <1>2, <2>1, SendLeave
<1>5. CASE ~expected /\ UNCHANGED sd BY <1>1, <1>3, <1>4, <1>5, SdStays, CalmTake
<1>6. CASE expected /\ sd' = new
  <2>0. UNCHANGED <<party_db_, nextid, row, char_db_, auth_db>> BY <1>1 DEF charVars
  <2>c. PICK c \in Chars : c = d0 BY <1>2
  <2>1. where[c] = s /\ sd[c].party_joining BY <1>6, <2>c DEF Here
  <2>h. Head(down[s]) \in Added(c) BY <1>2, <2>c DEF Added, Down
  <2>2. sd \in [Chars -> Session(Known)] BY DEF Types
  <2>e. new \in [Chars -> Session(Known)] /\ new[d0].party_invite = 0 /\ \A d \in Chars : d # d0 => new[d] = sd[d]
    <3>1. PICK v : v = IF known /\ ~fail THEN p ELSE sd[d0].party_id OBVIOUS
    <3>2. new = [sd EXCEPT ![d0] = [sd[d0] EXCEPT !.party_joining = FALSE, !.party_invite = 0, !.party_id = v]]
      BY <3>1, <2>2, <1>2
    <3>3. sd[d0] \in Session(Known) BY <1>2, <2>2
    <3> HIDE DEF d0, p, fail, known, new
    <3>4. v \in Known \cup {0} BY <1>2, <3>1, <3>3 DEF Session
    <3>5. PICK e \in Session(Known) : e.party_invite = 0 /\ new = [sd EXCEPT ![d0] = e]
      BY <3>2, <3>3, <3>4 DEF Session
    <3> QED BY <1>2, <2>2, <3>5
  <2> HIDE DEF new, d0, p, fail, expected, known, b
  <2>3. sd' \in [Chars -> Session(Known)] /\ sd'[c].party_invite = 0 /\ \A d \in Chars : d # c => sd'[d] = sd[d]
    BY <1>6, <2>c, <2>e
  <2>4. down[s] \in Seq(DownMsg(Known)) /\ down[s] # <<>> /\ down'[s] = Tail(down[s]) BY <1>t, TakeEffect
  <2>5. Occ(down[s], Added(c)) /\ (One(down[s], Added(c)) => ~Occ(down'[s], Added(c))) BY <2>h, <2>4, TailKeeps
  <2>6. Joins(c) BY DEF Joining
  <2>7. One(down[s], Added(c)) /\ ~Occ(up[s], Add(c)) BY <2>1, <2>5, <2>6 DEF Joins
  <2>8. ~Occ(down'[s], Added(c)) BY <2>5, <2>7
  <2>9. \A d \in Chars : CalmFor(d) BY <1>4, <1>t, TakeCalm, CalmUpFor DEF CalmFor, CalmSend
  <2>10. Tokens'
    <3> SUFFICES ASSUME NEW d \in Chars PROVE Token(d)' BY DEF Tokens
    <3> QED BY <1>1, <2>0, <2>9, CalmIsTokenCalm, CalmToken DEF Tokens
  <2>11. Joins(c)'
    <3> DEFINE out == Up(c, {"quit", "move"})
               reg == Up(c, {"registry"})
    <3>1. ASSUME NEW t \in Servers, t # s
          PROVE  /\ up'[t] = up[t] /\ Followed(up[t], Add(c), out)
                 /\ down'[t] = down[t] /\ (Occ(down[t], Added(c)) => ~Occ(up[t], reg))
      BY <1>4, <1>t, <2>1, <2>6, <3>1, TakeEffect DEF Joins, CalmSend
    <3>2. Add(c) \in SUBSET UpOf(c) BY DEF Add, UpOf, Up
    <3>3. ~Occ(up'[s], Add(c))
      <4>1. Calm(up[s], up'[s], UpMsg(Parties), UpOf(c)) /\ up[s] \in Seq(UpMsg(Parties)) BY <2>9, Queues DEF CalmFor
      <4> QED BY <2>7, <3>2, <4>1, CalmKeeps
    <3>4. One(up'[s], Add(c)) /\ Followed(up'[s], Add(c), out) BY <3>3, Without
    <3>5. Ahead(down'[s], Added(c), DownToken(c)) BY <2>8, Without
    <3>6. Add(c)' = Add(c) /\ Added(c)' = Added(c) /\ DownToken(c)' = DownToken(c) BY DEF Add, Added, DownToken
    <3>7. where'[c] = s BY <1>1, <2>1
    <3>8. \A t \in Servers : Followed(up'[t], Add(c), out) BY <3>1, <3>4
    <3>9. \A t \in Servers : One(up'[t], Add(c)) /\ Ahead(down'[t], Added(c), DownToken(c))
      BY <2>6, <3>1, <3>4, <3>5 DEF Joins
    <3>10. \A t, u \in Servers : Occ(up'[t], Add(c)) /\ Occ(up'[u], Add(c)) => t = u
      BY <2>6, <3>1, <3>3 DEF Joins
    <3>11. \A t \in Servers : Occ(down'[t], Added(c)) => where'[c] # t /\ ~Occ(up'[t], reg)
      BY <2>8, <3>1, <3>7
    <3> QED BY <3>6, <3>8, <3>9, <3>10, <3>11 DEF Joins
  <2>12. Joining'
    <3> SUFFICES ASSUME NEW d \in Chars, d # c PROVE Joins(d)' BY <2>11 DEF Joining
    <3> QED BY <1>1, <2>3, <2>9, CalmJoins DEF Joining
  <2>13. Invites' BY <1>1, <2>0, <2>3 DEF Invites
  <2>14. ~Occ(up'[s], Again) BY <1>4, CalmUpFor DEF Timely, CalmSend
  <2>15. \A q \in Parties, d \in Chars : d \in In(party_db_[q]) => Listed(s, q, d)' BY <1>1, <1>3, <1>t, FollowsListed
  <2>16. where' \in [Chars -> Servers \cup {0}] /\ \A d \in Chars : where'[d] \in {where[d], s} BY <1>1 DEF Types
  <2>17. up' \in [Servers -> Seq(UpMsg(Known))] /\ \A t \in Servers : t # s => up'[t] = up[t]
    BY <1>4 DEF CalmSend, CalmUp
  <2> QED BY <1>1, <1>3, <2>3, <2>10, <2>12, <2>13, <2>14, <2>15, <2>16, <2>17, TakeStep DEF HandedOn
<1> QED BY <1>1, <1>5, <1>6

\* A packet of a session.
LEMMA RegistryPack ==
    ASSUME NEW K, NEW m \in DownMsg(K), m.type \in {"auth", "registry"}, NEW n, n = [m EXCEPT !.type = "registry"]
    PROVE  n \in UpMsg(K) /\ n.type = "registry" /\ n.char = m.char
<1>1. m \in Packet(DownTypes, K) /\ m.char \in Chars BY DEF DownMsg
<1>2. n \in Packet(UpTypes, K) /\ n.type = "registry" /\ n.char = m.char BY <1>1 DEF Packet, UpTypes
<1> QED BY <1>1, <1>2 DEF UpMsg

\* The session that a packet brings is in no other, and does not play.
LEMMA TokenHead ==
    ASSUME Types, NEW c \in Chars, Token(c), NEW s \in Servers, down[s] # <<>>, Head(down[s]) \in DownToken(c)
    PROVE  /\ where[c] = 0 /\ c \notin auth_db
           /\ \A t \in Servers : ~Occ(up[t], UpToken(c))
           /\ ~Occ(Tail(down[s]), DownToken(c)) /\ \A t \in Servers : t # s => ~Occ(down[t], DownToken(c))
<1>1. down[s] \in Seq(DownMsg(Known)) BY DEF Types
<1>2. Occ(down[s], DownToken(c)) /\ (One(down[s], DownToken(c)) => ~Occ(Tail(down[s]), DownToken(c)))
  BY <1>1, TailKeeps
<1> QED BY <1>2 DEF Token

\* A character that is let in asks for its registry.
LEMMA AuthokInv ==
    ASSUME PartyInv, NEW s \in Servers, pc_authok(s)
    PROVE  PartyInv'
<1> USE DEF PartyInv
<1>m. PICK m, n : m = Head(down[s]) /\ n = [m EXCEPT !.type = "registry"] OBVIOUS
<1>1. Take(s, "auth") /\ UNCHANGED <<charVars, where, crashed>> /\ UNCHANGED <<sd, party>>
  BY DEF pc_authok, Handled
<1>s. Send(s, <<n>>)
  <2>1. Send(s, <<[Head(down[s]) EXCEPT !.type = "registry"]>>) BY Zenon DEF pc_authok
  <2> QED BY <1>m, <2>1, Zenon
<1>0. UNCHANGED <<party_db_, nextid, row, char_db_, auth_db>> BY <1>1 DEF charVars
<1>2. m.char \in Chars /\ m.type = "auth" /\ m \in DownMsg(Parties) /\ m \in DownMsg(Known) BY <1>m, <1>1, HeadOf
<1>3. n \in UpMsg(Known) /\ n.type = "registry" /\ n.char = m.char BY <1>m, <1>2, RegistryPack
<1>c. PICK c \in Chars : c = m.char BY <1>2
<1>h. Head(down[s]) \in DownToken(c) BY <1>m, <1>2, <1>c DEF DownToken, Down
<1>4. down[s] \in Seq(DownMsg(Known)) /\ down[s] # <<>> /\ down'[s] = Tail(down[s]) /\ \A t \in Servers : t # s => down'[t] = down[t]
  BY <1>1, TakeEffect
<1>5. /\ where[c] = 0 /\ c \notin auth_db
      /\ \A t \in Servers : ~Occ(up[t], UpToken(c)) /\ ~Occ(down'[t], DownToken(c))
  BY <1>h, <1>4, TokenHead DEF Tokens
<1> DEFINE r == <<n>>
<1>6. r \in Seq(UpMsg(Known)) /\ r \in Seq(UpMsg(Parties)) /\ Send(s, r) BY <1>3, <1>s, Queues
<1>7. /\ up' \in [Servers -> Seq(UpMsg(Known))]
      /\ up'[s] = up[s] \o r /\ \A t \in Servers : t # s => up'[t] = up[t]
  BY <1>6, SendEffect
<1>8. up[s] \in Seq(UpMsg(Parties)) BY Queues
<1>9. (\A X : Occ(r, X) <=> n \in X) /\ \A X : One(r, X) BY DEF Occ, One
<1> HIDE DEF r
<1>10. Token(c)'
  <2>1. One(up'[s], UpToken(c))
    <3>1. One(up[s], UpToken(c)) /\ ~Occ(up[s], UpToken(c)) BY <1>5, Without
    <3> QED BY <1>6, <1>7, <1>8, <1>9, <3>1, JoinOcc
  <2>2. \A t \in Servers : t # s => One(up'[t], UpToken(c)) /\ ~Occ(up'[t], UpToken(c)) BY <1>5, <1>7, Without
  <2>3. \A t \in Servers : One(down'[t], DownToken(c)) BY <1>5, Without
  <2>4. UpToken(c)' = UpToken(c) /\ DownToken(c)' = DownToken(c) BY DEF UpToken, DownToken
  <2> QED BY <1>0, <1>1, <1>5, <2>1, <2>2, <2>3, <2>4 DEF Token
<1>11. \A d \in Chars : d # c => CalmFor(d)
  <2> SUFFICES ASSUME NEW d \in Chars, d # c PROVE CalmFor(d) OBVIOUS
  <2>1. ~Occ(r, UpOf(d)) BY <1>3, <1>9, <1>c DEF UpOf, Up
  <2>2. \A t \in Servers : up[t] \in Seq(UpMsg(Parties)) BY Queues
  <2>3. \A t \in Servers : Calm(up[t], up'[t], UpMsg(Parties), UpOf(d)) BY <1>6, <1>7, <2>1, <2>2, CalmIs
  <2>4. \A t \in Servers : Calm(down[t], down'[t], DownMsg(Parties), DownOf(d)) BY <1>1, TakeCalm
  <2> QED BY <2>3, <2>4 DEF CalmFor
<1>12. Tokens'
  <2> SUFFICES ASSUME NEW d \in Chars, d # c PROVE Token(d)' BY <1>10 DEF Tokens
  <2> QED BY <1>0, <1>1, <1>11, CalmIsTokenCalm, CalmToken DEF Tokens
<1>13. Joins(c)'
  <2> DEFINE out == Up(c, {"quit", "move"})
             reg == Up(c, {"registry"})
             S == UpMsg(Parties)
  <2>0. Joins(c) BY DEF Joining
  <2>1. ~Occ(r, Add(c)) BY <1>3, <1>9 DEF Add, Up
  <2>2. /\ One(up'[s], Add(c)) /\ (Occ(up'[s], Add(c)) => Occ(up[s], Add(c)))
    <3>1. One(up[s], Add(c)) /\ One(r, Add(c)) BY <2>0, <2>1, Without DEF Joins
    <3> QED BY <1>6, <1>7, <1>8, <2>1, <3>1, JoinOcc
  <2>3. \A t \in Servers : Followed(up[t], Add(c), out) BY <1>5, <2>0, PartyAssumption DEF Joins
  <2>4. Followed(up'[s], Add(c), out)
    <3>1. Followed(r, Add(c), out) /\ Followed(up[s], Add(c), out) BY <2>1, <2>3, Without
    <3>2. up[s] \in Seq(S) /\ r \in Seq(S) /\ up'[s] = up[s] \o r BY <1>6, <1>7, <1>8
    <3> HIDE DEF out, S
    <3> QED BY <3>1, <3>2, JoinFollowed
  <2>5. ~Occ(down[s], Added(c))
    <3>1. Ahead(down[s], Added(c), DownToken(c)) BY <2>0 DEF Joins
    <3> QED BY <1>4, <1>h, <3>1, TailKeeps
  <2>6. ~Occ(down'[s], Added(c)) /\ Ahead(down'[s], Added(c), DownToken(c))
    <3>1. ~Occ(down'[s], Added(c)) BY <1>4, <2>5, TailKeeps
    <3> QED BY <3>1, Without
  <2>7. Add(c)' = Add(c) /\ Added(c)' = Added(c) /\ DownToken(c)' = DownToken(c) BY DEF Add, Added, DownToken
  <2>8. \A t \in Servers : Followed(up'[t], Add(c), out) /\ One(up'[t], Add(c)) /\ Ahead(down'[t], Added(c), DownToken(c))
    BY <1>4, <1>7, <2>0, <2>2, <2>3, <2>4, <2>6 DEF Joins
  <2>9. \A t, u \in Servers : Occ(up'[t], Add(c)) /\ Occ(up'[u], Add(c)) => t = u BY <1>7, <2>0, <2>2 DEF Joins
  <2>10. \A t \in Servers : Occ(down'[t], Added(c)) => ~Occ(up'[t], reg) BY <1>4, <1>7, <2>0, <2>6 DEF Joins
  <2>11. \A t \in Servers : where'[c] # t BY <1>1, <1>5, PartyAssumption
  <2> QED BY <2>7, <2>8, <2>9, <2>10, <2>11 DEF Joins
<1>14. Joining'
  <2> SUFFICES ASSUME NEW d \in Chars, d # c PROVE Joins(d)' BY <1>13 DEF Joining
  <2> QED BY <1>1, <1>11, CalmJoins DEF Joining
<1>15. Invites' BY <1>0, <1>1 DEF Invites
<1>16. ~Occ(up'[s], Again)
  <2>1. ~Occ(r, Again) BY <1>3, <1>9 DEF Again
  <2>2. ~Occ(up[s], Again) BY DEF Timely
  <2> QED BY <1>6, <1>7, <1>8, <2>1, <2>2, JoinOcc
<1>17. HandedOn(s) BY <1>m, <1>1, <1>2, PartyStays, FollowsSame
<1>18. \A p \in Parties, d \in Chars : d \in In(party_db_[p]) => Listed(s, p, d)' BY <1>1, <1>17, FollowsListed
<1>19. where' \in [Chars -> Servers \cup {0}] /\ \A d \in Chars : where'[d] \in {where[d], s} BY <1>1 DEF Types
<1>20. sd' \in [Chars -> Session(Known)] BY <1>1 DEF Types
<1> QED BY <1>1, <1>7, <1>12, <1>14, <1>15, <1>16, <1>17, <1>18, <1>19, <1>20, TakeStep DEF HandedOn

\* A member that the copy has and no packet drops.
LEMMA ListedNone ==
    ASSUME NEW s, NEW p, NEW c, ~Lacks(s, p, c)', ~Occ(down'[s], Drops(p, c))
    PROVE  Listed(s, p, c)'
<1>1. /\ Followed(down'[s], Drops(p, c), Puts(p, c))
      /\ Between(down'[s], Drops(p, c), Puts(p, c), Opens(s, p, c)')
  BY Without
<1>2. ListedIn(down'[s], Lacks(s, p, c)', where'[c] = s, Drops(p, c), Puts(p, c), Opens(s, p, c)')
  BY <1>1 DEF ListedIn
<1> QED BY <1>2, ListedIs

\* When the head opens, nothing is missing and nothing drops.
LEMMA OpensHead ==
    ASSUME Types, NEW s \in Servers, NEW p, NEW c, Listed(s, p, c), down[s] # <<>>, Head(down[s]) \in Opens(s, p, c)
    PROVE  ~Lacks(s, p, c) /\ ~Occ(down[s], Drops(p, c)) /\ ~Occ(Tail(down[s]), Drops(p, c))
<1> DEFINE q == down[s]
           D == Drops(p, c)
           P == Puts(p, c)
           O == Opens(s, p, c)
           S == DownMsg(Known)
<1>1. q \in Seq(S) /\ q # <<>> /\ Head(q) \in O BY DEF Types
<1>2. Between(q, D, P, O) /\ (Lacks(s, p, c) => Led(q, P, O)) BY DEF Listed
<1> HIDE DEF q, D, P, O, S
<1>3. /\ Led(q, P, O) => Head(q) \notin O
      /\ Between(q, D, P, O) /\ Head(q) \in O => ~Occ(q, D)
      /\ Occ(q, D) <=> Head(q) \in D \/ Occ(Tail(q), D)
  BY <1>1, TailKeeps
<1>4. ~Lacks(s, p, c) /\ ~Occ(q, D) /\ ~Occ(Tail(q), D) BY <1>1, <1>2, <1>3
<1> QED BY <1>4 DEF q, D

\* A character begins to play, a member of its party or not.
LEMMA RegInv ==
    ASSUME PartyInv, NEW s \in Servers, pc_reg_received(s)
    PROVE  PartyInv'
<1> USE DEF PartyInv
<1> DEFINE p == Head(down[s]).party
           d0 == Head(down[s]).char
           copy == IF p = 0 THEN NoParty ELSE party[s][p]
           member == At(copy, d0) # {}
           id == IF copy = NoParty \/ member THEN p ELSE 0
           new == [NoSession EXCEPT !.party_id = id]
           b == p # 0 /\ copy = NoParty
           r == IF b THEN <<Pack("info", p, d0)>> ELSE <<>>
<1>1. /\ Take(s, "registry") /\ UNCHANGED <<charVars, crashed>>
      /\ where' = [where EXCEPT ![d0] = s] /\ sd' = [sd EXCEPT ![d0] = new]
      /\ party' = IF member THEN [party EXCEPT ![s][p][Min(At(copy, d0))].sd = TRUE] ELSE party
      /\ Send(s, r)
  BY Zenon DEF pc_reg_received
<1>t. Take(s, "registry") BY <1>1
<1>0. UNCHANGED <<party_db_, nextid, row, char_db_, auth_db>> BY <1>1 DEF charVars
<1>2. /\ d0 \in Chars /\ p \in Known \cup {0} /\ Head(down[s]).type = "registry"
      /\ Head(down[s]) \in DownMsg(Parties) /\ Head(down[s]) \in DownMsg(Known)
  BY <1>t, HeadOf
<1>3. p # 0 => p \in Known /\ p \in Parties BY <1>2, Queues
<1>4. CalmSend(s)
  <2>1. PICK m : m = Pack("info", p, d0) OBVIOUS
  <2>2. m.type = "info" BY <2>1 DEF Pack
  <2>3. b => m \in UpMsg(Known) BY <1>2, <1>3, <2>1, UpParty
  <2> DEFINE q == IF b THEN <<m>> ELSE <<>>
  <2>4. Send(s, q) BY <1>1, <2>1, Zenon
  <2>5. q \in Seq(UpMsg(Known)) /\ \A i \in DOMAIN q : q[i] = m
    <3>1. CASE b
      <4>1. <<m>> \in Seq(UpMsg(Known)) /\ \A i \in DOMAIN <<m>> : <<m>>[i] = m BY <2>3, <3>1
      <4> QED BY <3>1, <4>1
    <3>2. CASE ~b BY <3>2
    <3> HIDE DEF b
    <3> QED BY <3>1, <3>2
  <2> HIDE DEF q
  <2> QED BY <1>t, <2>2, <2>4, <2>5, SendTake
<1>5. /\ party' \in [Servers -> [Parties -> {NoParty} \cup [Places -> CopyEntry]]]
      /\ \A t \in Servers : t # s => party'[t] = party[t]
      /\ \A q \in Parties : Alike(party[s][q], party'[s][q])
  <2>1. CASE ~member BY <1>1, <2>1, PartyStays
  <2>2. CASE member
    <3>1. copy # NoParty
      <4>1. DOMAIN NoParty = {} BY DEF NoParty
      <4> QED BY <2>2, <4>1 DEF At
    <3>2. p \in Parties /\ copy = party[s][p] BY <1>3, <3>1
    <3>3. copy \in {NoParty} \cup [Places -> CopyEntry] BY <3>2 DEF Types
    <3> DEFINE j == Min(At(copy, d0))
               e == [copy[j] EXCEPT !.sd = TRUE]
               to == [copy EXCEPT ![j] = e]
    <3>4. j \in DOMAIN copy
      <4>1. DOMAIN copy \subseteq Places BY <3>3, SlotFacts
      <4>2. At(copy, d0) # {} BY <2>2
      <4> HIDE DEF copy, d0
      <4> QED BY <4>1, <4>2, MinAt
    <3>5. copy[j] \in CopyEntry BY <3>3, <3>4, SlotFacts
    <3>6. party' = [party EXCEPT ![s][p] = to]
      <4>1. party' = [party EXCEPT ![s][p][j].sd = TRUE] BY <1>1, <2>2, Zenon
      <4>2. party[s][p] = copy BY <3>2
      <4> HIDE DEF j, copy, p
      <4> QED BY <4>1, <4>2
    <3> HIDE DEF j
    <3>7. e \in CopyEntry /\ e.char = copy[j].char BY <3>5 DEF CopyEntry
    <3> HIDE DEF e
    <3>8. to = [copy EXCEPT ![j] = e] OBVIOUS
    <3> HIDE DEF to, copy, p
    <3> QED BY <3>2, <3>4, <3>6, <3>7, <3>8, EntryAlike
  <2> QED BY <2>1, <2>2
<1>6. HandedOn(s) BY <1>2, <1>5, FollowsSame
<1>c. PICK c \in Chars : c = d0 BY <1>2
<1>h. Head(down[s]) \in DownToken(c) BY <1>2, <1>c DEF DownToken, Down
<1>o. \A q \in Parties : Head(down[s]) \in Opens(s, q, c) BY <1>2, <1>c DEF Opens
<1>7. new \in Session(Known) /\ new.party_invite = 0 /\ new.party_joining = FALSE
  <2>1. NoSession \in Session(Known) /\ NoSession.party_invite = 0 /\ NoSession.party_joining = FALSE
    BY DEF NoSession, Session
  <2>2. id \in Known \cup {0} BY <1>2
  <2> HIDE DEF id
  <2> QED BY <2>1, <2>2 DEF Session
<1>8. sd' = [sd EXCEPT ![c] = new] /\ where' = [where EXCEPT ![c] = s] BY <1>1, <1>c
<1> HIDE DEF p, d0, copy, member, id, new, b, r
<1>9. /\ sd' \in [Chars -> Session(Known)] /\ sd'[c].party_invite = 0 /\ ~sd'[c].party_joining
      /\ \A d \in Chars : d # c => sd'[d] = sd[d]
  BY <1>7, <1>8 DEF Types
<1>10. where' \in [Chars -> Servers \cup {0}] /\ where'[c] = s /\ \A d \in Chars : d # c => where'[d] = where[d]
  BY <1>8 DEF Types
<1>11. down[s] \in Seq(DownMsg(Known)) /\ down[s] # <<>> /\ down'[s] = Tail(down[s]) /\ \A t \in Servers : t # s => down'[t] = down[t]
  BY <1>t, TakeEffect
<1>12. /\ where[c] = 0 /\ c \notin auth_db
       /\ \A t \in Servers : ~Occ(up[t], UpToken(c)) /\ ~Occ(down'[t], DownToken(c))
  BY <1>h, <1>11, TokenHead DEF Tokens
<1>13. \A d \in Chars : CalmFor(d) BY <1>4, <1>t, TakeCalm, CalmUpFor DEF CalmFor, CalmSend
<1>14. \A t \in Servers : ~Occ(up'[t], UpToken(c))
  <2> TAKE t \in Servers
  <2>1. UpToken(c) \in SUBSET UpOf(c) BY DEF UpToken, UpOf, Up
  <2>2. Calm(up[t], up'[t], UpMsg(Parties), UpOf(c)) /\ up[t] \in Seq(UpMsg(Parties)) BY <1>13, Queues DEF CalmFor
  <2> QED BY <1>12, <2>1, <2>2, CalmKeeps
<1>15. Token(c)'
  <2>1. \A t \in Servers : One(up'[t], UpToken(c)) /\ One(down'[t], DownToken(c)) BY <1>12, <1>14, Without
  <2>2. UpToken(c)' = UpToken(c) /\ DownToken(c)' = DownToken(c) BY DEF UpToken, DownToken
  <2> QED BY <1>0, <1>12, <1>14, <2>1, <2>2 DEF Token
<1>16. Tokens'
  <2> SUFFICES ASSUME NEW d \in Chars, d # c PROVE Token(d)' BY <1>15 DEF Tokens
  <2> QED BY <1>0, <1>10, <1>13, CalmIsTokenCalm, CalmToken DEF Tokens
<1>17. Joins(c)'
  <2> DEFINE out == Up(c, {"quit", "move"})
             reg == Up(c, {"registry"})
  <2>0. Joins(c) BY DEF Joining
  <2>1. \A t \in Servers : ~Occ(up[t], Add(c)) BY <1>12, AddMeans, PartyAssumption DEF Tokens, Joining
  <2>2. \A t \in Servers : ~Occ(up'[t], Add(c))
    <3> TAKE t \in Servers
    <3>1. Add(c) \in SUBSET UpOf(c) BY DEF Add, UpOf, Up
    <3>2. Calm(up[t], up'[t], UpMsg(Parties), UpOf(c)) /\ up[t] \in Seq(UpMsg(Parties)) BY <1>13, Queues DEF CalmFor
    <3> QED BY <2>1, <3>1, <3>2, CalmKeeps
  <2>3. ~Occ(down'[s], Added(c))
    <3>1. Ahead(down[s], Added(c), DownToken(c)) BY <2>0 DEF Joins
    <3>2. ~Occ(down[s], Added(c)) BY <1>11, <1>h, <3>1, TailKeeps
    <3> QED BY <1>11, <3>2, TailKeeps
  <2>4. Add(c)' = Add(c) /\ Added(c)' = Added(c) /\ DownToken(c)' = DownToken(c) BY DEF Add, Added, DownToken
  <2>5. \A t \in Servers : Followed(up'[t], Add(c), out) /\ One(up'[t], Add(c)) /\ Ahead(down'[t], Added(c), DownToken(c))
    BY <1>12, <2>2, Without
  <2>6. \A t \in Servers : ~Occ(up'[t], reg)
    <3>1. reg \subseteq UpToken(c) BY DEF UpToken, Up
    <3> HIDE DEF reg
    <3> QED BY <1>14, <3>1 DEF Occ
  <2>7. \A t \in Servers : Occ(down'[t], Added(c)) => where'[c] # t BY <1>10, <2>3
  <2> QED BY <2>2, <2>4, <2>5, <2>6, <2>7 DEF Joins
<1>18. Joining'
  <2> SUFFICES ASSUME NEW d \in Chars, d # c PROVE Joins(d)' BY <1>17 DEF Joining
  <2> QED BY <1>9, <1>10, <1>13, CalmJoins DEF Joining
<1>19. Invites' BY <1>0, <1>9, <1>10 DEF Invites
<1>20. ~Occ(up'[s], Again) BY <1>4, CalmUpFor DEF Timely, CalmSend
<1>21. ASSUME NEW q \in Parties, NEW d \in Chars, d \in In(party_db_[q]) PROVE Listed(s, q, d)'
  <2>1. CASE d # c BY <1>t, <1>6, <1>10, <1>21, <2>1, FollowsListed
  <2>2. CASE d = c
    <3>1. Listed(s, q, c) BY <1>21, <2>2 DEF Lists
    <3>2. ~Lacks(s, q, c) /\ ~Occ(down'[s], Drops(q, c)) BY <1>11, <1>o, <3>1, OpensHead
    <3>3. Alike(party[s][q], party'[s][q]) BY <1>5
    <3>4. ~Lacks(s, q, c)' BY <3>2, <3>3, AlikeFacts DEF Lacks, Alike
    <3> QED BY <2>2, <3>2, <3>4, ListedNone
  <2> QED BY <2>1, <2>2
<1>22. up' \in [Servers -> Seq(UpMsg(Known))] /\ \A t \in Servers : t # s => up'[t] = up[t]
  BY <1>4 DEF CalmSend, CalmUp
<1>23. \A d \in Chars : where'[d] \in {where[d], s} BY <1>10
<1> QED BY <1>1, <1>t, <1>6, <1>9, <1>10, <1>16, <1>18, <1>19, <1>20, <1>21, <1>22, <1>23, TakeStep DEF HandedOn

\* A map-server that is gone takes its players, copies and packets along.
LEMMA CrashInv ==
    ASSUME PartyInv, NEW s \in Servers, Crash(s)
    PROVE  PartyInv'
<1> USE DEF PartyInv
<1>1. /\ crashed' = crashed \cup {s}
      /\ where' = [c \in Chars |-> IF where[c] = s THEN 0 ELSE where[c]]
      /\ sd' = [c \in Chars |-> IF where[c] = s THEN NoSession ELSE sd[c]]
      /\ party' = [party EXCEPT ![s] = [p \in Parties |-> NoParty]]
      /\ up' = [up EXCEPT ![s] = <<>>] /\ down' = [down EXCEPT ![s] = <<>>]
      /\ UNCHANGED <<party_db_, nextid, row, char_db_, auth_db>>
  BY Zenon DEF Crash, charVars
<1>2. s # 0 /\ 0 \notin Servers BY PartyAssumption
<1>3. /\ where' \in [Chars -> Servers \cup {0}]
      /\ \A c \in Chars : where'[c] = IF where[c] = s THEN 0 ELSE where[c]
  BY <1>1 DEF Types
<1>4. /\ sd' \in [Chars -> Session(Known)] /\ \A c \in Chars : where[c] # s => sd'[c] = sd[c]
  <2>1. NoSession \in Session(Known) BY DEF NoSession, Session
  <2>2. sd \in [Chars -> Session(Known)] BY DEF Types
  <2>3. sd' = [c \in Chars |-> IF where[c] = s THEN NoSession ELSE sd[c]] BY <1>1
  <2> QED BY <2>1, <2>2, <2>3
<1>5. /\ party' \in [Servers -> [Parties -> {NoParty} \cup [Places -> CopyEntry]]]
      /\ \A t \in Servers : t # s => party'[t] = party[t]
      /\ \A p \in Parties : party'[s][p] = NoParty
  <2>1. party \in [Servers -> [Parties -> {NoParty} \cup [Places -> CopyEntry]]] BY DEF Types
  <2>2. party' = [party EXCEPT ![s] = [p \in Parties |-> NoParty]] BY <1>1
  <2> QED BY <2>1, <2>2
<1>6. /\ up' \in [Servers -> Seq(UpMsg(Known))] /\ up'[s] = <<>> /\ \A t \in Servers : t # s => up'[t] = up[t]
      /\ down' \in [Servers -> Seq(DownMsg(Known))] /\ down'[s] = <<>> /\ \A t \in Servers : t # s => down'[t] = down[t]
  BY <1>1 DEF Types
<1>7. Types'
  <2>1. crashed' \subseteq Servers BY <1>1 DEF Types
  <2> QED BY <1>1, <1>3, <1>4, <1>5, <1>6, <2>1, TypesStep DEF Types
<1>8. Known' = Known BY <1>1 DEF Known
<1>9. Unfounded' BY <1>1, <1>5, <1>8 DEF Unfounded
<1>10. \A c \in Chars : CalmFor(c)
  <2> TAKE c \in Chars
  <2>1. \A t \in Servers : up[t] \in Seq(UpMsg(Parties)) /\ down[t] \in Seq(DownMsg(Parties)) BY Queues
  <2>2. ASSUME NEW t \in Servers PROVE Calm(up[t], up'[t], UpMsg(Parties), UpOf(c))
    BY <1>6, <2>1, CalmIs
  <2>3. ASSUME NEW t \in Servers PROVE Calm(down[t], down'[t], DownMsg(Parties), DownOf(c))
    BY <1>6, <2>1, CalmIs
  <2> QED BY <2>2, <2>3 DEF CalmFor
<1>11. Tokens'
  <2> SUFFICES ASSUME NEW c \in Chars PROVE Token(c)' BY DEF Tokens
  <2> QED BY <1>1, <1>3, <1>10, CalmIsTokenCalm, CalmToken DEF Tokens
<1>12. Joining'
  <2> SUFFICES ASSUME NEW c \in Chars PROVE Joins(c)' BY DEF Joining
  <2>1. Joins(c) /\ CalmFor(c) BY <1>10 DEF Joining
  <2>2. CASE where[c] = s
    <3>1. where'[c] = 0 /\ where[c] \in Servers /\ up'[where[c]] = <<>> BY <1>3, <1>6, <2>2
    <3> QED BY <2>1, <3>1, CalmJoins
  <2>3. CASE where[c] # s BY <1>3, <1>4, <2>1, <2>3, CalmJoins
  <2> QED BY <2>2, <2>3
<1>13. Gone'
  <2> SUFFICES ASSUME NEW t \in crashed \cup {s}
               PROVE  /\ up'[t] = <<>> /\ down'[t] = <<>> /\ \A d \in Chars : where'[d] # t
                      /\ \A p \in Parties : party'[t][p] = NoParty
    BY <1>1 DEF Gone
  <2>1. CASE t = s BY <1>2, <1>3, <1>5, <1>6, <2>1
  <2>2. CASE t # s
    <3>1. t \in Servers /\ t # 0 BY <1>2, <2>2 DEF Types
    <3>2. up[t] = <<>> /\ down[t] = <<>> /\ (\A d \in Chars : where[d] # t) /\ \A p \in Parties : party[t][p] = NoParty
      BY <2>2 DEF Gone
    <3>3. up'[t] = up[t] /\ down'[t] = down[t] /\ party'[t] = party[t] BY <1>5, <1>6, <2>2, <3>1
    <3>4. \A d \in Chars : where'[d] # t BY <1>3, <3>1, <3>2
    <3> QED BY <3>2, <3>3, <3>4
  <2> QED BY <2>1, <2>2
<1>14. Again' = Again /\ Twice' = Twice BY <1>1 DEF Again, Twice
<1>15. Timely'
  <2>1. ~Occ(up'[s], Again) /\ ~Occ(down'[s], Twice) BY <1>6, Without
  <2> QED BY <1>6, <1>14, <2>1 DEF Timely
<1>16. OnceEach'
  <2>1. Once(NoParty) BY DEF Once, NoParty
  <2> QED BY <1>1, <1>5, <2>1 DEF OnceEach
<1>17. Invites'
  <2>1. \A c \in Chars : where'[c] # 0 => where'[c] = where[c] /\ sd'[c] = sd[c] BY <1>3, <1>4
  <2> QED BY <1>1, <2>1 DEF Invites
<1>18. Lists'
  <2> SUFFICES ASSUME NEW t \in Servers, NEW p \in Parties, NEW c \in Chars, c \in In(party_db_[p]) PROVE Listed(t, p, c)'
    BY <1>1 DEF Lists
  <2>1. Listed(t, p, c) BY DEF Lists
  <2>2. CASE t = s
    <3>1. down'[s] = <<>> /\ party'[s][p] = NoParty /\ where'[c] # s BY <1>2, <1>3, <1>5, <1>6
    <3> QED BY <2>2, <3>1, ListedGone
  <2>3. CASE t # s
    <3>1. Alike(party[t][p], party'[t][p]) BY <1>5, <2>3 DEF Alike
    <3>2. where'[c] = t => where[c] = t BY <1>2, <1>3
    <3>3. down'[t] = down[t] BY <1>6, <2>3
    <3> QED BY <2>1, <3>1, <3>2, <3>3, ListedStay
  <2> QED BY <2>2, <2>3
<1> QED BY <1>7, <1>9, <1>11, <1>12, <1>13, <1>15, <1>16, <1>17, <1>18

\* The steps of the map-servers.
LEMMA MapInv ==
    ASSUME PartyInv, MapStep
    PROVE  PartyInv'
<1>1. PICK s \in Servers :
        \/ pc_authok(s) \/ pc_reg_received(s) \/ party_created(s) \/ party_recv_info(s) \/ party_recv_noinfo(s)
        \/ party_broken(s) \/ party_member_added(s) \/ party_member_withdraw(s) \/ party_recv_movemap(s)
  BY DEF MapStep
<1>2. CASE pc_authok(s) BY <1>2, AuthokInv
<1>3. CASE pc_reg_received(s) BY <1>3, RegInv
<1>4. CASE party_created(s) BY <1>4, CreatedInv
<1>5. CASE party_recv_info(s) BY <1>5, InfoInv
<1>6. CASE party_recv_noinfo(s) \/ party_broken(s) BY <1>6, BrokenInv
<1>7. CASE party_member_added(s) BY <1>7, MemberAddedInv
<1>8. CASE party_member_withdraw(s)
  <2>1. CASE Crash(s) BY <2>1, CrashInv
  <2>2. CASE ~Crash(s) BY <1>8, <2>2, WithdrawInv
  <2> QED BY <2>1, <2>2
<1>9. CASE party_recv_movemap(s) BY <1>9, MovedInv
<1> QED BY <1>1, <1>2, <1>3, <1>4, <1>5, <1>6, <1>7, <1>8, <1>9

-----------------------------------------------------------------------------
(***************************************************************************)
(* The char-server.  M is a set of packets that are added.                 *)
(***************************************************************************)
Tells(K, M) ==
    /\ down' \in [Servers -> Seq(DownMsg(K))] /\ \A t \in crashed : down'[t] = down[t]
    /\ \A t \in Servers : \E r \in Seq(DownMsg(K)) : down'[t] = down[t] \o r /\ \A i \in DOMAIN r : r[i] \in M

\* A queue of some packets.
LEMMA SomeOf ==
    ASSUME NEW S, NEW M \in SUBSET S, NEW a \in Seq(M), NEW b \in Seq(M)
    PROVE  /\ a \in Seq(S) /\ b \in Seq(S) /\ a \o b \in Seq(S) /\ \A i \in DOMAIN (a \o b) : (a \o b)[i] \in M
           /\ a \o <<>> = a /\ a \o <<>> \in Seq(S) /\ \A i \in DOMAIN a : a[i] \in M
<1>1. a \in Seq(S) /\ b \in Seq(S) OBVIOUS
<1>2. a \o b \in Seq(M) BY JoinJoin
<1>3. a \o <<>> = a BY JoinJoin
<1> DEFINE w == a \o b
<1>4. w \in Seq(M) BY <1>2
<1> HIDE DEF w
<1>5. w \in Seq(S) /\ \A i \in DOMAIN w : w[i] \in M BY <1>4
<1>6. \A i \in DOMAIN a : a[i] \in M OBVIOUS
<1> QED BY <1>1, <1>3, <1>5, <1>6 DEF w

\* Telling tells what it is given.
LEMMA TellTells ==
    ASSUME Types, Gone, NEW s, NEW K, Known \subseteq K, NEW M \in SUBSET DownMsg(K),
           NEW all \in Seq(M), NEW answer \in Seq(M), Tell(s, all, answer)
    PROVE  Tells(K, M)
<1>1. all \in Seq(DownMsg(K)) /\ answer \in Seq(DownMsg(K)) BY SomeOf
<1>2. /\ down' \in [Servers -> Seq(DownMsg(K))]
      /\ \A t \in Servers : down[t] \in Seq(DownMsg(K))
      /\ \A t \in crashed : down'[t] = down[t]
      /\ \A t \in Servers \ crashed : /\ t = s => down'[t] = down[t] \o (all \o answer)
                                      /\ t # s => down'[t] = down[t] \o (all \o <<>>)
  <2>1. down' \in [Servers -> Seq(DownMsg(K))] BY <1>1, TellEffect
  <2>2. \A t \in Servers : down[t] \in Seq(DownMsg(K)) BY <1>1, TellEffect
  <2>3. \A t \in crashed : down'[t] = down[t] BY <1>1, TellEffect
  <2>4. Told(s, all, answer) BY <1>1, TellEffect
  <2> QED BY <2>1, <2>2, <2>3, <2>4 DEF Told
<1>3. ASSUME NEW t \in Servers
      PROVE  \E r \in Seq(DownMsg(K)) : down'[t] = down[t] \o r /\ \A i \in DOMAIN r : r[i] \in M
  <2>1. CASE t \in crashed
    <3>1. <<>> \in Seq(DownMsg(K)) /\ DOMAIN <<>> = {} OBVIOUS
    <3>2. down'[t] = down[t] \o <<>> BY <1>2, <2>1, <3>1, JoinJoin
    <3> QED BY <3>1, <3>2
  <2>2. CASE t \notin crashed /\ t = s
    <3>1. down'[t] = down[t] \o (all \o answer) BY <1>2, <2>2
    <3>2. all \o answer \in Seq(DownMsg(K)) /\ \A i \in DOMAIN (all \o answer) : (all \o answer)[i] \in M BY SomeOf
    <3> QED BY <3>1, <3>2
  <2>3. CASE t \notin crashed /\ t # s
    <3>1. down'[t] = down[t] \o (all \o <<>>) BY <1>2, <2>3
    <3>2. all \o <<>> = all /\ all \in Seq(DownMsg(K)) /\ \A i \in DOMAIN all : all[i] \in M BY SomeOf
    <3> QED BY <3>1, <3>2
  <2> QED BY <2>1, <2>2, <2>3
<1> QED BY <1>2, <1>3 DEF Tells

\* Nothing is told.
LEMMA TellsNone ==
    ASSUME Types, UNCHANGED down
    PROVE  Tells(Known, {})
<1>1. down \in [Servers -> Seq(DownMsg(Known))] BY DEF Types
<1>2. <<>> \in Seq(DownMsg(Known)) /\ DOMAIN <<>> = {} OBVIOUS
<1>3. \A t \in Servers : down'[t] = down[t] \o <<>> BY <1>1, <1>2, JoinJoin
<1> QED BY <1>1, <1>2, <1>3 DEF Tells

\* None of A is added.
LEMMA TellsCalm ==
    ASSUME Types, NEW K, K \subseteq Parties, NEW M, Tells(K, M), NEW A, M \cap A = {}, NEW t \in Servers
    PROVE  /\ Calm(down[t], down'[t], DownMsg(Parties), A)
           /\ ~Occ(down[t], A) => ~Occ(down'[t], A)
<1>1. PICK r \in Seq(DownMsg(K)) : down'[t] = down[t] \o r /\ \A i \in DOMAIN r : r[i] \in M BY DEF Tells
<1>2. r \in Seq(DownMsg(Parties))
  <2>1. DownMsg(K) \subseteq DownMsg(Parties) BY MoreMsg
  <2> QED BY <2>1
<1>3. down[t] \in Seq(DownMsg(Parties)) BY Queues
<1>4. ~Occ(r, A) BY <1>1 DEF Occ
<1>5. Calm(down[t], down'[t], DownMsg(Parties), A) BY <1>1, <1>2, <1>3, <1>4, CalmIs
<1>6. ~Occ(down[t], A) => ~Occ(down'[t], A) BY <1>1, <1>2, <1>3, <1>4, JoinOcc
<1> QED BY <1>5, <1>6

\* A member is listed where nothing drops it.
LEMMA TellsListed ==
    ASSUME Types, NEW K, K \subseteq Parties, NEW M, Tells(K, M), NEW t \in Servers, NEW p, NEW c, Listed(t, p, c),
           M \cap Drops(p, c) = {}, UNCHANGED <<where, party>>
    PROVE  Listed(t, p, c)'
<1>1. PICK r \in Seq(DownMsg(K)) : down'[t] = down[t] \o r /\ \A i \in DOMAIN r : r[i] \in M BY DEF Tells
<1>2. r \in Seq(DownMsg(Parties))
  <2>1. DownMsg(K) \subseteq DownMsg(Parties) BY MoreMsg
  <2> QED BY <2>1
<1>3. down[t] \in Seq(DownMsg(Parties)) BY Queues
<1>4. ~Occ(r, Drops(p, c)) BY <1>1 DEF Occ
<1>5. Lacks(t, p, c)' => Lacks(t, p, c) BY DEF Lacks
<1> QED BY <1>1, <1>2, <1>3, <1>4, <1>5, ListedJoin

\* The head of the queue from s.
LEMMA ReceiveCalm ==
    ASSUME Types, NEW s \in Servers, NEW type, Receive(s, type), NEW t \in Servers, NEW A
    PROVE  /\ Calm(up[t], up'[t], UpMsg(Parties), A)
           /\ ~Occ(up[t], A) => ~Occ(up'[t], A)
<1>1. up[s] # <<>> /\ up'[s] = Tail(up[s]) /\ \A u \in Servers : u # s => up'[u] = up[u] BY ReceiveEffect
<1>2. up[t] \in Seq(UpMsg(Parties)) BY Queues
<1>3. up[t] # <<>> => (Occ(up[t], A) <=> Head(up[t]) \in A \/ Occ(Tail(up[t]), A)) BY <1>2, TailKeeps
<1>4. ~Occ(up[t], A) => ~Occ(up'[t], A) BY <1>1, <1>3
<1> QED BY <1>1, <1>2, <1>4, CalmIs

\* What is left to show of a step of the char-server.
LEMMA CharStepInv ==
    ASSUME PartyInv, UNCHANGED mapVars, up' \in [Servers -> Seq(UpMsg(Known))], \A t \in crashed : up'[t] = <<>>,
           nextid' \in {nextid, nextid + 1},
           NEW M, Tells(Known', M), M \cap Twice = {},
           party_db_' \in [Parties -> {NoParty} \cup [Places -> Entry]],
           row' \in [Chars -> Known' \cup {0}], char_db_' \in [Chars -> Known' \cup {0, -1}], auth_db' \subseteq Chars,
           \A p \in Parties : Once(party_db_'[p]) /\ (p \notin Known' => party_db_'[p] = NoParty),
           \A t \in Servers : ~Occ(up'[t], Again'),
           Tokens', Joining', Invites', Lists'
    PROVE  PartyInv'
<1> USE DEF PartyInv
<1>0. UNCHANGED <<where, sd, party, crashed>> BY DEF mapVars
<1>1. nextid \in Nat \ {0} /\ nextid' \in Nat \ {0} /\ Known \subseteq Known' /\ Known' \subseteq Parties
  <2>1. Parties \subseteq Nat BY PartyAssumption
  <2>2. nextid \in Nat \ {0} BY DEF Types
  <2>3. nextid' \in Nat \ {0} /\ nextid' >= nextid BY <2>2
  <2>4. Known' = {p \in Parties : p < nextid'} /\ Known = {p \in Parties : p < nextid} BY DEF Known
  <2>5. \A p \in Parties : p < nextid => p < nextid' BY <2>1, <2>2, <2>3
  <2>6. Known \subseteq Known' /\ Known' \subseteq Parties BY <2>4, <2>5
  <2> QED BY <2>2, <2>3, <2>6
<1>3. up' \in [Servers -> Seq(UpMsg(Known'))]
  <2>1. UpMsg(Known) \subseteq UpMsg(Known') BY <1>1, MoreMsg
  <2>2. ASSUME NEW t \in Servers PROVE up'[t] \in Seq(UpMsg(Known')) BY <2>1
  <2>3. up' = [t \in Servers |-> up'[t]] OBVIOUS
  <2> QED BY <2>2, <2>3
<1>4. sd' \in [Chars -> Session(Known')] BY <1>0, <1>1 DEF Types, Session
<1>5. down' \in [Servers -> Seq(DownMsg(Known'))] BY DEF Tells
<1>6. Types' BY <1>0, <1>1, <1>3, <1>4, <1>5 DEF Types
<1>7. Unfounded' BY <1>0, <1>1 DEF Unfounded
<1>8. Gone' BY <1>0 DEF Gone, Tells
<1>9. OnceEach' BY <1>0 DEF OnceEach
<1>10. Twice' = Twice BY DEF Twice
<1>11. Timely' BY <1>1, <1>10, TellsCalm DEF Timely
<1> QED BY <1>6, <1>7, <1>8, <1>9, <1>11

\* The same when it takes a packet.
LEMMA HeardStep ==
    ASSUME PartyInv, NEW s \in Servers, NEW type, Receive(s, type), UNCHANGED mapVars, nextid' \in {nextid, nextid + 1},
           NEW M, Tells(Known', M), M \cap Twice = {},
           party_db_' \in [Parties -> {NoParty} \cup [Places -> Entry]],
           row' \in [Chars -> Known' \cup {0}], char_db_' \in [Chars -> Known' \cup {0, -1}], auth_db' \subseteq Chars,
           \A p \in Parties : Once(party_db_'[p]) /\ (p \notin Known' => party_db_'[p] = NoParty),
           \A t \in Servers : ~Occ(up'[t], Again'),
           Tokens', Joining', Invites', Lists'
    PROVE  PartyInv'
<1> USE DEF PartyInv
<1>1. /\ up' \in [Servers -> Seq(UpMsg(Known))] /\ up[s] # <<>>
      /\ up'[s] = Tail(up[s]) /\ \A t \in Servers : t # s => up'[t] = up[t]
  BY ReceiveEffect
<1>2. s \notin crashed BY <1>1 DEF Gone
<1>3. \A t \in crashed : t \in Servers /\ t # s BY <1>2 DEF Types
<1>4. \A t \in crashed : up'[t] = <<>> BY <1>1, <1>3 DEF Gone
<1> QED BY <1>1, <1>4, CharStepInv

\* Sessions, when nothing concerns them.
LEMMA HeardCalm ==
    ASSUME PartyInv, NEW s \in Servers, NEW type, Receive(s, type), UNCHANGED mapVars, UNCHANGED <<char_db_, auth_db>>,
           NEW K, K \subseteq Parties, NEW M, Tells(K, M), \A m \in M : m.type \notin {"auth", "registry", "memberadded"}
    PROVE  Tokens' /\ Joining'
<1> USE DEF PartyInv
<1>0. UNCHANGED <<where, sd, party, crashed>> BY DEF mapVars
<1>1. ASSUME NEW c \in Chars PROVE CalmFor(c)
  <2>1. M \cap DownOf(c) = {} BY DEF DownOf, Down
  <2> QED BY <2>1, ReceiveCalm, TellsCalm DEF CalmFor
<1>2. ASSUME NEW c \in Chars PROVE Token(c)' /\ Joins(c)'
  <2>1. Token(c)' BY <1>0, <1>1, CalmIsTokenCalm, CalmToken DEF Tokens
  <2>2. Joins(c)' BY <1>0, <1>1, CalmJoins DEF Joining
  <2> QED BY <2>1, <2>2
<1> QED BY <1>2 DEF Tokens, Joining

\* Nobody becomes a member.
LEMMA HeardFewer ==
    ASSUME PartyInv, NEW s \in Servers, NEW type, Receive(s, type), UNCHANGED mapVars, UNCHANGED <<nextid, char_db_, auth_db>>,
           NEW M, Tells(Known, M), M \cap Twice = {}, \A m \in M : m.type \notin {"auth", "registry", "memberadded"},
           party_db_' \in [Parties -> {NoParty} \cup [Places -> Entry]], row' \in [Chars -> Known \cup {0}],
           \A p \in Parties : /\ Once(party_db_'[p]) /\ In(party_db_'[p]) \subseteq In(party_db_[p])
                              /\ p \notin Known => party_db_'[p] = NoParty,
           \A p \in Parties, c \in Chars : c \in In(party_db_'[p]) => M \cap Drops(p, c) = {}
    PROVE  PartyInv'
<1> USE DEF PartyInv
<1>0. UNCHANGED <<where, sd, party, crashed>> BY DEF mapVars
<1>1. Known' = Known /\ Known \subseteq Parties BY DEF Known
<1>2. Tokens' /\ Joining' BY <1>1, HeardCalm
<1>3. Again' \subseteq Again
  <2>1. \A m \in UpMsg(Parties) : m.type = "addmember" => m.party \in Parties BY DEF UpMsg
  <2> QED BY <2>1 DEF Again
<1>4. \A t \in Servers : ~Occ(up'[t], Again')
  <2> TAKE t \in Servers
  <2>1. ~Occ(up'[t], Again) BY ReceiveCalm DEF Timely
  <2> QED BY <1>3, <2>1 DEF Occ
<1>5. Invites'
  <2>1. \A c \in Chars : sd[c].party_invite \in Known \cup {0} BY DEF Types, Session
  <2> QED BY <1>0, <1>1, <2>1 DEF Invites
<1>6. Lists'
  <2> SUFFICES ASSUME NEW t \in Servers, NEW p \in Parties, NEW c \in Chars, c \in In(party_db_'[p]) PROVE Listed(t, p, c)'
    BY DEF Lists
  <2>1. Listed(t, p, c) /\ M \cap Drops(p, c) = {} BY DEF Lists
  <2> QED BY <1>0, <1>1, <2>1, TellsListed
<1>7. char_db_' \in [Chars -> Known' \cup {0, -1}] /\ auth_db' \subseteq Chars /\ row' \in [Chars -> Known' \cup {0}]
  BY <1>1 DEF Types
<1>8. Tells(Known', M) /\ \A p \in Parties : p \notin Known' => party_db_'[p] = NoParty BY <1>1
<1> QED BY <1>2, <1>4, <1>5, <1>6, <1>7, <1>8, HeardStep

\* What the head of a queue of requests is.
LEMMA HeadUp ==
    ASSUME Types, NEW s \in Servers, NEW type, Receive(s, type)
    PROVE  /\ Head(up[s]) \in UpMsg(Known) /\ Head(up[s]) \in UpMsg(Parties) /\ Head(up[s]).type = type
           /\ Head(up[s]).char \in Chars /\ Head(up[s]).flag \in BOOLEAN
           /\ Head(up[s]).party \in Known \cup {0}
           /\ type \in {"info", "addmember", "leave", "changemap", "leaderchange"}
                  => Head(up[s]).party \in Known /\ Head(up[s]).party \in Parties
<1>1. Head(up[s]) \in UpMsg(Known) /\ Head(up[s]).type = type BY ReceiveEffect
<1>2. Head(up[s]) \in UpMsg(Parties) BY <1>1, Queues
<1>3. Known \subseteq Parties BY DEF Known
<1> DEFINE m == Head(up[s])
<1> HIDE DEF m
<1>4. m \in UpMsg(Known) /\ m.type = type BY <1>1 DEF m
<1>5. /\ m.party \in Known \cup {0} /\ m.flag \in BOOLEAN /\ m.char \in Chars
      /\ type \in {"info", "addmember", "leave", "changemap", "leaderchange"} => m.party \in Known
  BY <1>4 DEF UpMsg, Packet
<1> QED BY <1>1, <1>2, <1>3, <1>5 DEF m

\* One answer.
LEMMA TellOne ==
    ASSUME Types, Gone, NEW s, NEW K, Known \subseteq K, NEW m \in DownMsg(K), Tell(s, <<>>, <<m>>)
    PROVE  Tells(K, {m})
<1>1. <<>> \in Seq({m}) /\ <<m>> \in Seq({m}) OBVIOUS
<1>2. {m} \in SUBSET DownMsg(K) OBVIOUS
<1> QED BY <1>1, <1>2, TellTells

\* The party of the char-server changes.
LEMMA DbSet ==
    ASSUME Types, NEW p \in Parties, NEW new \in {NoParty} \cup [Places -> Entry],
           party_db_' = [party_db_ EXCEPT ![p] = new]
    PROVE  /\ party_db_' \in [Parties -> {NoParty} \cup [Places -> Entry]]
           /\ \A q \in Parties : party_db_'[q] = IF q = p THEN new ELSE party_db_[q]
BY DEF Types

\* Its members stay.
LEMMA DbAlike ==
    ASSUME PartyInv, NEW p \in Known, NEW new \in {NoParty} \cup [Places -> Entry],
           party_db_' = [party_db_ EXCEPT ![p] = new], Alike(party_db_[p], new)
    PROVE  /\ party_db_' \in [Parties -> {NoParty} \cup [Places -> Entry]]
           /\ \A q \in Parties : /\ Once(party_db_'[q]) /\ In(party_db_'[q]) = In(party_db_[q])
                                 /\ q \notin Known => party_db_'[q] = NoParty
<1>0. p \in Parties BY DEF Known
<1>1. /\ party_db_' \in [Parties -> {NoParty} \cup [Places -> Entry]]
      /\ \A q \in Parties : party_db_'[q] = IF q = p THEN new ELSE party_db_[q]
  BY <1>0, DbSet DEF PartyInv
<1>2. In(new) = In(party_db_[p]) /\ (Once(party_db_[p]) => Once(new)) BY AlikeFacts
<1> QED BY <1>0, <1>1, <1>2 DEF PartyInv, OnceEach, Unfounded

\* No packet of these drops a member.
LEMMA NoDrops ==
    ASSUME NEW M, \A m \in M : m.type \notin {"info", "withdraw"}
    PROVE  M \cap Twice = {} /\ \A p, c : M \cap Drops(p, c) = {}
BY DEF Twice, Drops

\* A map-server asks for a party.
LEMMA PartyInfoInv ==
    ASSUME PartyInv, NEW s \in Servers, mapif_parse_PartyInfo(s)
    PROVE  PartyInv'
<1> USE DEF PartyInv
<1> DEFINE p == Head(up[s]).party
           c == Head(up[s]).char
           slots == party_db_[p]
<1>1. /\ Receive(s, "info") /\ UNCHANGED charVars /\ UNCHANGED mapVars
      /\ Tell(s, <<>>, <<IF slots = NoParty THEN Pack("noinfo", p, c) ELSE Info(p, slots, c)>>)
  BY Zenon DEF mapif_parse_PartyInfo
<1>r. Receive(s, "info") BY <1>1
<1>0. UNCHANGED <<party_db_, nextid, row, char_db_, auth_db>> BY <1>1 DEF charVars
<1>2. p \in Known /\ p \in Parties /\ c \in Chars BY <1>r, HeadUp
<1>3. slots \in {NoParty} \cup [Places -> Entry] /\ Once(slots) BY <1>2 DEF Types, OnceEach
<1>m. PICK m : m = IF slots = NoParty THEN Pack("noinfo", p, c) ELSE Info(p, slots, c) OBVIOUS
<1>4. Tell(s, <<>>, <<m>>) BY <1>1, <1>m, Zenon
<1> HIDE DEF p, c
<1>5. /\ m \in DownMsg(Known) /\ m.party = p /\ m.type \in {"info", "noinfo"}
      /\ m.type = "info" => Once(m.member) /\ In(m.member) = In(slots)
  <2>1. CASE slots = NoParty
    <3>1. m = Pack("noinfo", p, c) BY <1>m, <2>1
    <3>2. m \in DownMsg(Known) BY <1>2, <3>1, DownPack
    <3>3. m.party = p /\ m.type = "noinfo" BY <3>1 DEF Pack
    <3> QED BY <3>2, <3>3
  <2>2. CASE slots # NoParty
    <3>1. m = Info(p, slots, c) BY <1>m, <2>2
    <3>2. slots \in [Places -> Entry] BY <1>3, <2>2
    <3> HIDE DEF slots
    <3>3. c \in Chars \cup {0} BY <1>2
    <3> QED BY <1>2, <1>3, <3>1, <3>2, <3>3, InfoTypes
  <2> QED BY <2>1, <2>2
<1>6. Tells(Known, {m}) BY <1>4, <1>5, TellOne
<1>7. {m} \cap Twice = {} BY <1>5 DEF Twice
<1>8. \A q \in Parties, d \in Chars : d \in In(party_db_'[q]) => {m} \cap Drops(q, d) = {}
  BY <1>0, <1>5 DEF Drops
<1>9. party_db_' \in [Parties -> {NoParty} \cup [Places -> Entry]] /\ row' \in [Chars -> Known \cup {0}]
  BY <1>0 DEF Types
<1>10. \A q \in Parties : /\ Once(party_db_'[q]) /\ In(party_db_'[q]) \subseteq In(party_db_[q])
                          /\ q \notin Known => party_db_'[q] = NoParty
  BY <1>0 DEF OnceEach, Unfounded
<1> HIDE DEF slots
<1>11. \A x \in {m} : x.type \notin {"auth", "registry", "memberadded"} BY <1>5
<1> QED BY <1>0, <1>1, <1>6, <1>7, <1>8, <1>9, <1>10, <1>11, HeardFewer

\* A member is online, or not, and the others hear of it.
LEMMA ChangeMapInv ==
    ASSUME PartyInv, NEW s \in Servers, NEW moved \in BOOLEAN, mapif_parse_PartyChangeMap(s, moved)
    PROVE  PartyInv'
<1> USE DEF PartyInv
<1> DEFINE p == Head(up[s]).party
           c == Head(up[s]).char
           online == Head(up[s]).flag
           slots == party_db_[p]
           i == Min(At(slots, c))
           m == Pack("membermoved", p, c)
           a == IF slots[i].online # online THEN <<m>> ELSE <<>>
           b == IF moved THEN <<m>> ELSE <<>>
<1>1. /\ Receive(s, "changemap") /\ UNCHANGED <<nextid, row, char_db_, auth_db>> /\ UNCHANGED mapVars
      /\ \/ UNCHANGED <<party_db_, down>>
         \/ /\ At(slots, c) # {} /\ party_db_' = [party_db_ EXCEPT ![p][i].online = online]
            /\ Tell(s, a \o b, <<>>)
  BY Zenon DEF mapif_parse_PartyChangeMap
<1>r. Receive(s, "changemap") BY <1>1
<1>2. p \in Known /\ p \in Parties /\ c \in Chars /\ online \in BOOLEAN BY <1>r, HeadUp
<1>3. slots \in {NoParty} \cup [Places -> Entry] BY <1>2 DEF Types
<1>4. row' \in [Chars -> Known \cup {0}] BY <1>1 DEF Types
<1>5. CASE UNCHANGED <<party_db_, down>>
  <2>1. Tells(Known, {}) BY <1>5, TellsNone
  <2>2. party_db_' \in [Parties -> {NoParty} \cup [Places -> Entry]] BY <1>5 DEF Types
  <2>3. \A q \in Parties : /\ Once(party_db_'[q]) /\ In(party_db_'[q]) \subseteq In(party_db_[q])
                           /\ q \notin Known => party_db_'[q] = NoParty
    BY <1>5 DEF OnceEach, Unfounded
  <2> HIDE DEF p, c, online, slots, i, m, a, b
  <2> QED BY <1>1, <1>4, <2>1, <2>2, <2>3, HeardFewer
<1>6. CASE /\ At(slots, c) # {} /\ party_db_' = [party_db_ EXCEPT ![p][i].online = online]
           /\ Tell(s, a \o b, <<>>)
  <2>1. m \in DownMsg(Known) BY <1>2, DownPack
  <2>2. m.type = "membermoved" BY DEF Pack
  <2>3. i \in DOMAIN slots
    <3>1. DOMAIN slots \subseteq Places BY <1>3, SlotFacts
    <3>2. At(slots, c) # {} BY <1>6
    <3> HIDE DEF slots, c
    <3> QED BY <3>1, <3>2, MinAt
  <2>4. Tells(Known, {m})
    <3>1. a \in Seq({m}) /\ b \in Seq({m}) /\ <<>> \in Seq({m})
      <4> HIDE DEF m, i, slots, online
      <4>1. <<m>> \in Seq({m}) /\ <<>> \in Seq({m}) OBVIOUS
      <4> QED BY <4>1
    <3>2. Tell(s, a \o b, <<>>) BY <1>6
    <3>3. {m} \in SUBSET DownMsg(Known) BY <2>1
    <3> HIDE DEF a, b, m
    <3>4. a \o b \in Seq({m}) BY <3>1, JoinJoin
    <3> QED BY <3>1, <3>2, <3>3, <3>4, TellTells
  <2> HIDE DEF m, a, b
  <2> DEFINE e == [slots[i] EXCEPT !.online = online]
             new == [slots EXCEPT ![i] = e]
  <2>5. slots[i] \in Entry
    <3> HIDE DEF slots, i
    <3> QED BY <1>3, <2>3, SlotFacts
  <2>6. party_db_' = [party_db_ EXCEPT ![p] = new] BY <1>6, Zenon
  <2> HIDE DEF i
  <2>7. e \in Entry /\ e.char = slots[i].char BY <1>2, <2>5 DEF Entry
  <2>8. new = [slots EXCEPT ![i] = e] OBVIOUS
  <2> HIDE DEF e, new, p, c, online
  <2>9. new \in {NoParty} \cup [Places -> Entry] /\ Alike(slots, new)
    <3> HIDE DEF slots
    <3>1. /\ new \in {NoParty} \cup [Places -> Entry]
          /\ new # NoParty /\ slots # NoParty
          /\ DOMAIN new = DOMAIN slots
      BY <1>3, <2>3, <2>7, <2>8, SlotChange
    <3>2. \A k \in DOMAIN slots : new[k].char = slots[k].char BY <2>3, <2>7, <2>8
    <3> QED BY <3>1, <3>2 DEF Alike
  <2>10. /\ party_db_' \in [Parties -> {NoParty} \cup [Places -> Entry]]
         /\ \A q \in Parties : /\ Once(party_db_'[q]) /\ In(party_db_'[q]) = In(party_db_[q])
                               /\ q \notin Known => party_db_'[q] = NoParty
    BY <1>2, <2>6, <2>9, DbAlike
  <2>11. {m} \cap Twice = {} /\ \A q, d : {m} \cap Drops(q, d) = {} BY <2>2, NoDrops
  <2>12. \A x \in {m} : x.type \notin {"auth", "registry", "memberadded"} BY <2>2
  <2> HIDE DEF slots
  <2> QED BY <1>1, <1>4, <2>4, <2>10, <2>11, <2>12, HeardFewer
<1> QED BY <1>1, <1>5, <1>6

\* The leader changes, and nobody is told.
LEMMA LeaderChangeInv ==
    ASSUME PartyInv, NEW s \in Servers, mapif_parse_PartyLeaderChange(s)
    PROVE  PartyInv'
<1> USE DEF PartyInv
<1> DEFINE p == Head(up[s]).party
           c == Head(up[s]).char
           slots == party_db_[p]
           new == [i \in DOMAIN slots |-> [slots[i] EXCEPT !.leader = slots[i].char = c]]
<1>1. /\ Receive(s, "leaderchange") /\ UNCHANGED <<nextid, row, char_db_, auth_db>> /\ UNCHANGED mapVars /\ UNCHANGED down
      /\ party_db_' = [party_db_ EXCEPT ![p] = new]
  BY Zenon DEF mapif_parse_PartyLeaderChange
<1>r. Receive(s, "leaderchange") BY <1>1
<1>2. p \in Known /\ p \in Parties /\ c \in Chars BY <1>r, HeadUp
<1>3. slots \in {NoParty} \cup [Places -> Entry] BY <1>2 DEF Types
<1>4. row' \in [Chars -> Known \cup {0}] BY <1>1 DEF Types
<1>5. Tells(Known, {}) BY <1>1, TellsNone
<1>6. new \in {NoParty} \cup [Places -> Entry] /\ Alike(slots, new)
  <2>1. CASE slots = NoParty
    <3>1. DOMAIN slots = {} BY <2>1, SlotFacts DEF NoParty
    <3>2. new = NoParty BY <3>1 DEF NoParty
    <3> QED BY <2>1, <3>1, <3>2 DEF Alike
  <2>2. CASE slots # NoParty
    <3>1. DOMAIN slots = Places /\ \A k \in Places : slots[k] \in Entry BY <1>3, <2>2, SlotFacts
    <3> HIDE DEF slots, c
    <3>2. \A k \in Places : LET e == [slots[k] EXCEPT !.leader = slots[k].char = c] IN e \in Entry /\ e.char = slots[k].char
      BY <3>1 DEF Entry
    <3>3. new \in [Places -> Entry] /\ DOMAIN new = Places /\ \A k \in Places : new[k].char = slots[k].char
      BY <3>1, <3>2
    <3> HIDE DEF new
    <3>4. new # NoParty
      <4>1. Places # {} /\ DOMAIN NoParty = {} BY PartyAssumption DEF Places, NoParty
      <4> QED BY <3>3, <4>1
    <3> QED BY <2>2, <3>1, <3>3, <3>4 DEF Alike
  <2> QED BY <2>1, <2>2
<1>7. party_db_' = [party_db_ EXCEPT ![p] = new] BY <1>1
<1> HIDE DEF new, p, c
<1>8. /\ party_db_' \in [Parties -> {NoParty} \cup [Places -> Entry]]
      /\ \A q \in Parties : /\ Once(party_db_'[q]) /\ In(party_db_'[q]) = In(party_db_[q])
                            /\ q \notin Known => party_db_'[q] = NoParty
  BY <1>2, <1>6, <1>7, DbAlike
<1> HIDE DEF slots
<1> QED BY <1>1, <1>4, <1>5, <1>8, HeardFewer

\* A party that ends.
LEMMA DissolveInv ==
    ASSUME PartyInv, NEW s \in Servers, Receive(s, "leave"), UNCHANGED <<nextid, char_db_, auth_db>>, UNCHANGED mapVars,
           NEW p \in Known, Dissolve(p), NEW M, Tells(Known, M), \A m \in M : m.type \in {"withdraw", "broken"} /\ m.party = p
    PROVE  PartyInv'
<1> USE DEF PartyInv
<1>1. p \in Parties BY DEF Known
<1>2. party_db_' = [party_db_ EXCEPT ![p] = NoParty] /\ row' = [c \in Chars |-> IF row[c] = p THEN 0 ELSE row[c]] BY DEF Dissolve
<1>3. NoParty \in {NoParty} \cup [Places -> Entry] OBVIOUS
<1>4. /\ party_db_' \in [Parties -> {NoParty} \cup [Places -> Entry]]
      /\ \A q \in Parties : party_db_'[q] = IF q = p THEN NoParty ELSE party_db_[q]
  BY <1>1, <1>2, <1>3, DbSet
<1>5. row' \in [Chars -> Known \cup {0}] BY <1>2 DEF Types
<1>6. In(NoParty) = {} /\ Once(NoParty) BY DEF In, Once, NoParty
<1>7. \A q \in Parties : /\ Once(party_db_'[q]) /\ In(party_db_'[q]) \subseteq In(party_db_[q])
                         /\ q \notin Known => party_db_'[q] = NoParty
  BY <1>4, <1>6 DEF OnceEach, Unfounded
<1>8. \A q \in Parties, c \in Chars : c \in In(party_db_'[q]) => M \cap Drops(q, c) = {} BY <1>4, <1>6 DEF Drops
<1>9. M \cap Twice = {} BY DEF Twice
<1>10. \A m \in M : m.type \notin {"auth", "registry", "memberadded"} OBVIOUS
<1> QED BY <1>4, <1>5, <1>7, <1>8, <1>9, <1>10, HeardFewer

\* A member that leaves.
LEMMA FreedInv ==
    ASSUME PartyInv, NEW s \in Servers, Receive(s, "leave"), UNCHANGED <<nextid, char_db_, auth_db>>, UNCHANGED mapVars,
           NEW p \in Known, NEW c \in Chars, NEW left, left \in [Places -> Entry], Once(left),
           In(left) = In(party_db_[p]) \ {c}, party_db_' = [party_db_ EXCEPT ![p] = left],
           row' \in [Chars -> Known \cup {0}],
           NEW n \in DownMsg(Known), n.type = "info", n.party = p, In(n.member) = In(left), Once(n.member),
           Tell(s, <<Pack("withdraw", p, c), n>>, <<>>)
    PROVE  PartyInv'
<1> USE DEF PartyInv
<1> DEFINE slots == party_db_[p]
           w == Pack("withdraw", p, c)
           M == {w, n}
<1>1. p \in Parties BY DEF Known
<1>2. slots \in {NoParty} \cup [Places -> Entry] /\ Once(slots) BY <1>1 DEF Types, OnceEach
<1>5. left \in {NoParty} \cup [Places -> Entry] /\ Once(left) /\ In(left) = In(slots) \ {c} OBVIOUS
<1>6. /\ party_db_' \in [Parties -> {NoParty} \cup [Places -> Entry]]
      /\ \A q \in Parties : party_db_'[q] = IF q = p THEN left ELSE party_db_[q]
  BY <1>1, <1>5, DbSet
<1>7. w \in DownMsg(Known) /\ w.type = "withdraw" /\ w.party = p /\ w.char = c
  <2>1. w \in DownMsg(Known) BY DownPack
  <2> QED BY <2>1 DEF Pack
<1>8. n \in DownMsg(Known) /\ n.type = "info" /\ n.party = p /\ In(n.member) = In(left) /\ (Once(left) => Once(n.member)) OBVIOUS
<1> HIDE DEF w, slots
<1>9. Tells(Known, M)
  <2>1. M \in SUBSET DownMsg(Known) BY <1>7, <1>8
  <2>2. <<w, n>> \in Seq(M) /\ <<>> \in Seq(M) OBVIOUS
  <2>3. Tell(s, <<w, n>>, <<>>) BY DEF w
  <2> HIDE DEF M
  <2> QED BY <2>1, <2>2, <2>3, TellTells
<1>10. M \cap Twice = {} BY <1>5, <1>7, <1>8 DEF Twice
<1>11. \A q \in Parties : /\ Once(party_db_'[q]) /\ In(party_db_'[q]) \subseteq In(party_db_[q])
                          /\ q \notin Known => party_db_'[q] = NoParty
  BY <1>5, <1>6 DEF OnceEach, Unfounded, slots
<1>12. \A q \in Parties, d \in Chars : d \in In(party_db_'[q]) => M \cap Drops(q, d) = {}
  <2>1. \A d \in In(left) : w \notin Drops(p, d) /\ n \notin Drops(p, d) BY <1>5, <1>7, <1>8 DEF Drops
  <2>2. \A q, d : q # p => w \notin Drops(q, d) /\ n \notin Drops(q, d) BY <1>7, <1>8 DEF Drops
  <2>3. party_db_'[p] = left BY <1>1, <1>6
  <2> QED BY <2>1, <2>2, <2>3
<1>13. \A m \in M : m.type \notin {"auth", "registry", "memberadded"} BY <1>7, <1>8
<1> HIDE DEF M
<1> QED BY <1>6, <1>9, <1>10, <1>11, <1>12, <1>13, HeardFewer

\* Somebody leaves, the party with the leader.
LEMMA PartyLeaveInv ==
    ASSUME PartyInv, NEW s \in Servers, mapif_parse_PartyLeave(s)
    PROVE  PartyInv'
<1> USE DEF PartyInv
<1> DEFINE p == Head(up[s]).party
           c == Head(up[s]).char
           slots == party_db_[p]
           i == Min(At(slots, c))
           left == [slots EXCEPT ![i] = Blank]
           others == Among(left, {m \in Range(left) : m.char # 0})
           withdraw == [k \in DOMAIN others |-> Pack("withdraw", p, others[k].char)]
<1>1. /\ Receive(s, "leave") /\ UNCHANGED <<nextid, char_db_, auth_db>> /\ UNCHANGED mapVars
      /\ \/ slots = NoParty /\ Dissolve(p) /\ UNCHANGED down
         \/ slots # NoParty /\ At(slots, c) = {} /\ UNCHANGED <<party_db_, row, down>>
         \/ /\ At(slots, c) # {} /\ (slots[i].leader \/ others = <<>>)
            /\ Dissolve(p)
            /\ Tell(s, <<Pack("withdraw", p, c)>> \o withdraw \o <<Pack("broken", p, 0)>>, <<>>)
         \/ /\ At(slots, c) # {} /\ ~slots[i].leader /\ others # <<>>
            /\ party_db_' = [party_db_ EXCEPT ![p] = left]
            /\ row' = [row EXCEPT ![c] = IF @ = p THEN 0 ELSE @]
            /\ Tell(s, <<Pack("withdraw", p, c), Info(p, left, 0)>>, <<>>)
  BY Zenon DEF mapif_parse_PartyLeave
<1>r. Receive(s, "leave") BY <1>1
<1>2. p \in Known /\ p \in Parties /\ c \in Chars BY <1>r, HeadUp
<1>3. slots \in {NoParty} \cup [Places -> Entry] BY <1>2 DEF Types
<1>4. At(slots, c) # {} => i \in DOMAIN slots /\ slots[i].char = c
  <2>1. DOMAIN slots \subseteq Places BY <1>3, SlotFacts
  <2> HIDE DEF slots, c
  <2> QED BY <2>1, MinAt
<1>5. CASE slots = NoParty /\ Dissolve(p) /\ UNCHANGED down
  <2>1. Tells(Known, {}) BY <1>5, TellsNone
  <2> HIDE DEF p
  <2> QED BY <1>1, <1>2, <1>5, <2>1, DissolveInv
<1>6. CASE slots # NoParty /\ At(slots, c) = {} /\ UNCHANGED <<party_db_, row, down>>
  <2>1. Tells(Known, {}) BY <1>6, TellsNone
  <2>2. party_db_' \in [Parties -> {NoParty} \cup [Places -> Entry]] /\ row' \in [Chars -> Known \cup {0}]
    BY <1>6 DEF Types
  <2>3. \A q \in Parties : /\ Once(party_db_'[q]) /\ In(party_db_'[q]) \subseteq In(party_db_[q])
                           /\ q \notin Known => party_db_'[q] = NoParty
    BY <1>6 DEF OnceEach, Unfounded
  <2> HIDE DEF p, c, slots, i, left, others, withdraw
  <2> QED BY <1>1, <2>1, <2>2, <2>3, HeardFewer
<1>7. CASE /\ At(slots, c) # {} /\ Dissolve(p)
           /\ Tell(s, <<Pack("withdraw", p, c)>> \o withdraw \o <<Pack("broken", p, 0)>>, <<>>)
  <2> DEFINE M == {Pack("withdraw", p, d) : d \in Chars} \cup {Pack("broken", p, 0)}
             a == <<Pack("withdraw", p, c)>>
             b == <<Pack("broken", p, 0)>>
  <2>1. M \in SUBSET DownMsg(Known) BY <1>2, DownPack, DownOther
  <2>2. \A m \in M : m.type \in {"withdraw", "broken"} /\ m.party = p BY DEF Pack
  <2>3. a \in Seq(M) /\ b \in Seq(M) /\ <<>> \in Seq(M) BY <1>2
  <2>4. withdraw \in Seq(M)
    <3>1. left \in Seq(Entry)
      <4>1. Blank \in Entry BY DEF Blank, Entry
      <4>2. i \in DOMAIN slots BY <1>4, <1>7
      <4> HIDE DEF slots, i
      <4>3. left \in {NoParty} \cup [Places -> Entry] BY <1>3, <4>1, <4>2, SlotChange
      <4> HIDE DEF left
      <4> QED BY <4>3, SlotFacts
    <3> HIDE DEF left
    <3>2. others \in Seq(Entry) /\ \A k \in DOMAIN others : others[k] \in {m \in Range(left) : m.char # 0} BY <3>1, AmongFacts
    <3> HIDE DEF others
    <3>3. \A k \in DOMAIN others : others[k].char \in Chars
      <4>1. \A k \in DOMAIN others : others[k] \in Entry /\ others[k].char # 0 BY <3>2
      <4> QED BY <4>1 DEF Entry
    <3>4. \A k \in DOMAIN others : Pack("withdraw", p, others[k].char) \in M BY <3>3
    <3>5. DOMAIN others = 1..Len(others) /\ Len(others) \in Nat BY <3>2
    <3> HIDE DEF M, p
    <3> QED BY <3>4, <3>5
  <2>5. Tell(s, a \o withdraw \o b, <<>>) BY <1>7
  <2> HIDE DEF M, a, b, withdraw, others
  <2>6. a \o withdraw \o b \in Seq(M) BY <2>3, <2>4
  <2>7. Tells(Known, M) BY <2>1, <2>3, <2>5, <2>6, TellTells
  <2>8. Dissolve(p) BY <1>7
  <2> HIDE DEF p, c, slots, i, left
  <2> QED BY <1>1, <1>2, <2>2, <2>7, <2>8, DissolveInv
<1>8. CASE /\ At(slots, c) # {}
           /\ party_db_' = [party_db_ EXCEPT ![p] = left]
           /\ row' = [row EXCEPT ![c] = IF @ = p THEN 0 ELSE @]
           /\ Tell(s, <<Pack("withdraw", p, c), Info(p, left, 0)>>, <<>>)
  <2>1. row' \in [Chars -> Known \cup {0}] BY <1>2, <1>8 DEF Types
  <2>2. i \in DOMAIN slots /\ slots[i].char = c /\ c # 0 /\ Once(slots)
    <3>1. Once(slots) BY <1>2 DEF OnceEach
    <3> HIDE DEF c, slots, i
    <3> QED BY <1>2, <1>4, <1>8, <3>1, PartyAssumption
  <2>3. Blank \in Entry /\ Blank.char = 0 BY DEF Blank, Entry
  <2>l. left \in [Places -> Entry] /\ Once(left) /\ In(left) = In(slots) \ {c}
    <3> HIDE DEF c, slots, i
    <3>1. left \in {NoParty} \cup [Places -> Entry] /\ left # NoParty /\ DOMAIN left = DOMAIN slots
      BY <1>3, <2>2, <2>3, SlotChange
    <3>2. left[i].char = 0 /\ \A k \in DOMAIN slots : k # i => left[k] = slots[k] BY <2>2, <2>3
    <3> HIDE DEF left
    <3> QED BY <2>2, <3>1, <3>2, FreeSlot
  <2>d. slots = party_db_[p] OBVIOUS
  <2> HIDE DEF left, i, slots
  <2>4. PICK n : n = Info(p, left, 0) OBVIOUS
  <2>n. /\ n \in DownMsg(Known) /\ n.type = "info" /\ n.party = p /\ In(n.member) = In(left)
        /\ Once(n.member)
    <3> HIDE DEF p
    <3>1. PICK f : f = left OBVIOUS
    <3>2. PICK q \in Known : q = p BY <1>2
    <3>3. f \in [Places -> Entry] /\ Once(f) /\ n = Info(q, f, 0) BY <2>l, <2>4, <3>1, <3>2
    <3>4. n \in DownMsg(Known) /\ n.type = "info" /\ n.party = q /\ In(n.member) = In(f) /\ Once(n.member)
      BY <3>3, InfoAll
    <3> QED BY <3>1, <3>2, <3>4
  <2>5. Tell(s, <<Pack("withdraw", p, c), n>>, <<>>) BY <1>8, <2>4
  <2>6. party_db_' = [party_db_ EXCEPT ![p] = left] BY <1>8
  <2>7. UNCHANGED <<nextid, char_db_, auth_db>> /\ UNCHANGED mapVars BY <1>1
  <2> HIDE DEF p, c
  <2> QED BY <1>r, <1>2, <2>1, <2>l, <2>d, <2>n, <2>5, <2>6, <2>7, FreedInv
<1> HIDE DEF p, c, slots, i, left, others, withdraw
<1> QED BY <1>1, <1>5, <1>6, <1>7, <1>8

\* A party that is founded: nobody has heard of it.
LEMMA FoundedInv ==
    ASSUME PartyInv, NEW s \in Servers, Receive(s, "create"), UNCHANGED <<char_db_, auth_db>>, UNCHANGED mapVars,
           NEW c \in Chars, NEW p \in Parties, p = nextid, nextid' = nextid + 1, NEW K, K = Known \cup {p},
           NEW slots, slots \in [Places -> Entry], Once(slots), In(slots) = {c},
           party_db_' = [party_db_ EXCEPT ![p] = slots], row' = [row EXCEPT ![c] = p],
           NEW n, n \in DownMsg(K), n.type = "info", n.party = p, In(n.member) = In(slots), Once(n.member),
           Tell(s, <<>>, <<n, Pack("created", p, c)>>)
    PROVE  PartyInv'
<1> USE DEF PartyInv
<1> DEFINE w == Pack("created", p, c)
           M == {n, w}
<1>1. p \notin Known /\ Known \subseteq K /\ K \subseteq Parties /\ p \in K
  <2>1. p \in Nat BY PartyAssumption
  <2> QED BY <2>1 DEF Known
<1>2. Known' = K
  <2>1. nextid \in Nat /\ \A q \in Parties : q \in Nat BY PartyAssumption
  <2>2. \A q \in Parties : q < nextid + 1 <=> q < nextid \/ q = p BY <2>1
  <2>3. Known' = {q \in Parties : q < nextid + 1} BY DEF Known
  <2> QED BY <2>2, <2>3 DEF Known
<1>3. w \in DownMsg(K) /\ w.type = "created"
  <2>1. w \in DownMsg(K) BY <1>1, DownPack
  <2> QED BY <2>1 DEF Pack
<1> HIDE DEF w
<1>4. Tells(K, M)
  <2>1. M \in SUBSET DownMsg(K) BY <1>3
  <2>2. <<n, w>> \in Seq(M) /\ <<>> \in Seq(M) OBVIOUS
  <2>3. Tell(s, <<>>, <<n, w>>) BY DEF w
  <2> HIDE DEF M
  <2> QED BY <1>1, <2>1, <2>2, <2>3, TellTells
<1>5. \A m \in M : m.type \notin {"auth", "registry", "memberadded"} BY <1>3
<1>6. M \cap Twice = {} BY <1>3 DEF Twice
<1> HIDE DEF M
<1>7. Tokens' /\ Joining' BY <1>1, <1>4, <1>5, HeardCalm
<1>8. /\ party_db_' \in [Parties -> {NoParty} \cup [Places -> Entry]]
      /\ \A q \in Parties : party_db_'[q] = IF q = p THEN slots ELSE party_db_[q]
  <2>1. slots \in {NoParty} \cup [Places -> Entry] OBVIOUS
  <2> QED BY <2>1, DbSet
<1>9. row' \in [Chars -> K \cup {0}] /\ char_db_' \in [Chars -> K \cup {0, -1}] /\ auth_db' \subseteq Chars BY <1>1 DEF Types
<1>10. \A q \in Parties : Once(party_db_'[q]) /\ (q \notin K => party_db_'[q] = NoParty)
  BY <1>1, <1>8 DEF OnceEach, Unfounded
<1>11. ASSUME NEW t \in Servers PROVE ~Occ(up'[t], Again')
  <2>1. ~Occ(up'[t], Again) BY ReceiveCalm DEF Timely
  <2>2. up'[t] \in Seq(UpMsg(Known)) BY ReceiveEffect
  <2>3. \A i \in DOMAIN up'[t] : up'[t][i] \in UpMsg(Known) BY <2>2
  <2>4. \A m \in UpMsg(Known) : m \in Again' => m \in Again
    <3>1. \A m \in UpMsg(Known) : m.type = "addmember" => m.party \in Known /\ m.party \in Parties BY DEF UpMsg, Known
    <3> QED BY <1>1, <1>8, <3>1 DEF Again
  <2> QED BY <2>1, <2>3, <2>4 DEF Occ
<1>12. Invites'
  <2>1. \A d \in Chars : sd[d].party_invite \in Known \cup {0} BY DEF Types, Session
  <2>2. \A q \in Known : party_db_'[q] = party_db_[q] BY <1>1, <1>8
  <2>3. UNCHANGED <<where, sd>> BY DEF mapVars
  <2> QED BY <2>1, <2>2, <2>3 DEF Invites
<1>13. ASSUME NEW t \in Servers, NEW q \in Parties, NEW d \in Chars, d \in In(party_db_'[q])
       PROVE  Listed(t, q, d)'
  <2>1. CASE q = p
    <3>1. d = c BY <1>8, <1>13, <2>1
    <3>2. party'[t][p] = NoParty BY <1>1 DEF Unfounded, mapVars
    <3>3. ~Lacks(t, p, d)' BY <3>2 DEF Lacks
    <3>4. ~Occ(down[t], Drops(p, d))
      <4>1. \A i \in DOMAIN down[t] : down[t][i] \in DownMsg(Known)
        <5>1. down[t] \in Seq(DownMsg(Known)) BY DEF Types
        <5> QED BY <5>1
      <4>2. \A m \in DownMsg(Known) : m.type \in {"info", "withdraw"} => m.party \in Known BY DEF DownMsg
      <4> QED BY <1>1, <4>1, <4>2 DEF Occ, Drops
    <3>5. M \cap Drops(p, d) = {} BY <1>3, <3>1 DEF Drops, M
    <3>6. ~Occ(down'[t], Drops(p, d)) BY <1>1, <1>4, <3>4, <3>5, TellsCalm
    <3> QED BY <2>1, <3>3, <3>6, ListedNone
  <2>2. CASE q # p
    <3>1. Listed(t, q, d) BY <1>8, <1>13, <2>2 DEF Lists
    <3>2. M \cap Drops(q, d) = {} BY <1>3, <2>2 DEF Drops, M
    <3>3. UNCHANGED <<where, party>> BY DEF mapVars
    <3> QED BY <1>1, <1>4, <3>1, <3>2, <3>3, TellsListed
  <2> QED BY <2>1, <2>2
<1>14. Lists' BY <1>13 DEF Lists
<1>15. nextid' \in {nextid, nextid + 1} OBVIOUS
<1>16. /\ Tells(Known', M) /\ row' \in [Chars -> Known' \cup {0}] /\ char_db_' \in [Chars -> Known' \cup {0, -1}]
       /\ \A q \in Parties : Once(party_db_'[q]) /\ (q \notin Known' => party_db_'[q] = NoParty)
  BY <1>2, <1>4, <1>9, <1>10
<1> QED BY <1>6, <1>7, <1>8, <1>9, <1>11, <1>12, <1>14, <1>15, <1>16, HeardStep

\* A party is founded, or its name is refused.
LEMMA CreatePartyInv ==
    ASSUME PartyInv, NEW s \in Servers, mapif_parse_CreateParty(s)
    PROVE  PartyInv'
<1> USE DEF PartyInv
<1> DEFINE c == Head(up[s]).char
           slots == [Slots(Blank) EXCEPT ![1] = [char |-> c, leader |-> TRUE, online |-> TRUE]]
<1>1. /\ Receive(s, "create") /\ UNCHANGED mapVars
      /\ \/ /\ Tell(s, <<>>, <<[Pack("created", 0, c) EXCEPT !.flag = TRUE]>>)
            /\ UNCHANGED charVars
         \/ /\ nextid \in Parties /\ nextid' = nextid + 1
            /\ party_db_' = [party_db_ EXCEPT ![nextid] = slots]
            /\ row' = [row EXCEPT ![c] = nextid]
            /\ Tell(s, <<>>, <<Info(nextid, slots, 0), Pack("created", nextid, c)>>)
            /\ UNCHANGED <<char_db_, auth_db>>
  BY Zenon DEF mapif_parse_CreateParty
<1>r. Receive(s, "create") BY <1>1
<1>2. c \in Chars BY <1>r, HeadUp
<1>3. CASE /\ Tell(s, <<>>, <<[Pack("created", 0, c) EXCEPT !.flag = TRUE]>>)
           /\ UNCHANGED charVars
  <2> DEFINE m == Plain("created", 0, c, TRUE)
  <2>1. m \in DownMsg(Known) BY <1>2, DownFail
  <2>2. Tell(s, <<>>, <<m>>)
    <3>1. [Pack("created", 0, c) EXCEPT !.flag = TRUE] = m BY FlagIs
    <3> HIDE DEF m
    <3> QED BY <1>3, <3>1, Zenon
  <2>3. m.type = "created" BY DEF Plain
  <2> HIDE DEF m, c, slots
  <2>4. Tells(Known, {m}) BY <2>1, <2>2, TellOne
  <2>5. UNCHANGED <<party_db_, nextid, row, char_db_, auth_db>> BY <1>3 DEF charVars
  <2>6. {m} \cap Twice = {} /\ \A q, d : {m} \cap Drops(q, d) = {} BY <2>3, NoDrops
  <2>7. party_db_' \in [Parties -> {NoParty} \cup [Places -> Entry]] /\ row' \in [Chars -> Known \cup {0}]
    BY <2>5 DEF Types
  <2>8. \A q \in Parties : /\ Once(party_db_'[q]) /\ In(party_db_'[q]) \subseteq In(party_db_[q])
                           /\ q \notin Known => party_db_'[q] = NoParty
    BY <2>5 DEF OnceEach, Unfounded
  <2>9. \A x \in {m} : x.type \notin {"auth", "registry", "memberadded"} BY <2>3
  <2> QED BY <1>1, <2>4, <2>5, <2>6, <2>7, <2>8, <2>9, HeardFewer
<1>4. CASE /\ nextid \in Parties /\ nextid' = nextid + 1
           /\ party_db_' = [party_db_ EXCEPT ![nextid] = slots]
           /\ row' = [row EXCEPT ![c] = nextid]
           /\ Tell(s, <<>>, <<Info(nextid, slots, 0), Pack("created", nextid, c)>>)
           /\ UNCHANGED <<char_db_, auth_db>>
  <2> HIDE DEF c
  <2>1. /\ slots \in [Places -> Entry] /\ slots[1].char = c
        /\ \A i \in Places : i # 1 => slots[i].char = 0
    <3>1. Slots(Blank) = [i \in Places |-> Blank] BY DEF Slots, Places
    <3>2. 1 \in Places BY PartyAssumption DEF Places
    <3>3. Blank \in Entry /\ Blank.char = 0 BY DEF Blank, Entry
    <3> DEFINE e == [char |-> c, leader |-> TRUE, online |-> TRUE]
    <3>4. e \in Entry /\ e.char = c BY <1>2 DEF Entry
    <3> HIDE DEF e
    <3>5. slots = [[i \in Places |-> Blank] EXCEPT ![1] = e] BY <3>1 DEF e
    <3> HIDE DEF slots
    <3> QED BY <3>2, <3>3, <3>4, <3>5
  <2> HIDE DEF slots
  <2>2. 1 \in Places /\ 0 \notin Chars BY PartyAssumption DEF Places
  <2>3. Once(slots) BY <2>1 DEF Once
  <2>4. In(slots) = {c} BY <1>2, <2>1, <2>2 DEF In
  <2>5. PICK p \in Parties : p = nextid BY <1>4
  <2>6. PICK K : K = Known \cup {p} OBVIOUS
  <2>7. PICK f : f = slots OBVIOUS
  <2>8. PICK n : n = Info(p, f, 0) OBVIOUS
  <2>9. f \in [Places -> Entry] /\ Once(f) /\ In(f) = {c} BY <2>1, <2>3, <2>4, <2>7
  <2>10. n \in DownMsg(K) /\ n.type = "info" /\ n.party = p /\ In(n.member) = In(f) /\ Once(n.member)
    <3>1. p \in K BY <2>6
    <3> QED BY <2>8, <2>9, <3>1, InfoAll
  <2>11. Tell(s, <<>>, <<n, Pack("created", p, c)>>) BY <1>4, <2>5, <2>7, <2>8, Zenon
  <2>12. party_db_' = [party_db_ EXCEPT ![p] = f] /\ row' = [row EXCEPT ![c] = p] BY <1>4, <2>5, <2>7
  <2>13. nextid' = nextid + 1 /\ UNCHANGED <<char_db_, auth_db>> /\ UNCHANGED mapVars BY <1>1, <1>4
  <2> QED BY <1>r, <1>2, <2>5, <2>6, <2>9, <2>10, <2>11, <2>12, <2>13, FoundedInv
<1> HIDE DEF c, slots
<1> QED BY <1>1, <1>3, <1>4

\* The packet a character is under way in.
LEMMA TokenUp ==
    ASSUME Types, NEW c \in Chars, Token(c), NEW s \in Servers, up[s] # <<>>, Head(up[s]) \in UpToken(c)
    PROVE  /\ where[c] = 0 /\ c \notin auth_db
           /\ \A t \in Servers : ~Occ(down[t], DownToken(c))
           /\ ~Occ(Tail(up[s]), UpToken(c)) /\ \A t \in Servers : t # s => ~Occ(up[t], UpToken(c))
<1>1. up[s] \in Seq(UpMsg(Known)) BY DEF Types
<1>2. Occ(up[s], UpToken(c)) /\ (One(up[s], UpToken(c)) => ~Occ(Tail(up[s]), UpToken(c)))
  BY <1>1, TailKeeps
<1> QED BY <1>2 DEF Token

\* A character is saved, and leaves or not.
LEMMA SaveInv ==
    ASSUME PartyInv, NEW s \in Servers, chmapif_parse_reqsavechar(s)
    PROVE  PartyInv'
<1> USE DEF PartyInv
<1> DEFINE p0 == Head(up[s]).party
           c0 == Head(up[s]).char
<1>1. PICK type \in {"save", "quit", "move"} :
         /\ Receive(s, type)
         /\ row' \in {[row EXCEPT ![c0] = p0]} \cup (IF char_db_[c0] = p0 THEN {row} ELSE {})
         /\ char_db_' = [char_db_ EXCEPT ![c0] = IF type = "quit" THEN -1 ELSE p0]
         /\ auth_db' = IF type = "move" THEN auth_db \cup {c0} ELSE auth_db
  BY Zenon DEF chmapif_parse_reqsavechar
<1>2. UNCHANGED <<party_db_, nextid>> /\ UNCHANGED mapVars /\ UNCHANGED down BY DEF chmapif_parse_reqsavechar
<1>0. UNCHANGED <<where, sd, party, crashed>> BY <1>2 DEF mapVars
<1>3. p0 \in Known \cup {0} /\ c0 \in Chars /\ Head(up[s]) \in UpMsg(Parties) /\ Head(up[s]).type = type BY <1>1, HeadUp
<1>p. PICK p \in Known \cup {0} : p = p0 BY <1>3
<1>c. PICK c \in Chars : c = c0 BY <1>3
<1>4. row' = [row EXCEPT ![c] = p] \/ row' = row BY <1>1, <1>p, <1>c
<1>5. char_db_' = [char_db_ EXCEPT ![c] = IF type = "quit" THEN -1 ELSE p] BY <1>1, <1>p, <1>c
<1>6. auth_db' = IF type = "move" THEN auth_db \cup {c} ELSE auth_db BY <1>1, <1>c
<1>h. type # "save" => Head(up[s]) \in UpToken(c) BY <1>3, <1>c DEF UpToken, Up
<1> HIDE DEF p0, c0
<1>7. row' \in [Chars -> Known \cup {0}] BY <1>4 DEF Types
<1>8. /\ char_db_' \in [Chars -> Known \cup {0, -1}] /\ auth_db' \subseteq Chars
      /\ \A d \in Chars : d # c => char_db_'[d] = char_db_[d]
      /\ type # "quit" => char_db_'[c] = p
  BY <1>5, <1>6 DEF Types
<1>k. Known \subseteq Nat BY PartyAssumption DEF Known
<1>9. p # -1 BY <1>k
<1>10. Tells(Known, {}) BY <1>2, TellsNone
<1>11. Known' = Known /\ Known \subseteq Parties BY <1>2 DEF Known
<1>12. ASSUME NEW d \in Chars PROVE CalmFor(d)
  <2>1. {} \cap DownOf(d) = {} OBVIOUS
  <2> QED BY <1>1, <1>10, <1>11, <2>1, ReceiveCalm, TellsCalm DEF CalmFor
<1>13. ASSUME NEW d \in Chars PROVE Token(d)'
  <2>0. Token(d) BY DEF Tokens
  <2>1. TokenCalm(d) BY <1>12, CalmIsTokenCalm
  <2>2. CASE d # c \/ type # "move"
    <3>1. d \in auth_db' => d \in auth_db BY <1>6, <2>2
    <3>2. d = c /\ type = "quit" => d \notin auth_db
      <4> SUFFICES ASSUME d = c, type = "quit" PROVE d \notin auth_db OBVIOUS
      <4>1. up[s] # <<>> BY <1>1, ReceiveEffect
      <4> QED BY <1>h, <2>0, <4>1, TokenUp
    <3>3. d \in auth_db' => d \in auth_db /\ (char_db_'[d] = char_db_[d] \/ char_db_'[d] # -1)
      BY <1>8, <1>9, <2>2, <3>1, <3>2
    <3> QED BY <1>0, <2>0, <2>1, <3>3, CalmToken
  <2>3. CASE d = c /\ type = "move"
    <3>1. up[s] # <<>> /\ up'[s] = Tail(up[s]) /\ \A t \in Servers : t # s => up'[t] = up[t] BY <1>1, ReceiveEffect
    <3>2. /\ where[d] = 0 /\ \A t \in Servers : ~Occ(down[t], DownToken(d))
          /\ ~Occ(Tail(up[s]), UpToken(d)) /\ \A t \in Servers : t # s => ~Occ(up[t], UpToken(d))
      BY <1>h, <2>0, <2>3, <3>1, TokenUp
    <3>3. \A t \in Servers : ~Occ(up'[t], UpToken(d)) /\ ~Occ(down'[t], DownToken(d)) BY <1>2, <3>1, <3>2
    <3>4. \A t \in Servers : One(up'[t], UpToken(d)) /\ One(down'[t], DownToken(d)) BY <3>3, Without
    <3>5. where'[d] = 0 /\ char_db_'[d] # -1 BY <1>0, <1>8, <1>9, <2>3, <3>2
    <3>6. UpToken(d)' = UpToken(d) /\ DownToken(d)' = DownToken(d) BY DEF UpToken, DownToken
    <3> QED BY <3>3, <3>4, <3>5, <3>6 DEF Token
  <2> QED BY <2>2, <2>3
<1>14. Tokens' BY <1>13 DEF Tokens
<1>15. Joining' BY <1>0, <1>12, CalmJoins DEF Joining
<1>16. Invites' BY <1>0, <1>2 DEF Invites
<1>17. Lists'
  <2> SUFFICES ASSUME NEW t \in Servers, NEW q \in Parties, NEW d \in Chars, d \in In(party_db_'[q]) PROVE Listed(t, q, d)'
    BY DEF Lists
  <2>1. Listed(t, q, d) /\ {} \cap Drops(q, d) = {} BY <1>2 DEF Lists
  <2> QED BY <1>0, <1>10, <1>11, <2>1, TellsListed
<1>18. \A t \in Servers : ~Occ(up'[t], Again')
  <2> TAKE t \in Servers
  <2>1. Again' = Again BY <1>2 DEF Again
  <2>2. ~Occ(up[t], Again) BY DEF Timely
  <2> QED BY <1>1, <2>1, <2>2, ReceiveCalm
<1>19. /\ party_db_' \in [Parties -> {NoParty} \cup [Places -> Entry]]
       /\ \A q \in Parties : Once(party_db_'[q]) /\ (q \notin Known' => party_db_'[q] = NoParty)
  BY <1>2, <1>11 DEF Types, OnceEach, Unfounded
<1>20. /\ Tells(Known', {}) /\ row' \in [Chars -> Known' \cup {0}] /\ char_db_' \in [Chars -> Known' \cup {0, -1}]
       /\ {} \cap Twice = {} /\ nextid' \in {nextid, nextid + 1}
  BY <1>2, <1>7, <1>8, <1>10, <1>11
<1> QED BY <1>1, <1>2, <1>8, <1>14, <1>15, <1>16, <1>17, <1>18, <1>19, <1>20, HeardStep

\* A character is under way in one packet only: one that comes down when none does.
LEMMA TokenDown ==
    ASSUME Types, NEW c \in Chars, NEW s \in Servers, NEW m, NEW r \in Seq({m}), Len(r) <= 1,
           down'[s] = down[s] \o r, \A t \in Servers : t # s => down'[t] = down[t],
           \A t \in Servers : ~Occ(up'[t], UpToken(c)) /\ ~Occ(down[t], DownToken(c)),
           where'[c] = 0, c \notin auth_db', m \in DownMsg(Parties)
    PROVE  Token(c)'
<1>1. UpToken(c)' = UpToken(c) /\ DownToken(c)' = DownToken(c) BY DEF UpToken, DownToken
<1>2. down[s] \in Seq(DownMsg(Parties)) BY Queues
<1>3. r \in Seq(DownMsg(Parties)) /\ One(r, DownToken(c)) BY DEF One
<1>4. One(down[s], DownToken(c)) BY Without
<1>5. One(down'[s], DownToken(c)) BY <1>2, <1>3, <1>4, JoinOcc
<1>6. \A t \in Servers : One(up'[t], UpToken(c)) BY Without
<1>7. \A t \in Servers : t # s => ~Occ(down'[t], DownToken(c)) /\ One(down'[t], DownToken(c)) BY Without
<1> QED BY <1>1, <1>5, <1>6, <1>7 DEF Token

\* One answer.
LEMMA AnswerOne ==
    ASSUME Types, Gone, NEW s \in Servers, s \notin crashed, NEW m \in DownMsg(Known), Tell(s, <<>>, <<m>>)
    PROVE  /\ Tells(Known, {m})
           /\ \E r \in Seq({m}) : Len(r) <= 1 /\ down'[s] = down[s] \o r
           /\ \A t \in Servers : t # s => down'[t] = down[t]
<1>1. Tells(Known, {m}) BY TellOne
<1>2. PICK b : b = <<m>> OBVIOUS
<1>3. b \in Seq({m}) /\ Len(b) <= 1 /\ b \in Seq(DownMsg(Known)) /\ <<>> \in Seq(DownMsg(Known)) BY <1>2
<1>4. Tell(s, <<>>, b) BY <1>2
<1>5. \A t \in crashed : down'[t] = down[t] BY <1>1 DEF Tells
<1>6. Told(s, <<>>, b) BY <1>3, <1>4, TellEffect
<1>7. <<>> \o b = b /\ <<>> \o <<>> = <<>> BY <1>3
<1>8. \A t \in Servers : down[t] \o <<>> = down[t]
  <2>1. \A t \in Servers : down[t] \in Seq(DownMsg(Known)) BY DEF Types
  <2> QED BY <2>1, JoinJoin
<1>9. down'[s] = down[s] \o b BY <1>6, <1>7 DEF Told
<1>10. \A t \in Servers : t # s => down'[t] = down[t] BY <1>5, <1>6, <1>7, <1>8 DEF Told
<1> QED BY <1>1, <1>3, <1>9, <1>10

\* A character comes down to s in a packet.
LEMMA DownInv ==
    ASSUME PartyInv, NEW s \in Servers, s \notin crashed, NEW c \in Chars, NEW m \in DownMsg(Known),
           m.type \in {"auth", "registry"}, m.char = c, Tell(s, <<>>, <<m>>), where[c] = 0, c \notin auth_db',
           \A t \in Servers : ~Occ(up'[t], UpToken(c)) /\ ~Occ(down[t], DownToken(c)),
           up' \in [Servers -> Seq(UpMsg(Known))], \A t \in crashed : up'[t] = <<>>,
           \A t \in Servers : ~Occ(up'[t], Again) /\ \A d \in Chars : Calm(up[t], up'[t], UpMsg(Parties), UpOf(d)),
           UNCHANGED <<party_db_, nextid, row>>, UNCHANGED mapVars, char_db_' \in [Chars -> Known \cup {0, -1}],
           auth_db' \subseteq auth_db, \A d \in Chars : d # c => char_db_'[d] = char_db_[d]
    PROVE  PartyInv'
<1> USE DEF PartyInv
<1>0. UNCHANGED <<where, sd, party, crashed>> BY DEF mapVars
<1>1. Tells(Known, {m}) /\ \A t \in Servers : t # s => down'[t] = down[t] BY AnswerOne
<1>2. PICK r \in Seq({m}) : Len(r) <= 1 /\ down'[s] = down[s] \o r BY AnswerOne
<1>3. Known' = Known /\ Known \subseteq Parties BY DEF Known
<1>4. m \in DownMsg(Parties) BY Queues
<1>5. Token(c)' BY <1>0, <1>1, <1>2, <1>4, TokenDown
<1>6. ASSUME NEW d \in Chars, d # c PROVE CalmFor(d)
  <2>1. {m} \cap DownOf(d) = {} BY <1>6 DEF DownOf, Down
  <2> QED BY <1>1, <1>3, <2>1, TellsCalm DEF CalmFor
<1>7. ASSUME NEW d \in Chars, d # c PROVE Token(d)' /\ Joins(d)'
  <2>1. Token(d) /\ TokenCalm(d) BY <1>6, <1>7, CalmIsTokenCalm DEF Tokens
  <2>2. Token(d)' BY <1>0, <1>7, <2>1, CalmToken
  <2>3. Joins(d)' BY <1>0, <1>6, <1>7, CalmJoins DEF Joining
  <2> QED BY <2>2, <2>3
<1>8. JoinCalm(c)
  <2>1. {m} \cap Added(c) = {} BY DEF Added, Down
  <2>2. \A t \in Servers : Calm(down[t], down'[t], DownMsg(Parties), Added(c)) BY <1>1, <1>3, <2>1, TellsCalm
  <2>3. \A t \in Servers : Ahead(down[t], Added(c), DownToken(c)) BY DEF Joining, Joins
  <2>4. Ahead(down'[s], Added(c), DownToken(c))
    <3>1. r \in Seq(DownMsg(Parties)) /\ down[s] \in Seq(DownMsg(Parties)) BY <1>4, Queues
    <3>2. ~Occ(r, Added(c)) BY <2>1 DEF Occ
    <3> QED BY <1>2, <2>3, <3>1, <3>2, JoinAhead
  <2> QED BY <1>1, <2>2, <2>3, <2>4 DEF JoinCalm
<1>9. Joins(c)' BY <1>0, <1>8, CalmJoinsAhead DEF Joining
<1>10. Tokens' /\ Joining' BY <1>5, <1>7, <1>9 DEF Tokens, Joining
<1>11. Invites' BY <1>0 DEF Invites
<1>12. {m} \cap Twice = {} /\ \A p, d : {m} \cap Drops(p, d) = {} BY NoDrops
<1>13. Lists'
  <2> SUFFICES ASSUME NEW t \in Servers, NEW q \in Parties, NEW d \in Chars, d \in In(party_db_'[q]) PROVE Listed(t, q, d)'
    BY DEF Lists
  <2>1. Listed(t, q, d) BY DEF Lists
  <2> QED BY <1>0, <1>1, <1>3, <1>12, <2>1, TellsListed
<1>14. Again' = Again BY DEF Again
<1>15. /\ party_db_' \in [Parties -> {NoParty} \cup [Places -> Entry]] /\ row' \in [Chars -> Known' \cup {0}]
       /\ \A q \in Parties : Once(party_db_'[q]) /\ (q \notin Known' => party_db_'[q] = NoParty)
  BY <1>3 DEF Types, OnceEach, Unfounded
<1>16. /\ Tells(Known', {m}) /\ char_db_' \in [Chars -> Known' \cup {0, -1}] /\ auth_db' \subseteq Chars
       /\ nextid' \in {nextid, nextid + 1} /\ \A t \in Servers : ~Occ(up'[t], Again')
  BY <1>1, <1>3, <1>14 DEF Types
<1> QED BY <1>10, <1>11, <1>12, <1>13, <1>15, <1>16, CharStepInv

\* The registry is sent down as it was asked for.
LEMMA RegistryInv ==
    ASSUME PartyInv, NEW s \in Servers, mapif_parse_Registry(s)
    PROVE  PartyInv'
<1> USE DEF PartyInv
<1>1. Receive(s, "registry") /\ UNCHANGED charVars /\ UNCHANGED mapVars /\ Tell(s, <<>>, <<Head(up[s])>>)
  BY DEF mapif_parse_Registry
<1>0. UNCHANGED <<party_db_, nextid, row, char_db_, auth_db>> BY <1>1 DEF charVars
<1>2. PICK m : m = Head(up[s]) OBVIOUS
<1>3. Tell(s, <<>>, <<m>>) BY <1>1, <1>2, Zenon
<1>4. m \in UpMsg(Known) /\ m \in UpMsg(Parties) /\ m.type = "registry" /\ m.char \in Chars BY <1>1, <1>2, HeadUp
<1>5. m \in DownMsg(Known) BY <1>4 DEF UpMsg, DownMsg, Packet, DownTypes
<1>6. PICK c \in Chars : c = m.char BY <1>4
<1>7. Head(up[s]) \in UpToken(c) BY <1>2, <1>4, <1>6 DEF UpToken, Up
<1>8. /\ up' \in [Servers -> Seq(UpMsg(Known))] /\ up[s] # <<>>
      /\ up'[s] = Tail(up[s]) /\ \A t \in Servers : t # s => up'[t] = up[t]
  BY <1>1, ReceiveEffect
<1>9. Token(c) BY DEF Tokens
<1>10. /\ where[c] = 0 /\ c \notin auth_db /\ \A t \in Servers : ~Occ(down[t], DownToken(c))
       /\ \A t \in Servers : ~Occ(up'[t], UpToken(c))
  BY <1>7, <1>8, <1>9, TokenUp
<1>11. s \notin crashed BY <1>8 DEF Gone
<1>12. \A t \in crashed : t \in Servers /\ t # s BY <1>11 DEF Types
<1>13. \A t \in crashed : up'[t] = <<>> BY <1>8, <1>12 DEF Gone
<1>14. \A t \in Servers : ~Occ(up'[t], Again) /\ \A d \in Chars : Calm(up[t], up'[t], UpMsg(Parties), UpOf(d))
  BY <1>1, ReceiveCalm DEF Timely
<1>15. char_db_' \in [Chars -> Known \cup {0, -1}] BY <1>0 DEF Types
<1> QED BY <1>0, <1>1, <1>3, <1>4, <1>5, <1>6, <1>8, <1>10, <1>11, <1>13, <1>14, <1>15, DownInv

\* A character is let in when nothing of it is under way.
LEMMA AuthInv ==
    ASSUME PartyInv, NEW c \in Chars, NEW s \in Servers, chmapif_parse_reqauth(c, s)
    PROVE  PartyInv'
<1> USE DEF PartyInv
<1>1. /\ where[c] = 0 /\ s \notin crashed /\ ~Pending(c) /\ auth_db' = auth_db \ {c}
      /\ UNCHANGED <<party_db_, nextid, row>> /\ UNCHANGED mapVars /\ UNCHANGED up
  BY DEF chmapif_parse_reqauth
<1>2. PICK p \in {row[c]} \cup (IF c \in auth_db THEN {char_db_[c]} ELSE {}) :
         char_db_' = [char_db_ EXCEPT ![c] = p] /\ Tell(s, <<>>, <<Pack("auth", p, c)>>)
  BY DEF chmapif_parse_reqauth
<1>3. p \in Known \cup {0}
  <2>1. row[c] \in Known \cup {0} /\ char_db_[c] \in Known \cup {0, -1} BY DEF Types
  <2>2. c \in auth_db => char_db_[c] # -1 BY DEF Tokens, Token
  <2> QED BY <1>2, <2>1, <2>2
<1>4. PICK m : m = Pack("auth", p, c) OBVIOUS
<1>5. m \in DownMsg(Known) /\ m.type = "auth" /\ m.char = c
  <2>1. Pack("auth", p, c) \in DownMsg(Known)
    <3>1. CASE Known = {} BY <1>3, <3>1 DEF Pack, DownMsg, Packet, DownTypes
    <3>2. CASE Known # {} BY <1>3, <3>2, DownOther
    <3> QED BY <3>1, <3>2
  <2>2. m.type = "auth" /\ m.char = c BY <1>4 DEF Pack
  <2> QED BY <1>4, <2>1, <2>2
<1>6. Tell(s, <<>>, <<m>>) BY <1>2, <1>4, Zenon
<1>7. \A t \in Servers : ~Occ(up[t], UpToken(c)) /\ ~Occ(down[t], DownToken(c))
  BY <1>1 DEF Pending, Occ, UpToken, DownToken, Up, Down
<1>8. /\ char_db_' \in [Chars -> Known \cup {0, -1}] /\ \A d \in Chars : d # c => char_db_'[d] = char_db_[d]
  BY <1>2, <1>3 DEF Types
<1>9. \A t \in Servers : ~Occ(up'[t], Again) /\ \A d \in Chars : Calm(up[t], up'[t], UpMsg(Parties), UpOf(d))
  <2>1. \A t \in Servers : up[t] \in Seq(UpMsg(Parties)) BY Queues
  <2> QED BY <1>1, <2>1, CalmIs DEF Timely
<1>10. up' \in [Servers -> Seq(UpMsg(Known))] /\ \A t \in crashed : up'[t] = <<>> BY <1>1 DEF Types, Gone
<1>11. c \notin auth_db' /\ auth_db' \subseteq auth_db /\ \A t \in Servers : ~Occ(up'[t], UpToken(c)) BY <1>1, <1>7
<1> QED BY <1>1, <1>5, <1>6, <1>7, <1>8, <1>9, <1>10, <1>11, DownInv

\* A request to join that has reached the char-server is the only one. Its character waits on
\* that map-server, or its leaving follows; so it is under way in no packet to a map-server.
LEMMA AddHead ==
    ASSUME Types, NEW c \in Chars, Token(c), Joins(c), NEW s \in Servers, up[s] # <<>>, Head(up[s]) \in Add(c)
    PROVE  /\ ~Occ(Tail(up[s]), Add(c)) /\ \A t \in Servers : t # s => ~Occ(up[t], Add(c))
           /\ (where[c] = s /\ sd[c].party_joining /\ ~Occ(down[s], Added(c))) \/ where[c] = 0
           /\ \A t \in Servers : ~Occ(down[t], DownToken(c)) /\ ~Occ(up[t], Up(c, {"registry"}))
<1>1. up[s] \in Seq(UpMsg(Known)) BY DEF Types
<1>2. Occ(up[s], Add(c)) /\ (One(up[s], Add(c)) => ~Occ(Tail(up[s]), Add(c))) BY <1>1, TailKeeps
<1>3. ~Occ(Tail(up[s]), Add(c)) /\ \A t \in Servers : t # s => ~Occ(up[t], Add(c)) BY <1>2 DEF Joins
<1>4. ASSUME NEW t \in Servers, Occ(up[t], Up(c, {"registry"})) PROVE Occ(up[t], UpToken(c))
  BY <1>4 DEF Occ, Up, UpToken
<1>5. 0 \notin Servers BY PartyAssumption
<1>6. CASE where[c] = s /\ sd[c].party_joining
  <2>1. ~Occ(down[s], Added(c)) BY <1>2, <1>6 DEF Joins
  <2>2. \A t \in Servers : ~Occ(up[t], UpToken(c)) /\ ~Occ(down[t], DownToken(c)) BY <1>5, <1>6 DEF Token
  <2> QED BY <1>3, <1>4, <1>6, <2>1, <2>2
<1>7. CASE where[c] = 0 /\ Occ(up[s], UpToken(c)) /\ Occ(up[s], Up(c, {"quit", "move"}))
  <2>1. \A t \in Servers : ~Occ(down[t], DownToken(c)) BY <1>7 DEF Token
  <2>2. ASSUME NEW t \in Servers, Occ(up[t], Up(c, {"registry"})) PROVE FALSE
    <3>1. Occ(up[t], UpToken(c)) BY <1>4, <2>2
    <3>2. t = s BY <1>7, <3>1 DEF Token
    <3>3. PICK i \in DOMAIN up[s] : up[s][i] \in Up(c, {"registry"}) BY <2>2, <3>2 DEF Occ
    <3>4. PICK j \in DOMAIN up[s] : up[s][j] \in Up(c, {"quit", "move"}) BY <1>7 DEF Occ
    <3>5. up[s][i] \in UpToken(c) /\ up[s][j] \in UpToken(c) BY <3>3, <3>4 DEF Up, UpToken
    <3>6. i = j BY <3>5 DEF Token, One
    <3> QED BY <3>3, <3>4, <3>6 DEF Up
  <2> QED BY <1>3, <1>7, <2>1, <2>2
<1> QED BY <1>2, <1>6, <1>7, AddMeans

\* The answer is the only one that the character can hear.
LEMMA AnsweredJoins ==
    ASSUME Types, NEW c \in Chars, Token(c), Joins(c), NEW s \in Servers, NEW type, Receive(s, type), Head(up[s]) \in Add(c),
           UNCHANGED mapVars, NEW M, Tells(Known, M), M \cap DownToken(c) = {}, where[c] = s => One(down'[s], Added(c))
    PROVE  Joins(c)' /\ \A t \in Servers : ~Occ(up'[t], Add(c))
<1>0. UNCHANGED <<where, sd, party, crashed>> BY DEF mapVars
<1>1. up[s] # <<>> /\ up'[s] = Tail(up[s]) /\ \A t \in Servers : t # s => up'[t] = up[t] BY ReceiveEffect
<1>2. /\ \A t \in Servers : ~Occ(up'[t], Add(c))
      /\ (where[c] = s /\ sd[c].party_joining) \/ where[c] = 0
      /\ \A t \in Servers : ~Occ(down[t], DownToken(c)) /\ ~Occ(up[t], Up(c, {"registry"}))
  BY <1>1, AddHead
<1>3. \A t \in Servers : ~Occ(up'[t], Up(c, {"registry"})) BY <1>2, ReceiveCalm
<1>k. Known \subseteq Parties BY Queues
<1>4. \A t \in Servers : ~Occ(down'[t], DownToken(c)) BY <1>2, <1>k, TellsCalm
<1>5. \A t \in Servers : /\ Followed(up'[t], Add(c), Up(c, {"quit", "move"})) /\ One(up'[t], Add(c))
                         /\ Ahead(down'[t], Added(c), DownToken(c))
  BY <1>2, <1>4, Without
<1>6. 0 \notin Servers BY PartyAssumption
<1>7. \A t \in Servers : Occ(down'[t], Added(c)) =>
          /\ where'[c] = t => sd'[c].party_joining /\ One(down'[t], Added(c)) /\ ~Occ(up'[t], Add(c))
          /\ ~Occ(up'[t], Up(c, {"registry"}))
  BY <1>0, <1>2, <1>3, <1>6
<1>8. Add(c)' = Add(c) /\ Added(c)' = Added(c) /\ DownToken(c)' = DownToken(c) BY DEF Add, Added, DownToken
<1>9. Joins(c)' BY <1>2, <1>5, <1>7, <1>8 DEF Joins
<1> QED BY <1>2, <1>9

\* A slot that is filled.
LEMMA TakeSlot ==
    ASSUME NEW slots, Once(slots), NEW c, c # 0, c \notin In(slots), NEW i, i \in DOMAIN slots, slots[i].char = 0,
           NEW new, DOMAIN new = DOMAIN slots, new[i].char = c, \A k \in DOMAIN slots : k # i => new[k] = slots[k]
    PROVE  Once(new) /\ In(new) = In(slots) \cup {c}
<1>1. \A k \in DOMAIN slots : slots[k].char # c BY DEF In
<1>2. Once(new) BY <1>1 DEF Once
<1>3. In(new) = In(slots) \cup {c} BY DEF In
<1> QED BY <1>2, <1>3

\* What all are told, and what one is told then.
BothTold(s, n, m) ==
    \A t \in Servers \ crashed : \E r \in Seq({n, m}) :
        /\ down'[t] = down[t] \o r /\ 1 \in DOMAIN r /\ r[1] = n
        /\ \A i \in DOMAIN r : i = 1 \/ (i = 2 /\ r[i] = m)
        /\ t = s => 2 \in DOMAIN r

\* One announcement to all, and one answer.
LEMMA TellTwo ==
    ASSUME Types, Gone, NEW s \in Servers, NEW n \in DownMsg(Known), NEW m \in DownMsg(Known), Tell(s, <<n>>, <<m>>)
    PROVE  /\ Tells(Known, {n, m})
           /\ BothTold(s, n, m)
<1>1. PICK a, b : a = <<n>> /\ b = <<m>> OBVIOUS
<1>2. a \in Seq({n, m}) /\ b \in Seq({n, m}) /\ Tell(s, a, b) BY <1>1
<1>3. {n, m} \in SUBSET DownMsg(Known) OBVIOUS
<1>4. Tells(Known, {n, m}) BY <1>2, <1>3, TellTells
<1>5. a \in Seq(DownMsg(Known)) /\ b \in Seq(DownMsg(Known)) BY <1>2, <1>3, SomeOf
<1>6. Told(s, a, b) BY <1>2, <1>5, TellEffect
<1>7. ASSUME NEW t \in Servers \ crashed
      PROVE  \E r \in Seq({n, m}) :
                  /\ down'[t] = down[t] \o r /\ 1 \in DOMAIN r /\ r[1] = n
                  /\ \A i \in DOMAIN r : i = 1 \/ (i = 2 /\ r[i] = m)
                  /\ t = s => 2 \in DOMAIN r
  <2>1. CASE t = s
    <3>1. PICK r : r = a \o b OBVIOUS
    <3>2. r \in Seq({n, m}) /\ DOMAIN r = 1..2 /\ r[1] = n /\ r[2] = m BY <1>1, <3>1
    <3>3. down'[t] = down[t] \o r BY <1>6, <2>1, <3>1 DEF Told
    <3>4. 1 \in 1..2 /\ 2 \in 1..2 /\ \A i \in 1..2 : i = 1 \/ i = 2 OBVIOUS
    <3>5. 1 \in DOMAIN r /\ 2 \in DOMAIN r /\ r[1] = n /\ \A i \in DOMAIN r : i = 1 \/ (i = 2 /\ r[i] = m)
      BY <3>2, <3>4
    <3> QED BY <3>2, <3>3, <3>5
  <2>2. CASE t # s
    <3>1. a \o <<>> = a /\ DOMAIN a = {1} /\ a[1] = n BY <1>1
    <3>2. down'[t] = down[t] \o a BY <1>6, <2>2, <3>1 DEF Told
    <3> QED BY <1>2, <2>2, <3>1, <3>2
  <2> QED BY <2>1, <2>2
<1> QED BY <1>4, <1>7 DEF BothTold

\* A member that is new is listed: the copy that has it is under way, and nothing opens before.
LEMMA ListedNew ==
    ASSUME NEW s, NEW p, NEW c, NEW S, down[s] \in Seq(S), NEW r \in Seq(S), down'[s] = down[s] \o r, UNCHANGED <<where, party>>,
           1 \in DOMAIN r, r[1] \in Puts(p, c), \A i \in DOMAIN r : i # 1 => 1 < i, r[1] \notin Opens(s, p, c),
           ~Occ(r, Drops(p, c)), ~Occ(down[s], Opens(s, p, c)), where[c] = s => Occ(r, Opens(s, p, c))
    PROVE  Listed(s, p, c)'
<1> DEFINE D == Drops(p, c)
           P == Puts(p, c)
           O == Opens(s, p, c)
           q == down[s]
           w == down'[s]
<1>0. O' = O BY DEF Opens
<1>f. w = q \o r /\ q \in Seq(S) /\ r[1] \in P /\ r[1] \notin O /\ ~Occ(r, D) /\ ~Occ(q, O) /\ (where[c] = s => Occ(r, O)) OBVIOUS
<1>l. ListedIn(w, Lacks(s, p, c)', where'[c] = s, D, P, O') <=> Listed(s, p, c)' BY ListedIs
<1>w. where'[c] = where[c] OBVIOUS
<1> HIDE DEF D, P, O, q, w
<1>1. Occ(r, P) BY <1>f DEF Occ
<1>2. Followed(r, D, P) /\ Between(r, D, P, O) BY <1>f, Without
<1>3. Followed(w, D, P) BY <1>f, <1>1, <1>2, JoinFollowed
<1>4. Led(r, P, O) BY <1>f DEF Led
<1>5. Led(q, P, O) /\ Between(q, D, P, O) BY <1>f, Without
<1>6. Led(w, P, O) BY <1>f, <1>4, <1>5, JoinKeeps
<1>7. Occ(w, P) /\ (Occ(r, O) => Occ(w, O)) BY <1>f, <1>1, JoinOcc
<1>8. Between(w, D, P, O)
  <2>1. Between(q \o r, D, P, O) BY <1>f, <1>2, <1>4, <1>5, JoinBetween
  <2> QED BY <1>f, <2>1
<1>9. ListedIn(w, Lacks(s, p, c)', where'[c] = s, D, P, O) BY <1>f, <1>w, <1>3, <1>6, <1>7, <1>8 DEF ListedIn
<1> QED BY <1>0, <1>l, <1>9

\* A member is added.
LEMMA JoinedInv ==
    ASSUME PartyInv, NEW s \in Servers, Receive(s, "addmember"), UNCHANGED <<nextid, char_db_, auth_db>>, UNCHANGED mapVars,
           NEW p \in Known, NEW c \in Chars, p = Head(up[s]).party, c = Head(up[s]).char,
           NEW now, now \in [Places -> Entry], Once(now), In(now) = In(party_db_[p]) \cup {c}, c \notin In(party_db_[p]),
           party_db_' = [party_db_ EXCEPT ![p] = now], row' \in [Chars -> Known \cup {0}],
           NEW n \in DownMsg(Known), n.type = "info", n.party = p, In(n.member) = In(now), Once(n.member),
           NEW m \in DownMsg(Known), m.type = "memberadded", m.party = p, m.char = c, ~m.flag, Tell(s, <<n>>, <<m>>)
    PROVE  PartyInv'
<1> USE DEF PartyInv
<1> DEFINE M == {n, m}
<1>0. UNCHANGED <<where, sd, party, crashed>> BY DEF mapVars
<1>1. p \in Parties BY DEF Known
<1>2. Head(up[s]) \in Add(c) BY HeadUp DEF Add, Up
<1>3. up[s] # <<>> /\ up' \in [Servers -> Seq(UpMsg(Known))] BY ReceiveEffect
<1>4. s \notin crashed BY <1>3 DEF Gone
<1>5. Tells(Known, M) /\ BothTold(s, n, m) BY TellTwo
<1>6. Known' = Known /\ Known \subseteq Parties BY DEF Known
<1>7. n \in DownMsg(Parties) /\ m \in DownMsg(Parties) BY Queues
<1>8. M \cap Twice = {} BY DEF Twice
<1> HIDE DEF M
<1>9. Token(c) /\ Joins(c) BY DEF Tokens, Joining
<1>10. /\ (where[c] = s /\ sd[c].party_joining /\ ~Occ(down[s], Added(c))) \/ where[c] = 0
       /\ \A t \in Servers : ~Occ(down[t], DownToken(c))
  BY <1>2, <1>3, <1>9, AddHead
<1>z. 0 \notin Servers BY PartyAssumption
<1>11. where[c] = s => One(down'[s], Added(c))
  <2> SUFFICES ASSUME where[c] = s PROVE One(down'[s], Added(c)) OBVIOUS
  <2>1. PICK r \in Seq(M) : /\ down'[s] = down[s] \o r /\ 1 \in DOMAIN r /\ r[1] = n
                            /\ \A i \in DOMAIN r : i = 1 \/ (i = 2 /\ r[i] = m)
    BY <1>4, <1>5 DEF BothTold, M
  <2>2. M \subseteq DownMsg(Parties) BY <1>7 DEF M
  <2>3. r \in Seq(DownMsg(Parties)) /\ down[s] \in Seq(DownMsg(Parties)) BY <2>2, Queues
  <2>4. n \notin Added(c) BY DEF Added, Down
  <2>5. One(r, Added(c)) BY <2>1, <2>4 DEF One
  <2>6. ~Occ(down[s], Added(c)) BY <1>10, <1>z
  <2>7. One(down[s], Added(c)) BY <2>6, Without
  <2> QED BY <2>1, <2>3, <2>5, <2>6, <2>7, JoinOcc
<1>12. M \cap DownToken(c) = {} BY DEF DownToken, Down, M
<1>13. Joins(c)' /\ \A t \in Servers : ~Occ(up'[t], Add(c)) BY <1>2, <1>5, <1>9, <1>11, <1>12, AnsweredJoins
<1>14. ASSUME NEW d \in Chars, d # c PROVE CalmFor(d)
  <2>1. M \cap DownOf(d) = {} BY <1>14 DEF DownOf, Down, M
  <2> QED BY <1>5, <1>6, <2>1, ReceiveCalm, TellsCalm DEF CalmFor
<1>15. Joining'
  <2> SUFFICES ASSUME NEW d \in Chars, d # c PROVE Joins(d)' BY <1>13 DEF Joining
  <2> QED BY <1>0, <1>14, CalmJoins DEF Joining
<1>16. Tokens'
  <2> SUFFICES ASSUME NEW d \in Chars PROVE Token(d)' BY DEF Tokens
  <2>1. M \cap DownToken(d) = {} BY DEF DownToken, Down, M
  <2>2. TokenCalm(d) BY <1>5, <1>6, <2>1, ReceiveCalm, TellsCalm DEF TokenCalm
  <2>3. Token(d) BY DEF Tokens
  <2> QED BY <1>0, <2>2, <2>3, CalmToken
<1>17. /\ party_db_' \in [Parties -> {NoParty} \cup [Places -> Entry]]
       /\ \A q \in Parties : party_db_'[q] = IF q = p THEN now ELSE party_db_[q]
  <2>1. now \in {NoParty} \cup [Places -> Entry] OBVIOUS
  <2> QED BY <1>1, <2>1, DbSet
<1>18. \A q \in Parties : Once(party_db_'[q]) /\ (q \notin Known' => party_db_'[q] = NoParty)
  BY <1>6, <1>17 DEF OnceEach, Unfounded
<1>19. \A q \in Parties, d \in Chars : d \in In(party_db_'[q]) => d \in In(party_db_[q]) \/ (q = p /\ d = c)
  BY <1>17
<1>20. ASSUME NEW t \in Servers PROVE ~Occ(up'[t], Again')
  <2>1. ~Occ(up'[t], Again) BY ReceiveCalm DEF Timely
  <2>2. ~Occ(up'[t], Add(c)) BY <1>13
  <2>3. \A x \in Again' : x \in Again \/ x \in Add(c)
    <3>1. \A x \in UpMsg(Parties) : x.type = "addmember" => x.party \in Parties /\ x.char \in Chars BY DEF UpMsg
    <3>2. SUFFICES ASSUME NEW x \in Again' PROVE x \in Again \/ x \in Add(c) OBVIOUS
    <3>3. x \in UpMsg(Parties) /\ x.type = "addmember" /\ x.char \in In(party_db_'[x.party]) BY <3>2 DEF Again
    <3>4. x.char \in In(party_db_[x.party]) \/ x.char = c BY <1>19, <3>1, <3>3
    <3> QED BY <3>3, <3>4 DEF Again, Add, Up
  <2> QED BY <2>1, <2>2, <2>3 DEF Occ
<1>21. Invites'
  <2> SUFFICES ASSUME NEW d \in Chars, where[d] # 0, ~sd[d].party_joining, sd[d].party_invite # 0
               PROVE  d \notin In(party_db_'[sd[d].party_invite])
    BY <1>0 DEF Invites
  <2>1. sd[d].party_invite \in Parties BY <1>6 DEF Types, Session
  <2>2. d \notin In(party_db_[sd[d].party_invite]) BY DEF Invites
  <2>3. d # c BY <1>10
  <2> QED BY <1>19, <2>1, <2>2, <2>3
<1>22. ASSUME NEW t \in Servers, NEW q \in Parties, NEW d \in Chars, d \in In(party_db_'[q])
       PROVE  Listed(t, q, d)'
  <2>1. M \cap Drops(q, d) = {} BY <1>17, <1>22 DEF Drops, M
  <2>2. CASE d \in In(party_db_[q])
    <3>1. Listed(t, q, d) BY <2>2 DEF Lists
    <3> QED BY <1>0, <1>5, <1>6, <2>1, <3>1, TellsListed
  <2>3. CASE q = p /\ d = c
    <3>1. CASE t \in crashed
      <4>1. down'[t] = <<>> BY <1>5, <3>1 DEF Tells, Gone
      <4>2. party'[t][p] = NoParty /\ where'[c] # t BY <1>0, <1>1, <3>1 DEF Gone
      <4> QED BY <2>3, <4>1, <4>2, ListedGone
    <3>2. CASE t \notin crashed
      <4>1. PICK r \in Seq(M) : /\ down'[t] = down[t] \o r /\ 1 \in DOMAIN r /\ r[1] = n
                                /\ \A i \in DOMAIN r : i = 1 \/ (i = 2 /\ r[i] = m)
                                /\ t = s => 2 \in DOMAIN r
        BY <1>5, <3>2 DEF BothTold, M
      <4>2. M \subseteq DownMsg(Parties) BY <1>7 DEF M
      <4>3. r \in Seq(DownMsg(Parties)) /\ down[t] \in Seq(DownMsg(Parties)) BY <4>2, Queues
      <4>4. r[1] \in Puts(p, c) /\ r[1] \notin Opens(t, p, c) BY <1>7, <4>1 DEF Puts, Opens
      <4>5. ~Occ(r, Drops(p, c))
        <5>1. \A i \in DOMAIN r : r[i] \in M BY <4>1
        <5> QED BY <2>1, <2>3, <5>1 DEF Occ
      <4>6. ~Occ(down[t], Opens(t, p, c))
        <5>1. \A x \in Opens(t, p, c) : x \in DownToken(c) \/ (x \in Added(c) /\ where[c] = t)
          BY DEF Opens, DownToken, Added, Down
        <5>2. where[c] = t => t = s /\ ~Occ(down[t], Added(c)) BY <1>10, <1>z
        <5>3. ~Occ(down[t], DownToken(c)) BY <1>10
        <5> QED BY <5>1, <5>2, <5>3 DEF Occ
      <4>7. where[c] = t => Occ(r, Opens(t, p, c))
        <5> SUFFICES ASSUME where[c] = t PROVE Occ(r, Opens(t, p, c)) OBVIOUS
        <5>1. t = s BY <1>10, <1>z
        <5>2. 2 \in DOMAIN r /\ r[2] = m BY <4>1, <5>1
        <5>3. m \in Opens(t, p, c) BY <1>7 DEF Opens
        <5> QED BY <5>2, <5>3 DEF Occ
      <4>8. \A i \in DOMAIN r : i # 1 => 1 < i BY <4>1
      <4>9. UNCHANGED <<where, party>> BY <1>0
      <4>10. Listed(t, p, c)' BY <4>1, <4>3, <4>4, <4>5, <4>6, <4>7, <4>8, <4>9, ListedNew
      <4> QED BY <2>3, <4>10
    <3> QED BY <3>1, <3>2
  <2> QED BY <1>19, <1>22, <2>2, <2>3
<1>23. Lists' BY <1>22 DEF Lists
<1>24. char_db_' \in [Chars -> Known' \cup {0, -1}] /\ auth_db' \subseteq Chars /\ row' \in [Chars -> Known' \cup {0}]
  BY <1>6 DEF Types
<1>25. Tells(Known', M) /\ nextid' \in {nextid, nextid + 1} BY <1>5, <1>6
<1> QED BY <1>8, <1>15, <1>16, <1>17, <1>18, <1>20, <1>21, <1>23, <1>24, <1>25, HeardStep

\* A party without room: nothing changes, and the answer says so.
LEMMA FullInv ==
    ASSUME PartyInv, NEW s \in Servers, Receive(s, "addmember"), UNCHANGED charVars, UNCHANGED mapVars,
           NEW c \in Chars, c = Head(up[s]).char,
           NEW m \in DownMsg(Known), m.type = "memberadded", m.char = c, Tell(s, <<>>, <<m>>)
    PROVE  PartyInv'
<1> USE DEF PartyInv
<1>0. UNCHANGED <<where, sd, party, crashed>> /\ UNCHANGED <<party_db_, nextid, row, char_db_, auth_db>> BY DEF mapVars, charVars
<1>2. Head(up[s]) \in Add(c) BY HeadUp DEF Add, Up
<1>3. up[s] # <<>> BY ReceiveEffect
<1>4. s \notin crashed BY <1>3 DEF Gone
<1>5. Tells(Known, {m}) BY <1>4, AnswerOne
<1>r. PICK r \in Seq({m}) : Len(r) <= 1 /\ down'[s] = down[s] \o r BY <1>4, AnswerOne
<1>6. Known' = Known /\ Known \subseteq Parties BY <1>0 DEF Known
<1>7. m \in DownMsg(Parties) BY Queues
<1>9. Token(c) /\ Joins(c) BY DEF Tokens, Joining
<1>10. where[c] = s => ~Occ(down[s], Added(c))
  <2>1. 0 \notin Servers BY PartyAssumption
  <2> QED BY <1>2, <1>3, <1>9, <2>1, AddHead
<1>11. where[c] = s => One(down'[s], Added(c))
  <2> SUFFICES ASSUME where[c] = s PROVE One(down'[s], Added(c)) OBVIOUS
  <2>1. r \in Seq(DownMsg(Parties)) /\ down[s] \in Seq(DownMsg(Parties)) BY <1>7, Queues
  <2>2. One(r, Added(c)) BY <1>r DEF One
  <2>3. One(down[s], Added(c)) BY <1>10, Without
  <2> QED BY <1>r, <1>10, <2>1, <2>2, <2>3, JoinOcc
<1>12. \A d : {m} \cap DownToken(d) = {} BY DEF DownToken, Down
<1>13. Joins(c)' BY <1>2, <1>5, <1>9, <1>11, <1>12, AnsweredJoins
<1>14. ASSUME NEW d \in Chars, d # c PROVE Joins(d)'
  <2>1. {m} \cap DownOf(d) = {} BY <1>14 DEF DownOf, Down
  <2>2. CalmFor(d) BY <1>5, <1>6, <2>1, ReceiveCalm, TellsCalm DEF CalmFor
  <2> QED BY <1>0, <2>2, CalmJoins DEF Joining
<1>15. Joining' BY <1>13, <1>14 DEF Joining
<1>16. Tokens'
  <2> SUFFICES ASSUME NEW d \in Chars PROVE Token(d)' BY DEF Tokens
  <2>1. TokenCalm(d) BY <1>5, <1>6, <1>12, ReceiveCalm, TellsCalm DEF TokenCalm
  <2>2. Token(d) BY DEF Tokens
  <2> QED BY <1>0, <2>1, <2>2, CalmToken
<1>17. {m} \cap Twice = {} /\ \A q, d : {m} \cap Drops(q, d) = {} BY NoDrops
<1>18. Lists'
  <2> SUFFICES ASSUME NEW t \in Servers, NEW q \in Parties, NEW d \in Chars, d \in In(party_db_'[q]) PROVE Listed(t, q, d)'
    BY DEF Lists
  <2>1. Listed(t, q, d) BY <1>0 DEF Lists
  <2> QED BY <1>0, <1>5, <1>6, <1>17, <2>1, TellsListed
<1>19. Invites' BY <1>0 DEF Invites
<1>20. \A t \in Servers : ~Occ(up'[t], Again')
  <2> TAKE t \in Servers
  <2>1. Again' = Again BY <1>0 DEF Again
  <2>2. ~Occ(up[t], Again) BY DEF Timely
  <2> QED BY <2>1, <2>2, ReceiveCalm
<1>21. /\ party_db_' \in [Parties -> {NoParty} \cup [Places -> Entry]] /\ row' \in [Chars -> Known' \cup {0}]
       /\ \A q \in Parties : Once(party_db_'[q]) /\ (q \notin Known' => party_db_'[q] = NoParty)
       /\ char_db_' \in [Chars -> Known' \cup {0, -1}] /\ auth_db' \subseteq Chars
  BY <1>0, <1>6 DEF Types, OnceEach, Unfounded
<1>22. Tells(Known', {m}) /\ nextid' \in {nextid, nextid + 1} BY <1>0, <1>5, <1>6
<1> QED BY <1>15, <1>16, <1>17, <1>18, <1>19, <1>20, <1>21, <1>22, HeardStep

\* A request to join is answered: nobody asks for a member.
LEMMA AddMemberInv ==
    ASSUME PartyInv, NEW s \in Servers, mapif_parse_PartyAddMember(s)
    PROVE  PartyInv'
<1> USE DEF PartyInv
<1> DEFINE p == Head(up[s]).party
           c == Head(up[s]).char
           slots == party_db_[p]
           free == At(slots, 0)
           i == Min(free)
           now == [slots EXCEPT ![i] = [char |-> c, leader |-> FALSE, online |-> TRUE]]
<1>1. /\ Receive(s, "addmember") /\ UNCHANGED <<nextid, char_db_, auth_db>> /\ UNCHANGED mapVars
      /\ \/ /\ free = {}
            /\ Tell(s, <<>>, <<[Pack("memberadded", p, c) EXCEPT !.flag = TRUE]>>)
            /\ UNCHANGED <<party_db_, row>>
         \/ /\ free # {}
            /\ party_db_' = [party_db_ EXCEPT ![p] = now]
            /\ row' = [row EXCEPT ![c] = p]
            /\ Tell(s, <<Info(p, now, 0)>>, <<Pack("memberadded", p, c)>>)
  BY Zenon DEF mapif_parse_PartyAddMember
<1>r. Receive(s, "addmember") BY <1>1
<1>2. p \in Known /\ p \in Parties /\ c \in Chars BY <1>r, HeadUp
<1>3. slots \in {NoParty} \cup [Places -> Entry] BY <1>2 DEF Types
<1>4. CASE /\ Tell(s, <<>>, <<[Pack("memberadded", p, c) EXCEPT !.flag = TRUE]>>)
           /\ UNCHANGED <<party_db_, row>>
  <2> DEFINE m == Plain("memberadded", p, c, TRUE)
  <2>1. m \in DownMsg(Known) BY <1>2, DownFlag
  <2>2. Tell(s, <<>>, <<m>>)
    <3>1. [Pack("memberadded", p, c) EXCEPT !.flag = TRUE] = m BY FlagIs
    <3> HIDE DEF m
    <3> QED BY <1>4, <3>1, Zenon
  <2>3. m.type = "memberadded" /\ m.char = c BY DEF Plain
  <2>4. UNCHANGED charVars BY <1>1, <1>4 DEF charVars
  <2>5. c = Head(up[s]).char OBVIOUS
  <2> HIDE DEF m, p, c, slots, free, i, now
  <2> QED BY <1>1, <1>2, <2>1, <2>2, <2>3, <2>4, <2>5, FullInv
<1>5. CASE /\ free # {}
           /\ party_db_' = [party_db_ EXCEPT ![p] = now]
           /\ row' = [row EXCEPT ![c] = p]
           /\ Tell(s, <<Info(p, now, 0)>>, <<Pack("memberadded", p, c)>>)
  <2>1. c \notin In(slots)
    <3>1. Head(up[s]) \in UpMsg(Parties) /\ Head(up[s]).type = "addmember" BY <1>r, HeadUp
    <3>2. up[s] # <<>> /\ up[s] \in Seq(UpMsg(Known)) BY <1>r, ReceiveEffect
    <3>3. Head(up[s]) \notin Again
      <4>1. ~Occ(up[s], Again) BY DEF Timely
      <4> QED BY <3>2, <4>1, TailKeeps
    <3> QED BY <3>1, <3>3 DEF Again
  <2>2. i \in DOMAIN slots /\ slots[i].char = 0
    <3>1. DOMAIN slots \subseteq Places BY <1>3, SlotFacts
    <3>2. free # {} BY <1>5
    <3> HIDE DEF slots
    <3> QED BY <3>1, <3>2, MinAt
  <2>3. Once(slots) BY <1>2 DEF OnceEach
  <2>4. row' \in [Chars -> Known \cup {0}] BY <1>2, <1>5 DEF Types
  <2>p. p = Head(up[s]).party /\ c = Head(up[s]).char /\ slots = party_db_[p] OBVIOUS
  <2> HIDE DEF p, c, slots, free, i
  <2> DEFINE e == [char |-> c, leader |-> FALSE, online |-> TRUE]
  <2>5. e \in Entry /\ e.char = c BY <1>2 DEF Entry
  <2> HIDE DEF e
  <2>6. now = [slots EXCEPT ![i] = e] BY DEF e
  <2> HIDE DEF now
  <2>7. now \in [Places -> Entry] /\ Once(now) /\ In(now) = In(slots) \cup {c}
    <3> DEFINE new == [slots EXCEPT ![i] = e]
    <3>1. /\ new \in {NoParty} \cup [Places -> Entry] /\ new # NoParty /\ DOMAIN new = DOMAIN slots
      BY <1>3, <2>2, <2>5, SlotChange
    <3>2. new[i].char = c /\ \A k \in DOMAIN slots : k # i => new[k] = slots[k] BY <2>2, <2>5
    <3>3. c # 0 BY <1>2, PartyAssumption
    <3> HIDE DEF new
    <3>4. Once(new) /\ In(new) = In(slots) \cup {c} BY <2>1, <2>2, <2>3, <3>1, <3>2, <3>3, TakeSlot
    <3> QED BY <2>6, <3>1, <3>4 DEF new
  <2>8. PICK q \in Known : q = p BY <1>2
  <2>9. PICK d \in Chars : d = c BY <1>2
  <2>10. PICK f : f = now OBVIOUS
  <2>11. PICK n : n = Info(q, f, 0) OBVIOUS
  <2>12. PICK m : m = Pack("memberadded", q, d) OBVIOUS
  <2>13. f \in [Places -> Entry] /\ Once(f) /\ In(f) = In(party_db_[q]) \cup {d} /\ d \notin In(party_db_[q])
    BY <2>1, <2>7, <2>8, <2>9, <2>10, <2>p
  <2>14. n \in DownMsg(Known) /\ n.type = "info" /\ n.party = q /\ In(n.member) = In(f) /\ Once(n.member)
    BY <2>11, <2>13, InfoAll
  <2>15. m \in DownMsg(Known) /\ m.type = "memberadded" /\ m.party = q /\ m.char = d /\ ~m.flag
    <3>1. Pack("memberadded", q, d) \in DownMsg(Known) BY DownPack
    <3> QED BY <2>12, <3>1 DEF Pack
  <2>16. Tell(s, <<n>>, <<m>>) BY <1>5, <2>8, <2>9, <2>10, <2>11, <2>12, Zenon
  <2>17. party_db_' = [party_db_ EXCEPT ![q] = f] BY <1>5, <2>8, <2>10
  <2>18. q = Head(up[s]).party /\ d = Head(up[s]).char BY <2>8, <2>9, <2>p
  <2>19. UNCHANGED <<nextid, char_db_, auth_db>> /\ UNCHANGED mapVars BY <1>1
  <2> QED BY <1>r, <2>4, <2>13, <2>14, <2>15, <2>16, <2>17, <2>18, <2>19, JoinedInv
<1> HIDE DEF p, c, slots, free, i, now
<1> QED BY <1>1, <1>4, <1>5

\* The steps of the char-server.
LEMMA CharInv ==
    ASSUME PartyInv, CharStep \/ LoginStep
    PROVE  PartyInv'
<1>1. CASE CharStep
  <2>1. PICK s \in Servers :
           \/ mapif_parse_CreateParty(s) \/ mapif_parse_PartyInfo(s) \/ mapif_parse_PartyAddMember(s)
           \/ mapif_parse_PartyLeave(s) \/ mapif_parse_PartyLeaderChange(s) \/ chmapif_parse_reqsavechar(s)
           \/ mapif_parse_Registry(s)
           \/ \E moved \in BOOLEAN : mapif_parse_PartyChangeMap(s, moved)
    BY <1>1 DEF CharStep
  <2> QED BY <2>1, CreatePartyInv, PartyInfoInv, AddMemberInv, PartyLeaveInv, LeaderChangeInv, SaveInv, RegistryInv, ChangeMapInv
<1>2. CASE LoginStep BY <1>2, AuthInv DEF LoginStep
<1> QED BY <1>1, <1>2

-----------------------------------------------------------------------------
(***************************************************************************)
(* The invariant holds, and what follows from it.                          *)
(***************************************************************************)
\* At the start.
LEMMA PartyInit == Init => PartyInv
<1> SUFFICES ASSUME Init PROVE PartyInv OBVIOUS
<1>1. \A s \in Servers : up[s] = <<>> /\ down[s] = <<>> BY DEF Init
<1>2. \A s \in Servers : \A X : ~Occ(up[s], X) /\ ~Occ(down[s], X) BY <1>1, Without
<1>3. \A s \in Servers : \A X, Y : /\ One(up[s], X) /\ Followed(up[s], X, Y)
                                   /\ One(down[s], X) /\ Ahead(down[s], X, Y)
  BY <1>2, Without
<1>4. crashed = {} /\ auth_db = {} /\ nextid = 1 BY DEF Init
<1>5. /\ \A p \in Parties : party_db_[p] = NoParty
      /\ \A s \in Servers, p \in Parties : party[s][p] = NoParty
  BY DEF Init
<1>6. In(NoParty) = {} /\ Once(NoParty) BY DEF In, Once, NoParty
<1>7. Types
  <2>1. where \in [Chars -> Servers \cup {0}] BY DEF Init
  <2>2. sd \in [Chars -> Session(Known)] BY DEF Init, NoSession, Session
  <2>3. party \in [Servers -> [Parties -> {NoParty} \cup [Places -> CopyEntry]]] BY DEF Init
  <2>4. party_db_ \in [Parties -> {NoParty} \cup [Places -> Entry]] BY DEF Init
  <2>5. row \in [Chars -> Known \cup {0}] /\ char_db_ \in [Chars -> Known \cup {0, -1}] BY DEF Init
  <2>6. crashed \subseteq Servers /\ auth_db \subseteq Chars /\ nextid \in Nat \ {0} BY <1>4
  <2>7. up \in [Servers -> Seq(UpMsg(Known))] /\ down \in [Servers -> Seq(DownMsg(Known))]
    <3>1. \A S : <<>> \in Seq(S) OBVIOUS
    <3> QED BY <3>1 DEF Init
  <2> QED BY <2>1, <2>2, <2>3, <2>4, <2>5, <2>6, <2>7 DEF Types
<1>8. Unfounded /\ OnceEach /\ Gone BY <1>4, <1>5, <1>6 DEF Unfounded, OnceEach, Gone
<1>9. Tokens BY <1>2, <1>3, <1>4 DEF Tokens, Token
<1>10. Joining BY <1>2, <1>3 DEF Joining, Joins
<1>11. Timely BY <1>2 DEF Timely
<1>12. Invites
  <2>1. \A c \in Chars : sd[c].party_invite = 0 BY DEF Init, NoSession
  <2> QED BY <2>1 DEF Invites
<1>13. Lists BY <1>5, <1>6 DEF Lists
<1> QED BY <1>7, <1>8, <1>9, <1>10, <1>11, <1>12, <1>13 DEF PartyInv

\* Every step keeps it.
LEMMA PartyStep == PartyInv /\ [Next]_vars => PartyInv'
<1> SUFFICES ASSUME PartyInv, [Next]_vars PROVE PartyInv' OBVIOUS
<1>1. CASE Next BY <1>1, PlayerInv, CharInv, MapInv DEF Next
<1>2. CASE UNCHANGED vars
  <2>1. /\ UNCHANGED <<where, sd, party, crashed>> /\ UNCHANGED <<party_db_, nextid, row, char_db_, auth_db>>
        /\ UNCHANGED <<up, down>>
    BY <1>2 DEF vars, mapVars, charVars
  <2>2. CalmUp BY <2>1, SendNone DEF PartyInv
  <2>3. CalmSd BY <2>1, SdStays DEF PartyInv
  <2>4. /\ party' \in [Servers -> [Parties -> {NoParty} \cup [Places -> CopyEntry]]]
        /\ \A s \in Servers, p \in Parties : Alike(party[s][p], party'[s][p])
    BY <2>1, PartyStays DEF PartyInv
  <2> QED BY <1>2, <2>1, <2>2, <2>3, <2>4, CalmRequest DEF vars
<1> QED BY <1>1, <1>2

\* Of every reachable state.
LEMMA PartyAlways == Spec => []PartyInv
BY PartyInit, PartyStep, PTL DEF Spec

\* Ids, slots and flags keep their types at both servers (mapif_parse_CreateParty stores the
\* party before the party id of its founder is set; party_recv_info).
THEOREM PartyTypes == Spec => []TypeOK
<1>1. PartyInv => TypeOK
  <2> SUFFICES ASSUME PartyInv PROVE TypeOK OBVIOUS
  <2>1. Known \subseteq Parties BY DEF Known
  <2>2. Places = 1..MAX_PARTY BY DEF Places
  <2>3. where \in [Chars -> Servers \cup {0}] BY DEF PartyInv, Types
  <2>4. sd \in [Chars -> [party_id : Ids, party_invite : Ids, party_joining : BOOLEAN, party_creating : BOOLEAN]]
    BY <2>1 DEF PartyInv, Types, Session, Ids
  <2>5. \A s \in Servers, p \in Parties : party[s][p] \in {NoParty} \cup [1..MAX_PARTY -> CopyEntry]
    BY <2>2 DEF PartyInv, Types
  <2>6. \A p \in Parties : party_db_[p] \in {NoParty} \cup [1..MAX_PARTY -> Entry] BY <2>2 DEF PartyInv, Types
  <2>7. row \in [Chars -> Ids] /\ char_db_ \in [Chars -> Ids \cup {-1}] BY <2>1 DEF PartyInv, Types, Ids
  <2>8. crashed \subseteq Servers /\ auth_db \subseteq Chars /\ nextid \in Nat BY DEF PartyInv, Types
  <2> QED BY <2>3, <2>4, <2>5, <2>6, <2>7, <2>8 DEF TypeOK, CopyEntry, Entry
<1> QED BY <1>1, PartyAlways, PTL

\* One slot at most.
LEMMA OnceAt ==
    ASSUME NEW slots, Once(slots), NEW c \in Chars
    PROVE  Cardinality(At(slots, c)) <= 1
<1>1. c # 0 BY PartyAssumption
<1>2. \A i, j \in At(slots, c) : i = j BY <1>1 DEF At, Once
<1>3. CASE At(slots, c) = {} BY <1>3, FS_EmptySet
<1>4. CASE At(slots, c) # {}
  <2>1. PICK i : i \in At(slots, c) BY <1>4
  <2>2. At(slots, c) = {i} BY <1>2, <2>1
  <2>3. Cardinality({i}) = 1 BY FS_Singleton
  <2> QED BY <2>2, <2>3
<1> QED BY <1>3, <1>4

\* No character is listed twice in a party, at the char-server or in a copy, although the
\* char-server adds whomever it is told to (mapif_parse_PartyAddMember): a request to add a
\* member is never under way, whatever crosses it.
THEOREM OneSlotEach == Spec => []OncePerParty
<1>1. PartyInv => OncePerParty BY OnceAt DEF PartyInv, OnceEach, OncePerParty
<1> QED BY <1>1, PartyAlways, PTL

====
