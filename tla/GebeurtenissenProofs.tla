------------------------ MODULE GebeurtenissenProofs ------------------------
(***************************************************************************)
(* Proofs about Gebeurtenissen for any number of zaken, objects, workers,  *)
(* messages and faults: its types, that every change is announced once,    *)
(* and that links follow the last message. Then about DocumentImport: its  *)
(* types and, for one request at a time, the statistics and the files of   *)
(* an import.                                                              *)
(***************************************************************************)
EXTENDS Gebeurtenissen, DocumentImport, SequenceTheorems, FiniteSetTheorems,
        WellFoundedInduction, TLAPS

-----------------------------------------------------------------------------
(* The callbacks of a transaction. *)

\* The events among the callbacks s.
Gepland(s) == Range(s) \cap Sleutels

\* No event is among them twice.
Eenmalig(s) == \A i, j \in DOMAIN s : i # j /\ s[i] \in Sleutels => s[i] # s[j]

\* What the callbacks of s are, by their places.
LEMMA PlaatsVan ==
  ASSUME NEW s \in Seq(Callbacks), NEW n, n = Len(s)
  PROVE  \A k : k \in Gepland(s) <=> k \in Sleutels /\ \E i \in 1..n : s[i] = k
BY DEF Gepland, Range

\* Callbacks after others of which they share no event.
LEMMA Achter ==
  ASSUME NEW s \in Seq(Callbacks), NEW t \in Seq(Callbacks), Eenmalig(s), Eenmalig(t),
         Gepland(s) \cap Gepland(t) = {}
  PROVE  /\ s \o t \in Seq(Callbacks)
         /\ Eenmalig(s \o t)
         /\ Gepland(s \o t) = Gepland(s) \cup Gepland(t)
<1> DEFINE n == Len(s)
           m == Len(t)
           u == s \o t
<1>1. /\ u \in Seq(Callbacks) /\ Len(u) = n + m /\ n \in Nat /\ m \in Nat
      /\ \A i \in 1..(n + m) : u[i] = IF i <= n THEN s[i] ELSE t[i - n]
      /\ DOMAIN u = 1..(n + m) /\ DOMAIN s = 1..n /\ DOMAIN t = 1..m
  <2>1. n \in Nat /\ m \in Nat /\ DOMAIN s = 1..n /\ DOMAIN t = 1..m
    BY LenProperties
  <2>2. u \in Seq(Callbacks) /\ Len(u) = n + m
    BY ConcatProperties
  <2>3. \A i \in 1..(n + m) : u[i] = IF i <= n THEN s[i] ELSE t[i - n]
    BY ConcatProperties
  <2>4. DOMAIN u = 1..Len(u)
    BY <2>2, LenProperties
  <2> QED
    BY <2>1, <2>2, <2>3, <2>4
<1> HIDE DEF u, n, m
<1>2. \A k : k \in Gepland(u) <=> k \in Sleutels /\ \E i \in 1..(n + m) : u[i] = k
  <2> DEFINE l == n + m
  <2>1. u \in Seq(Callbacks) /\ l = Len(u)
    BY <1>1
  <2> HIDE DEF l
  <2>2. \A k : k \in Gepland(u) <=> k \in Sleutels /\ \E i \in 1..l : u[i] = k
    BY <2>1, PlaatsVan
  <2> QED
    BY <2>2 DEF l
<1>3. \A k : k \in Gepland(s) <=> k \in Sleutels /\ \E i \in 1..n : s[i] = k
  BY <1>1, PlaatsVan DEF n
<1>4. \A k : k \in Gepland(t) <=> k \in Sleutels /\ \E i \in 1..m : t[i] = k
  BY <1>1, PlaatsVan DEF m
<1>5. Gepland(u) = Gepland(s) \cup Gepland(t)
  <2>1. ASSUME NEW k \in Gepland(u) PROVE k \in Gepland(s) \cup Gepland(t)
    <3>1. PICK i \in 1..(n + m) : u[i] = k
      BY <2>1, <1>2
    <3>2. CASE i <= n
      BY <2>1, <3>1, <3>2, <1>1, <1>2, <1>3
    <3>3. CASE i > n
      <4>1. i - n \in 1..m /\ t[i - n] = k
        BY <3>1, <3>3, <1>1
      <4> QED
        BY <4>1, <2>1, <1>2, <1>4
    <3> QED
      BY <3>1, <3>2, <3>3, <1>1
  <2>2. ASSUME NEW k \in Gepland(s) PROVE k \in Gepland(u)
    BY <2>2, <1>1, <1>2, <1>3
  <2>3. ASSUME NEW k \in Gepland(t) PROVE k \in Gepland(u)
    <3>1. PICK i \in 1..m : t[i] = k
      BY <2>3, <1>4
    <3>2. i + n \in 1..(n + m) /\ u[i + n] = t[i]
      BY <3>1, <1>1
    <3> QED
      BY <3>1, <3>2, <2>3, <1>2, <1>4
  <2> QED
    BY <2>1, <2>2, <2>3
<1>6. Eenmalig(u)
  <2> SUFFICES ASSUME NEW i \in 1..(n + m), NEW j \in 1..(n + m), i # j, u[i] \in Sleutels, u[i] = u[j]
               PROVE  FALSE
    BY <1>1 DEF Eenmalig
  <2>1. CASE i <= n /\ j <= n
    BY <2>1, <1>1 DEF Eenmalig
  <2>2. CASE i > n /\ j > n
    <3>1. i - n \in 1..m /\ j - n \in 1..m /\ i - n # j - n
      BY <2>2, <1>1
    <3>2. t[i - n] = u[i] /\ t[j - n] = u[j]
      BY <2>2, <1>1
    <3> QED
      BY <3>1, <3>2, <1>1 DEF Eenmalig
  <2>3. CASE i <= n /\ j > n
    <3>1. j - n \in 1..m /\ t[j - n] = u[j] /\ s[i] = u[i] /\ i \in 1..n
      BY <2>3, <1>1
    <3> QED
      BY <3>1, <1>3, <1>4
  <2>4. CASE i > n /\ j <= n
    <3>1. i - n \in 1..m /\ t[i - n] = u[i] /\ s[j] = u[j] /\ j \in 1..n
      BY <2>4, <1>1
    <3> QED
      BY <3>1, <1>3, <1>4
  <2> QED
    BY <2>1, <2>2, <2>3, <2>4, <1>1
<1> QED
  BY <1>1, <1>5, <1>6 DEF u

\* No callbacks.
LEMMA GeenCallbacks == <<>> \in Seq(Callbacks) /\ Eenmalig(<<>>) /\ Gepland(<<>>) = {} /\ Range(<<>>) = {}
<1>1. <<>> \in Seq(Callbacks) /\ Len(<<>>) = 0 /\ DOMAIN <<>> = 1..0
  BY EmptySeq, LenProperties
<1> QED
  BY <1>1 DEF Eenmalig, Gepland, Range

\* One callback.
LEMMA EenCallback ==
  ASSUME NEW c \in Callbacks
  PROVE  <<c>> \in Seq(Callbacks) /\ Eenmalig(<<c>>) /\ Gepland(<<c>>) = {c} \cap Sleutels
<1>1. <<c>> \in Seq(Callbacks) /\ Len(<<c>>) = 1 /\ <<c>>[1] = c /\ DOMAIN <<c>> = 1..1
  OBVIOUS
<1> QED
  BY <1>1 DEF Eenmalig, Gepland, Range

\* SetToSeqs gives the events of a finite set in any order, each of them once.
LEMMA InVolgorde ==
  ASSUME NEW S \in SUBSET Sleutels, IsFiniteSet(S), NEW g \in SetToSeqs(S)
  PROVE  g \in Seq(Callbacks) /\ Eenmalig(g) /\ Gepland(g) = S
<1> DEFINE n == Cardinality(S)
<1>1. n \in Nat
  BY FS_CardinalityType
<1>2. g \in [1..n -> S] /\ \A i, j \in 1..n : i # j => g[i] # g[j]
  BY DEF SetToSeqs
<1> HIDE DEF n
<1>3. g \in Seq(S) /\ Len(g) = n
  BY <1>1, <1>2
<1>4. S \subseteq Callbacks
  BY DEF Callbacks
<1>5. g \in Seq(Callbacks)
  BY <1>3, <1>4, SeqMonotonic
<1>6. Eenmalig(g)
  BY <1>2 DEF Eenmalig
<1>7. g \in Injection(1..n, S)
  BY <1>2 DEF Injection, IsInjective
<1>8. Cardinality(1..n) = n
  BY <1>1, FS_Interval
<1>9. g \in Surjection(1..n, S)
  BY <1>7, <1>8, FS_Injection DEF n
<1>10. Range(g) = S
  BY <1>2, <1>9 DEF Surjection, Range
<1> QED
  BY <1>5, <1>6, <1>10 DEF Gepland

\* The first callback is gone.
LEMMA EersteWeg ==
  ASSUME NEW s \in Seq(Callbacks), Eenmalig(s), s # <<>>
  PROVE  /\ Head(s) \in Callbacks
         /\ Tail(s) \in Seq(Callbacks)
         /\ Eenmalig(Tail(s))
         /\ Gepland(Tail(s)) = Gepland(s) \ {Head(s)}
         /\ Head(s) \in Sleutels => Head(s) \in Gepland(s)
<1> DEFINE n == Len(s)
           t == Tail(s)
<1>1. /\ n \in Nat \ {0} /\ DOMAIN s = 1..n /\ Head(s) = s[1] /\ Head(s) \in Callbacks
      /\ t \in Seq(Callbacks) /\ Len(t) = n - 1 /\ \A i \in 1..(n - 1) : t[i] = s[i + 1]
  BY HeadTailProperties, EmptySeq, LenProperties
<1>2. DOMAIN t = 1..(n - 1)
  BY <1>1, LenProperties
<1> HIDE DEF n, t
<1>3. Eenmalig(t)
  <2> SUFFICES ASSUME NEW i \in 1..(n - 1), NEW j \in 1..(n - 1), i # j, t[i] \in Sleutels
               PROVE  t[i] # t[j]
    BY <1>2 DEF Eenmalig
  <2>1. i + 1 \in 1..n /\ j + 1 \in 1..n /\ i + 1 # j + 1 /\ t[i] = s[i + 1] /\ t[j] = s[j + 1]
    BY <1>1
  <2> QED
    BY <2>1, <1>1 DEF Eenmalig
<1>4. \A k : k \in Gepland(s) <=> k \in Sleutels /\ \E i \in 1..n : s[i] = k
  BY <1>1, PlaatsVan DEF n
<1>5. \A k : k \in Gepland(t) <=> k \in Sleutels /\ \E i \in 1..(n - 1) : t[i] = k
  <2> DEFINE l == n - 1
  <2>1. l = Len(t)
    BY <1>1
  <2> HIDE DEF l
  <2>2. \A k : k \in Gepland(t) <=> k \in Sleutels /\ \E i \in 1..l : t[i] = k
    BY <1>1, <2>1, PlaatsVan
  <2> QED
    BY <2>2 DEF l
<1>6. Gepland(t) = Gepland(s) \ {s[1]}
  <2>1. ASSUME NEW k \in Gepland(t) PROVE k \in Gepland(s) \ {s[1]}
    <3>1. PICK i \in 1..(n - 1) : t[i] = k
      BY <2>1, <1>5
    <3>2. i + 1 \in 1..n /\ i + 1 # 1 /\ s[i + 1] = k /\ 1 \in 1..n /\ k \in Sleutels
      BY <3>1, <1>1, <2>1, <1>5
    <3> QED
      BY <3>2, <1>1, <1>4 DEF Eenmalig
  <2>2. ASSUME NEW k \in Gepland(s), k # s[1] PROVE k \in Gepland(t)
    <3>1. PICK i \in 1..n : s[i] = k
      BY <2>2, <1>4
    <3>2. i # 1
      BY <3>1, <2>2
    <3>3. i - 1 \in 1..(n - 1) /\ t[i - 1] = k
      BY <3>1, <3>2, <1>1
    <3> QED
      BY <3>3, <1>4, <1>5, <2>2
  <2> QED
    BY <2>1, <2>2
<1>7. s[1] \in Sleutels => s[1] \in Gepland(s)
  BY <1>1, <1>4
<1> QED
  BY <1>1, <1>3, <1>6, <1>7 DEF t

-----------------------------------------------------------------------------
(* The inductive invariant. *)

ReqType == [fase : {"rust", "transactie", "na", "klaar", "ontvangen", "gekoppeld"}, moet : SUBSET Sleutels,
            nieuw : SUBSET Zaken, weg : SUBSET Zaken, stil : SUBSET Sleutels,
            over : Paren \cup {Geen}, nr : 0..MaxBerichten, aantal : Nat]

\* A worker w that does q, with the registry reg and the callbacks s.  In a transaction the
\* registry holds what it held at first and what the transaction asks for, and the callbacks
\* announce the difference.
Werker(w, q, reg, s) ==
  /\ q \in ReqType /\ reg \in SUBSET Sleutels /\ s \in Seq(Callbacks)
  /\ Eenmalig(s)
  /\ q.fase = "rust" => q = Rust /\ s = <<>> /\ (w \in Webs => reg = {})
  /\ q.fase = "transactie" => reg = q.stil \cup q.moet /\ Gepland(s) = q.moet \ q.stil
  /\ w \in Webs => q.stil = {}
  /\ w \in Webs /\ q.fase \in {"transactie", "na"} /\ q.weg = {} => \A k \in reg : k[1] = "gemuteerd"
  /\ w \in Webs /\ q.fase = "na" /\ q.weg = {} => reg = Gepland(s)
  /\ q.fase \in {"ontvangen", "gekoppeld"} =>
       /\ w \in Webs /\ q.over # Geen /\ reg = {} /\ s = <<>>
       /\ q.moet = {} /\ q.nieuw = {} /\ q.weg = {}
  /\ q.fase = "klaar" => s = <<>>
  /\ q.over = Geen => q.aantal = 0
  /\ q.fase = "transactie" /\ q.over # Geen => <<"gemuteerd", q.over[1]>> \in q.moet /\ q.weg = {}

Werkend == \A w \in Werkers : Werker(w, req[w], register[w], wacht[w])

\* Transactions that are open at the same time changed different zaken.
Sloten ==
  \A v, w \in Werkers :
    v # w /\ req[v].fase = "transactie" /\ req[w].fase = "transactie" => Geraakt(v) \cap Geraakt(w) = {}

\* A message that is handled was sent, and the zaakobjecten that it deletes are still there.
Berichten ==
  \A w \in Werkers : req[w].over # Geen =>
    /\ req[w].nr \in 1..Len(log[req[w].over])
    /\ req[w].fase = "transactie" => req[w].aantal <= koppelingen[req[w].over]

IInv == TypeOK /\ Werkend /\ Sloten /\ Berichten

\* What a worker that does q, with the callbacks s, still has to announce.
OpenVan(q, s) ==
  CASE q.fase = "na" -> Range(s)
    [] q.fase = "gekoppeld" -> {<<"gemuteerd", q.over[1]>>}
    [] OTHER -> {}

GeraaktVan(q) == {k[2] : k \in q.moet} \cup q.nieuw \cup q.weg

Telt(b) == IF b THEN 1 ELSE 0

\* The zaken that w touches when it does q are its own already, or free.
Mag(w, q) ==
  q.fase = "transactie" =>
    \A z \in GeraaktVan(q) : (req[w].fase = "transactie" /\ z \in Geraakt(w)) \/ Vrij(w, z)

\* In this step w comes to do q, with the registry reg and the callbacks s.
Zet(w, q, reg, s) ==
  /\ req' = [req EXCEPT ![w] = q]
  /\ register' = [register EXCEPT ![w] = reg]
  /\ wacht' = [wacht EXCEPT ![w] = s]

\* A step of w keeps the books: what it has to announce more or less is in achterstand.
Boekt(w, q, s) ==
  \A k \in Sleutels : achterstand'[k] = achterstand[k] + Telt(k \in OpenVan(q, s)) - Telt(k \in Open(w))

\* The message that w handles when it does q was sent.
Gestuurd(q) == q.over # Geen => q.nr \in 1..Len(log'[q.over])

\* The zaakobjecten that it deletes are there.
Vindt(q) == q.over # Geen /\ q.fase = "transactie" => q.aantal <= koppelingen'[q.over]

\* The other variables keep their types, and messages stay.
Overig ==
  /\ zaken' \subseteq Zaken
  /\ koppelingen' \in [Paren -> Nat]
  /\ log' \in [Paren -> Seq({"gekoppeld", "ontkoppeld"})]
  /\ aanvaard' \in [Paren -> Nat]
  /\ \A p \in Paren : aanvaard'[p] \in 0..Len(log'[p]) /\ Len(log'[p]) <= MaxBerichten
  /\ \A p \in Paren : Len(log[p]) <= Len(log'[p])
  /\ afgeweken' \subseteq Paren
  /\ achterstand' \in [Sleutels -> Int]
  /\ fouten' \in 0..MaxFouten

\* Nobody loses the zaakobjecten that it is going to delete.
Behouden(w) ==
  \A v \in Werkers \ {w} :
    req[v].fase = "transactie" /\ req[v].over # Geen => req[v].aantal <= koppelingen'[req[v].over]

-----------------------------------------------------------------------------
(* What a step of one worker does to the invariant. *)

LEMMA OpenIs == \A w \in Werkers : Open(w) = OpenVan(req[w], wacht[w])
BY DEF Open, OpenVan

\* Only the books of w change.
LEMMA StapZet ==
  ASSUME TypeOK, NEW w \in Werkers, NEW q, NEW reg, NEW s, Zet(w, q, reg, s), Werker(w, q, reg, s)
  PROVE  /\ req' \in [Werkers -> ReqType]
         /\ register' \in [Werkers -> SUBSET Sleutels]
         /\ wacht' \in [Werkers -> Seq(Callbacks)]
         /\ req'[w] = q /\ register'[w] = reg /\ wacht'[w] = s
         /\ \A v \in Werkers \ {w} : req'[v] = req[v] /\ register'[v] = register[v] /\ wacht'[v] = wacht[v]
<1>1. req \in [Werkers -> ReqType] /\ register \in [Werkers -> SUBSET Sleutels] /\ wacht \in [Werkers -> Seq(Callbacks)]
  BY DEF TypeOK, ReqType
<1>2. q \in ReqType /\ reg \in SUBSET Sleutels /\ s \in Seq(Callbacks)
  BY DEF Werker
<1>3. req' \in [Werkers -> ReqType] /\ req'[w] = q /\ \A v \in Werkers \ {w} : req'[v] = req[v]
  BY <1>1, <1>2 DEF Zet
<1>4. register' \in [Werkers -> SUBSET Sleutels] /\ register'[w] = reg /\ \A v \in Werkers \ {w} : register'[v] = register[v]
  BY <1>1, <1>2 DEF Zet
<1>5. wacht' \in [Werkers -> Seq(Callbacks)] /\ wacht'[w] = s /\ \A v \in Werkers \ {w} : wacht'[v] = wacht[v]
  BY <1>1, <1>2 DEF Zet
<1> QED
  BY <1>3, <1>4, <1>5

LEMMA StapWerkend ==
  ASSUME IInv, NEW w \in Werkers, NEW q, NEW reg, NEW s, Zet(w, q, reg, s), Werker(w, q, reg, s)
  PROVE  Werkend'
<1>1. /\ req'[w] = q /\ register'[w] = reg /\ wacht'[w] = s
      /\ \A v \in Werkers \ {w} : req'[v] = req[v] /\ register'[v] = register[v] /\ wacht'[v] = wacht[v]
  BY StapZet DEF IInv
<1> SUFFICES ASSUME NEW v \in Werkers
             PROVE  Werker(v, req'[v], register'[v], wacht'[v])
  BY DEF Werkend, Werker
<1>2. CASE v = w
  BY <1>1, <1>2
<1>3. CASE v # w
  BY <1>1, <1>3 DEF IInv, Werkend
<1> QED
  BY <1>2, <1>3

LEMMA StapTypeOK ==
  ASSUME IInv, NEW w \in Werkers, NEW q, NEW reg, NEW s, Zet(w, q, reg, s), Werker(w, q, reg, s), Overig
  PROVE  TypeOK'
<1>1. /\ req' \in [Werkers -> ReqType]
      /\ register' \in [Werkers -> SUBSET Sleutels]
      /\ wacht' \in [Werkers -> Seq(Callbacks)]
  BY StapZet DEF IInv
<1>2. Werkend'
  BY StapWerkend
<1>3. \A v \in Werkers : req'[v].fase = "rust" => wacht'[v] = <<>> /\ (v \in Webs => register'[v] = {})
  BY <1>2 DEF Werkend, Werker
<1> QED
  BY <1>1, <1>3 DEF TypeOK, ReqType, Overig

LEMMA StapSloten ==
  ASSUME IInv, NEW w \in Werkers, NEW q, NEW reg, NEW s, Zet(w, q, reg, s), Werker(w, q, reg, s), Mag(w, q)
  PROVE  Sloten'
<1>1. req'[w] = q /\ \A v \in Werkers \ {w} : req'[v] = req[v]
  BY StapZet DEF IInv
<1>2. ASSUME NEW v \in Werkers, v # w, req[v].fase = "transactie", q.fase = "transactie"
      PROVE  Geraakt(v) \cap GeraaktVan(q) = {}
  <2>1. ASSUME NEW z \in GeraaktVan(q) PROVE z \notin Geraakt(v)
    <3>1. CASE req[w].fase = "transactie" /\ z \in Geraakt(w)
      BY <1>2, <3>1 DEF IInv, Sloten
    <3>2. CASE Vrij(w, z)
      BY <1>2, <3>2 DEF Vrij
    <3> QED
      BY <1>2, <2>1, <3>1, <3>2 DEF Mag
  <2> QED
    BY <2>1
<1>3. \A v \in Werkers \ {w} : Geraakt(v)' = Geraakt(v)
  BY <1>1 DEF Geraakt
<1>4. Geraakt(w)' = GeraaktVan(q)
  BY <1>1 DEF Geraakt, GeraaktVan
<1> SUFFICES ASSUME NEW u \in Werkers, NEW v \in Werkers, u # v,
                    req'[u].fase = "transactie", req'[v].fase = "transactie"
             PROVE  Geraakt(u)' \cap Geraakt(v)' = {}
  BY DEF Sloten
<1>5. CASE u = w
  BY <1>1, <1>2, <1>3, <1>4, <1>5
<1>6. CASE v = w
  BY <1>1, <1>2, <1>3, <1>4, <1>6
<1>7. CASE u # w /\ v # w
  BY <1>1, <1>3, <1>7 DEF IInv, Sloten
<1> QED
  BY <1>5, <1>6, <1>7

LEMMA StapBerichten ==
  ASSUME IInv, NEW w \in Werkers, NEW q, NEW reg, NEW s, Zet(w, q, reg, s), Werker(w, q, reg, s),
         Overig, Gestuurd(q), Vindt(q), Behouden(w)
  PROVE  Berichten'
<1>1. req'[w] = q /\ \A v \in Werkers \ {w} : req'[v] = req[v]
  BY StapZet DEF IInv
<1> SUFFICES ASSUME NEW v \in Werkers, req'[v].over # Geen
             PROVE  /\ req'[v].nr \in 1..Len(log'[req'[v].over])
                    /\ req'[v].fase = "transactie" => req'[v].aantal <= koppelingen'[req'[v].over]
  BY DEF Berichten
<1>2. CASE v = w
  BY <1>1, <1>2 DEF Gestuurd, Vindt
<1>3. CASE v # w
  <2>1. req[v] \in ReqType
    BY DEF IInv, TypeOK, ReqType
  <2>2. req[v].over \in Paren /\ req[v].nr \in 1..Len(log[req[v].over]) /\ req'[v] = req[v]
    BY <1>1, <1>3, <2>1 DEF IInv, Berichten, ReqType
  <2>3. Len(log[req[v].over]) \in Nat /\ Len(log'[req[v].over]) \in Nat
    BY <2>2 DEF IInv, TypeOK, Overig
  <2>4. req[v].nr \in 1..Len(log'[req[v].over])
    BY <2>2, <2>3 DEF Overig
  <2> QED
    BY <1>3, <2>2, <2>4 DEF Behouden
<1> QED
  BY <1>2, <1>3

LEMMA StapInv ==
  ASSUME IInv, NEW w \in Werkers, NEW q, NEW reg, NEW s, Zet(w, q, reg, s), Werker(w, q, reg, s),
         Mag(w, q), Overig, Gestuurd(q), Vindt(q), Behouden(w)
  PROVE  IInv'
BY StapTypeOK, StapWerkend, StapSloten, StapBerichten DEF IInv

\* The books add up after the step of w.
LEMMA StapTelling ==
  ASSUME GebeurtenissenAssumption, IInv, EenBerichtPerWijziging,
         NEW w \in Werkers, NEW q, NEW reg, NEW s, Zet(w, q, reg, s), Werker(w, q, reg, s), Boekt(w, q, s)
  PROVE  EenBerichtPerWijziging'
<1>1. /\ req'[w] = q /\ wacht'[w] = s
      /\ \A v \in Werkers \ {w} : req'[v] = req[v] /\ wacht'[v] = wacht[v]
  BY StapZet DEF IInv
<1>2. Open(w)' = OpenVan(q, s) /\ \A v \in Werkers \ {w} : Open(v)' = Open(v)
  BY <1>1 DEF Open, OpenVan
<1> SUFFICES ASSUME NEW k \in Sleutels
             PROVE  achterstand'[k] = Cardinality({v \in Werkers : k \in Open(v)'})
  BY DEF EenBerichtPerWijziging
<1> DEFINE S == {v \in Werkers : k \in Open(v)}
           T == {v \in Werkers : k \in Open(v)'}
<1>3. PICK c, d : c = Telt(k \in OpenVan(q, s)) /\ d = Telt(k \in Open(w))
  OBVIOUS
<1>10. /\ c = IF k \in OpenVan(q, s) THEN 1 ELSE 0
       /\ d = IF k \in Open(w) THEN 1 ELSE 0
       /\ c \in 0..1 /\ d \in 0..1
  BY <1>3 DEF Telt
<1>4. IsFiniteSet(Werkers)
  BY DEF GebeurtenissenAssumption, Werkers
<1>5. IsFiniteSet(S) /\ IsFiniteSet(T)
  BY <1>4, FS_Subset
<1>6. Cardinality(S) \in Nat
  BY <1>5, FS_CardinalityType
<1>11. achterstand'[k] = Cardinality(S) + c - d
  BY <1>3 DEF EenBerichtPerWijziging, Boekt
<1> HIDE DEF S, T
<1>7. CASE (k \in Open(w)) = (k \in OpenVan(q, s))
  <2>1. S = T
    BY <1>2, <1>7 DEF S, T
  <2> QED
    BY <2>1, <1>11, <1>10, <1>6, <1>7 DEF T
<1>8. CASE k \in Open(w) /\ k \notin OpenVan(q, s)
  <2>1. T = S \ {w} /\ w \in S
    BY <1>2, <1>8 DEF S, T
  <2>2. Cardinality(S \ {w}) = Cardinality(S) - 1
    BY <2>1, <1>5, FS_RemoveElement
  <2>3. c = 0 /\ d = 1
    BY <1>10, <1>8
  <2>4. achterstand'[k] = Cardinality(T)
    BY <2>1, <2>2, <2>3, <1>11, <1>6
  <2> QED
    BY <2>4 DEF T
<1>9. CASE k \notin Open(w) /\ k \in OpenVan(q, s)
  <2>1. T = S \cup {w} /\ w \notin S
    BY <1>2, <1>9 DEF S, T
  <2>2. Cardinality(S \cup {w}) = Cardinality(S) + 1
    BY <2>1, <1>5, FS_AddElement
  <2>3. c = 1 /\ d = 0
    BY <1>10, <1>9
  <2>4. achterstand'[k] = Cardinality(T)
    BY <2>1, <2>2, <2>3, <1>11, <1>6
  <2> QED
    BY <2>4 DEF T
<1> QED
  BY <1>7, <1>8, <1>9

\* Plan registers the events that the registry does not have, after the callbacks that were
\* there.
LEMMA PlanGoed ==
  ASSUME TypeOK, NEW w \in Werkers, NEW eerst \in Seq(Callbacks), Eenmalig(eerst), Gepland(eerst) = {},
         NEW ks \in SUBSET Sleutels, NEW dan \in SUBSET Sleutels, ks \cap dan = {},
         IsFiniteSet(ks), IsFiniteSet(dan),
         Eenmalig(wacht[w]), Gepland(wacht[w]) \subseteq register[w], Plan(w, eerst, ks, dan)
  PROVE  \E s \in Seq(Callbacks) :
           /\ Eenmalig(s)
           /\ Gepland(s) = Gepland(wacht[w]) \cup ((ks \cup dan) \ register[w])
           /\ wacht' = [wacht EXCEPT ![w] = s]
           /\ register' = [register EXCEPT ![w] = register[w] \cup ks \cup dan]
<1>1. PICK oud : oud = wacht[w]
  OBVIOUS
<1>2. PICK reg : reg = register[w]
  OBVIOUS
<1>3. oud \in Seq(Callbacks) /\ Eenmalig(oud) /\ Gepland(oud) \subseteq reg
  BY <1>1, <1>2 DEF TypeOK
<1>4. PICK g \in SetToSeqs(ks \ reg), v \in SetToSeqs(dan \ reg) : wacht' = [wacht EXCEPT ![w] = oud \o eerst \o g \o v]
  BY <1>1, <1>2 DEF Plan, Ongepland
<1>5. g \in Seq(Callbacks) /\ Eenmalig(g) /\ Gepland(g) = ks \ reg
  <2>1. ks \ reg \in SUBSET Sleutels /\ IsFiniteSet(ks \ reg)
    BY FS_Subset
  <2> QED
    BY <2>1, <1>4, InVolgorde
<1>6. v \in Seq(Callbacks) /\ Eenmalig(v) /\ Gepland(v) = dan \ reg
  <2>1. dan \ reg \in SUBSET Sleutels /\ IsFiniteSet(dan \ reg)
    BY FS_Subset
  <2> QED
    BY <2>1, <1>4, InVolgorde
<1>7. PICK a : a = oud \o eerst
  OBVIOUS
<1>8. a \in Seq(Callbacks) /\ Eenmalig(a) /\ Gepland(a) = Gepland(oud)
  <2>1. Gepland(oud) \cap Gepland(eerst) = {}
    OBVIOUS
  <2>2. oud \o eerst \in Seq(Callbacks) /\ Eenmalig(oud \o eerst)
        /\ Gepland(oud \o eerst) = Gepland(oud) \cup Gepland(eerst)
    BY <2>1, <1>3, Achter
  <2> QED
    BY <2>2, <1>7
<1>9. PICK b : b = a \o g
  OBVIOUS
<1>10. b \in Seq(Callbacks) /\ Eenmalig(b) /\ Gepland(b) = Gepland(oud) \cup (ks \ reg)
  <2>1. Gepland(a) \cap Gepland(g) = {}
    BY <1>3, <1>5, <1>8
  <2> QED
    BY <2>1, <1>5, <1>8, <1>9, Achter
<1>11. PICK s : s = b \o v
  OBVIOUS
<1>12. s \in Seq(Callbacks) /\ Eenmalig(s) /\ Gepland(s) = Gepland(oud) \cup (ks \ reg) \cup (dan \ reg)
  <2>1. Gepland(b) \cap Gepland(v) = {}
    BY <1>3, <1>6, <1>10
  <2> QED
    BY <2>1, <1>6, <1>10, <1>11, Achter
<1>13. wacht' = [wacht EXCEPT ![w] = s]
  BY <1>4, <1>7, <1>9, <1>11
<1>14. register' = [register EXCEPT ![w] = register[w] \cup ks \cup dan]
  BY DEF Plan
<1>15. Gepland(s) = Gepland(wacht[w]) \cup ((ks \cup dan) \ register[w])
  BY <1>1, <1>2, <1>12
<1> QED
  BY <1>12, <1>13, <1>14, <1>15

-----------------------------------------------------------------------------
(* The steps of a worker. *)

\* A step of w keeps the invariant and the books.
Goed(w) ==
  /\ \E q, reg, s :
       /\ Zet(w, q, reg, s) /\ Werker(w, q, reg, s)
       /\ Mag(w, q) /\ Boekt(w, q, s) /\ Gestuurd(q) /\ Vindt(q)
  /\ Overig
  /\ Behouden(w)

LEMMA GoedInv ==
  ASSUME GebeurtenissenAssumption, IInv, NEW w \in Werkers, Goed(w)
  PROVE  IInv' /\ (EenBerichtPerWijziging => EenBerichtPerWijziging')
<1>1. PICK q, reg, s : /\ Zet(w, q, reg, s) /\ Werker(w, q, reg, s)
                       /\ Mag(w, q) /\ Boekt(w, q, s) /\ Gestuurd(q) /\ Vindt(q)
  BY DEF Goed
<1>2. IInv'
  BY <1>1, StapInv DEF Goed
<1>3. EenBerichtPerWijziging => EenBerichtPerWijziging'
  BY <1>1, StapTelling
<1> QED
  BY <1>2, <1>3

LEMMA RustVelden ==
  ASSUME GebeurtenissenAssumption
  PROVE  /\ Rust \in ReqType
         /\ Rust.fase = "rust" /\ Rust.moet = {} /\ Rust.nieuw = {} /\ Rust.weg = {} /\ Rust.stil = {}
         /\ Rust.over = Geen /\ Rust.nr = 0 /\ Rust.aantal = 0
BY DEF Rust, ReqType, GebeurtenissenAssumption

\* What is there of each worker, and what stays when nothing is set.
LEMMA Nu ==
  ASSUME IInv, NEW w \in Werkers
  PROVE  /\ Werker(w, req[w], register[w], wacht[w])
         /\ req[w] \in ReqType /\ register[w] \in SUBSET Sleutels /\ wacht[w] \in Seq(Callbacks)
         /\ req = [req EXCEPT ![w] = req[w]]
         /\ register = [register EXCEPT ![w] = register[w]]
         /\ wacht = [wacht EXCEPT ![w] = wacht[w]]
<1>1. Werker(w, req[w], register[w], wacht[w])
  BY DEF IInv, Werkend
<1>2. req[w] \in ReqType /\ register[w] \in SUBSET Sleutels /\ wacht[w] \in Seq(Callbacks)
  BY <1>1 DEF Werker
<1>3. DOMAIN req = Werkers /\ req = [v \in Werkers |-> req[v]]
  BY DEF IInv, TypeOK
<1>4. DOMAIN register = Werkers /\ register = [v \in Werkers |-> register[v]]
  BY DEF IInv, TypeOK
<1>5. DOMAIN wacht = Werkers /\ wacht = [v \in Werkers |-> wacht[v]]
  BY DEF IInv, TypeOK
<1> QED
  BY <1>1, <1>2, <1>3, <1>4, <1>5

\* Only a worker that calls back, or linked a zaak, has something to announce.
LEMMA OpenLeeg ==
  ASSUME NEW q, NEW s, q.fase \notin {"na", "gekoppeld"}
  PROVE  OpenVan(q, s) = {}
BY DEF OpenVan

LEMMA BoektNiets ==
  ASSUME IInv, NEW w \in Werkers, NEW q, NEW s, achterstand' = achterstand,
         \A k \in Sleutels : k \in OpenVan(q, s) <=> k \in OpenVan(req[w], wacht[w])
  PROVE  Boekt(w, q, s)
<1> SUFFICES ASSUME NEW k \in Sleutels
             PROVE  achterstand[k] = achterstand[k] + Telt(k \in OpenVan(q, s)) - Telt(k \in Open(w))
  BY DEF Boekt
<1>1. achterstand[k] \in Int
  BY DEF IInv, TypeOK
<1>2. PICK n : n = achterstand[k]
  OBVIOUS
<1>3. Telt(k \in OpenVan(q, s)) = Telt(k \in Open(w)) /\ Telt(k \in Open(w)) \in 0..1
  BY OpenIs DEF Telt
<1> QED
  BY <1>1, <1>3

\* What is lost is no longer to announce.
LEMMA BoektGemist ==
  ASSUME IInv, NEW w \in Werkers, NEW q, NEW s, Gemist(w), OpenVan(q, s) = {}
  PROVE  Boekt(w, q, s) /\ achterstand' \in [Sleutels -> Int]
<1>1. achterstand \in [Sleutels -> Int]
  BY DEF IInv, TypeOK
<1>2. achterstand' \in [Sleutels -> Int]
  BY <1>1 DEF Gemist
<1> SUFFICES ASSUME NEW k \in Sleutels
             PROVE  achterstand'[k] = achterstand[k] + Telt(k \in OpenVan(q, s)) - Telt(k \in Open(w))
  BY <1>2 DEF Boekt
<1>3. achterstand'[k] = IF k \in Open(w) THEN achterstand[k] - 1 ELSE achterstand[k]
  BY DEF Gemist
<1>4. Telt(k \in OpenVan(q, s)) = 0 /\ Telt(k \in Open(w)) = IF k \in Open(w) THEN 1 ELSE 0
  BY DEF Telt
<1> QED
  BY <1>1, <1>3, <1>4

LEMMA GestuurdAl ==
  ASSUME IInv, NEW w \in Werkers, NEW q, q.over = req[w].over, q.nr = req[w].nr, log' = log
  PROVE  Gestuurd(q)
BY DEF IInv, Berichten, Gestuurd

LEMMA VindtNog ==
  ASSUME IInv, NEW w \in Werkers, NEW q, koppelingen' = koppelingen,
         q.over = req[w].over, q.aantal = req[w].aantal, q.fase = "transactie" => req[w].fase = "transactie"
  PROVE  Vindt(q)
BY DEF IInv, Berichten, Vindt

\* Nobody else loses zaakobjecten when none are deleted.
LEMMA NietsWeg ==
  ASSUME IInv, NEW w \in Werkers, koppelingen' \in [Paren -> Nat], \A p \in Paren : koppelingen[p] <= koppelingen'[p]
  PROVE  Behouden(w)
<1> SUFFICES ASSUME NEW v \in Werkers, req[v].fase = "transactie", req[v].over # Geen
             PROVE  req[v].aantal <= koppelingen'[req[v].over]
  BY DEF Behouden
<1>1. req[v] \in ReqType
  BY Nu
<1>2. PICK p : p = req[v].over
  OBVIOUS
<1>3. p \in Paren /\ req[v].aantal \in Nat
  BY <1>1, <1>2 DEF ReqType
<1>4. req[v].aantal <= koppelingen[p]
  BY <1>2 DEF IInv, Berichten
<1>5. koppelingen[p] \in Nat /\ koppelingen'[p] \in Nat /\ koppelingen[p] <= koppelingen'[p]
  BY <1>3 DEF IInv, TypeOK
<1> QED
  BY <1>2, <1>3, <1>4, <1>5

\* A step that leaves the tables and the messages alone.
LEMMA Stil ==
  ASSUME IInv, NEW w \in Werkers, UNCHANGED <<zaken, koppelingen, inVars>>,
         achterstand' \in [Sleutels -> Int], fouten' \in 0..MaxFouten
  PROVE  Overig /\ Behouden(w)
<1>1. \A p \in Paren : Len(log[p]) \in Nat /\ koppelingen[p] \in Nat
  BY DEF IInv, TypeOK
<1>2. Overig
  BY <1>1 DEF IInv, TypeOK, Overig, inVars
<1>3. Behouden(w)
  <2>1. koppelingen \in [Paren -> Nat] /\ koppelingen' = koppelingen
    BY DEF IInv, TypeOK
  <2>2. koppelingen' \in [Paren -> Nat] /\ \A p \in Paren : koppelingen[p] <= koppelingen'[p]
    BY <2>1
  <2> QED
    BY <2>2, NietsWeg
<1> QED
  BY <1>2, <1>3

\* One event.
LEMMA PlanEen ==
  ASSUME TypeOK, NEW w \in Werkers, NEW k \in Sleutels,
         Eenmalig(wacht[w]), Gepland(wacht[w]) \subseteq register[w], Plan(w, <<>>, {k}, {})
  PROVE  \E s \in Seq(Callbacks) :
           /\ Eenmalig(s)
           /\ Gepland(s) = Gepland(wacht[w]) \cup ({k} \ register[w])
           /\ wacht' = [wacht EXCEPT ![w] = s]
           /\ register' = [register EXCEPT ![w] = register[w] \cup {k}]
<1>1. PICK eerst, ks, dan : eerst = <<>> /\ ks = {k} /\ dan = {}
  OBVIOUS
<1>2. eerst \in Seq(Callbacks) /\ Eenmalig(eerst) /\ Gepland(eerst) = {}
  BY <1>1, GeenCallbacks
<1>3. ks \in SUBSET Sleutels /\ dan \in SUBSET Sleutels /\ ks \cap dan = {}
  BY <1>1
<1>4. IsFiniteSet(ks) /\ IsFiniteSet(dan)
  BY <1>1, FS_Singleton, FS_EmptySet
<1>5. Plan(w, eerst, ks, dan)
  BY <1>1
<1>6. PICK s \in Seq(Callbacks) :
           /\ Eenmalig(s)
           /\ Gepland(s) = Gepland(wacht[w]) \cup ((ks \cup dan) \ register[w])
           /\ wacht' = [wacht EXCEPT ![w] = s]
           /\ register' = [register EXCEPT ![w] = register[w] \cup ks \cup dan]
  BY <1>2, <1>3, <1>4, <1>5, PlanGoed
<1>7. ks \cup dan = {k} /\ register[w] \cup ks \cup dan = register[w] \cup {k}
  BY <1>1
<1> QED
  BY <1>6, <1>7

LEMMA GoedBegin ==
  ASSUME GebeurtenissenAssumption, IInv, NEW w \in Werkers, Begin(w)
  PROVE  Goed(w)
<1>1. PICK reg : reg = Reset(w)
  OBVIOUS
<1>2. PICK st : st = IF w \in Taken THEN register[w] ELSE {}
  OBVIOUS
<1>3. PICK q : q = [Rust EXCEPT !.fase = "transactie", !.stil = st]
  OBVIOUS
<1>4. req[w].fase = "rust" /\ wacht[w] = <<>> /\ register[w] \in SUBSET Sleutels
  <2>1. Werker(w, req[w], register[w], wacht[w])
    BY Nu
  <2> QED
    BY <2>1 DEF Begin, Werker
<1>5. reg = st /\ st \in SUBSET Sleutels /\ (w \in Webs => st = {})
  BY <1>1, <1>2, <1>4 DEF Reset, Werkers, GebeurtenissenAssumption
<1>6. /\ q \in ReqType
      /\ q.fase = "transactie" /\ q.moet = {} /\ q.nieuw = {} /\ q.weg = {} /\ q.stil = st
      /\ q.over = Geen /\ q.aantal = 0
  BY <1>3, <1>5, RustVelden DEF ReqType, Rust
<1>7. Zet(w, q, reg, <<>>)
  <2>1. req' = [req EXCEPT ![w] = q]
    BY <1>2, <1>3 DEF Begin
  <2>2. register' = [register EXCEPT ![w] = reg]
    BY <1>1 DEF Begin
  <2>3. wacht' = [wacht EXCEPT ![w] = <<>>]
    BY <1>4, Nu DEF Begin
  <2> QED
    BY <2>1, <2>2, <2>3 DEF Zet
<1>8. Werker(w, q, reg, <<>>)
  BY <1>5, <1>6, GeenCallbacks DEF Werker
<1>9. Mag(w, q) /\ Gestuurd(q) /\ Vindt(q)
  BY <1>6 DEF Mag, GeraaktVan, Gestuurd, Vindt
<1>10. Boekt(w, q, <<>>)
  <2>1. OpenVan(q, <<>>) = {} /\ OpenVan(req[w], wacht[w]) = {}
    BY <1>4, <1>6, OpenLeeg
  <2> QED
    BY <2>1, BoektNiets DEF Begin
<1>11. Overig /\ Behouden(w)
  BY Stil DEF Begin, IInv, TypeOK
<1> QED
  BY <1>7, <1>8, <1>9, <1>10, <1>11 DEF Goed

LEMMA GoedWijzig ==
  ASSUME GebeurtenissenAssumption, IInv, NEW w \in Werkers, NEW z \in Zaken, Wijzig(w, z)
  PROVE  Goed(w)
<1>1. PICK oud, k : oud = req[w] /\ k = <<"gemuteerd", z>>
  OBVIOUS
<1>2. PICK q : q = [oud EXCEPT !.moet = @ \cup {k}]
  OBVIOUS
<1>3. PICK reg : reg = register[w] \cup {k}
  OBVIOUS
<1>4. k \in Sleutels /\ k[1] = "gemuteerd" /\ k[2] = z
  BY <1>1 DEF Sleutels
<1>5. Werker(w, oud, register[w], wacht[w]) /\ oud \in ReqType /\ oud.fase = "transactie"
  BY <1>1, Nu DEF Wijzig
<1>6. /\ q \in ReqType
      /\ q.fase = "transactie" /\ q.moet = oud.moet \cup {k} /\ q.nieuw = oud.nieuw /\ q.weg = oud.weg
      /\ q.stil = oud.stil /\ q.over = oud.over /\ q.nr = oud.nr /\ q.aantal = oud.aantal
  BY <1>2, <1>4, <1>5 DEF ReqType
<1>7. PICK s \in Seq(Callbacks) :
           /\ Eenmalig(s)
           /\ Gepland(s) = Gepland(wacht[w]) \cup ({k} \ register[w])
           /\ wacht' = [wacht EXCEPT ![w] = s]
           /\ register' = [register EXCEPT ![w] = reg]
  <2>1. Plan(w, <<>>, {k}, {})
    BY <1>1 DEF Wijzig
  <2>2. Eenmalig(wacht[w]) /\ Gepland(wacht[w]) \subseteq register[w]
    BY <1>5 DEF Werker
  <2> QED
    BY <2>1, <2>2, <1>3, <1>4, PlanEen DEF IInv
<1>8. Zet(w, q, reg, s)
  <2>1. req' = [req EXCEPT ![w] = q]
    BY <1>1, <1>2 DEF Wijzig
  <2> QED
    BY <2>1, <1>7 DEF Zet
<1>9. Werker(w, q, reg, s)
  <2>1. reg = q.stil \cup q.moet /\ Gepland(s) = q.moet \ q.stil /\ reg \in SUBSET Sleutels
    BY <1>3, <1>4, <1>5, <1>6, <1>7 DEF Werker
  <2>2. w \in Webs => q.stil = {} /\ (q.weg = {} => \A l \in reg : l[1] = "gemuteerd")
    BY <1>3, <1>4, <1>5, <1>6 DEF Werker
  <2>3. q.over = Geen => q.aantal = 0
    BY <1>5, <1>6 DEF Werker
  <2>4. q.over # Geen => <<"gemuteerd", q.over[1]>> \in q.moet /\ q.weg = {}
    BY <1>5, <1>6 DEF Werker
  <2> QED
    BY <2>1, <2>2, <2>3, <2>4, <1>6, <1>7 DEF Werker
<1>10. Mag(w, q)
  <2>1. GeraaktVan(q) = Geraakt(w) \cup {z}
    BY <1>1, <1>4, <1>6 DEF GeraaktVan, Geraakt
  <2>2. Vrij(w, z) /\ req[w].fase = "transactie"
    BY DEF Wijzig
  <2> QED
    BY <2>1, <2>2 DEF Mag
<1>11. Gestuurd(q) /\ Vindt(q)
  BY <1>1, <1>5, <1>6, GestuurdAl, VindtNog DEF Wijzig, inVars
<1>12. Boekt(w, q, s)
  <2>1. OpenVan(q, s) = {} /\ OpenVan(req[w], wacht[w]) = {}
    BY <1>1, <1>5, <1>6, OpenLeeg
  <2> QED
    BY <2>1, BoektNiets DEF Wijzig
<1>13. Overig /\ Behouden(w)
  BY Stil DEF Wijzig, IInv, TypeOK
<1> QED
  BY <1>8, <1>9, <1>10, <1>11, <1>12, <1>13 DEF Goed

LEMMA GoedMaak ==
  ASSUME GebeurtenissenAssumption, IInv, NEW w \in Werkers, NEW z \in Zaken, Maak(w, z)
  PROVE  Goed(w)
<1>1. PICK oud : oud = req[w]
  OBVIOUS
<1>2. PICK q : q = [oud EXCEPT !.nieuw = @ \cup {z}]
  OBVIOUS
<1>3. PICK reg, s : reg = register[w] /\ s = wacht[w]
  OBVIOUS
<1>4. Werker(w, oud, reg, s) /\ oud \in ReqType /\ oud.fase = "transactie"
  BY <1>1, <1>3, Nu DEF Maak
<1>5. /\ q \in ReqType
      /\ q.fase = "transactie" /\ q.moet = oud.moet /\ q.nieuw = oud.nieuw \cup {z} /\ q.weg = oud.weg
      /\ q.stil = oud.stil /\ q.over = oud.over /\ q.nr = oud.nr /\ q.aantal = oud.aantal
  BY <1>2, <1>4 DEF ReqType
<1>6. Zet(w, q, reg, s)
  <2>1. req' = [req EXCEPT ![w] = q]
    BY <1>1, <1>2 DEF Maak
  <2> QED
    BY <2>1, <1>3, Nu DEF Zet, Maak
<1>7. Werker(w, q, reg, s)
  BY <1>4, <1>5 DEF Werker
<1>8. Mag(w, q)
  <2>1. GeraaktVan(q) = Geraakt(w) \cup {z}
    BY <1>1, <1>5 DEF GeraaktVan, Geraakt
  <2>2. Vrij(w, z) /\ req[w].fase = "transactie"
    BY DEF Maak
  <2> QED
    BY <2>1, <2>2 DEF Mag
<1>9. Gestuurd(q) /\ Vindt(q)
  BY <1>1, <1>4, <1>5, GestuurdAl, VindtNog DEF Maak, inVars
<1>10. Boekt(w, q, s)
  <2>1. OpenVan(q, s) = {} /\ OpenVan(req[w], wacht[w]) = {}
    BY <1>1, <1>4, <1>5, OpenLeeg
  <2> QED
    BY <2>1, BoektNiets DEF Maak
<1>11. Overig /\ Behouden(w)
  BY Stil DEF Maak, IInv, TypeOK
<1> QED
  BY <1>6, <1>7, <1>8, <1>9, <1>10, <1>11 DEF Goed

LEMMA GoedMeld ==
  ASSUME GebeurtenissenAssumption, IInv, NEW w \in Werkers, NEW z \in Zaken, Meld(w, z)
  PROVE  Goed(w)
<1>1. PICK q, reg, c : q = req[w] /\ reg = register[w] /\ c = <<"melding", z>>
  OBVIOUS
<1>2. PICK oud : oud = wacht[w]
  OBVIOUS
<1>3. PICK s : s = oud \o <<c>>
  OBVIOUS
<1>4. Werker(w, q, reg, oud) /\ q.fase = "transactie" /\ oud \in Seq(Callbacks)
  BY <1>1, <1>2, Nu DEF Meld
<1>5. c \in Callbacks /\ c \notin Sleutels
  BY <1>1 DEF Callbacks, Sleutels
<1>6. s \in Seq(Callbacks) /\ Eenmalig(s) /\ Gepland(s) = Gepland(oud)
  <2>1. <<c>> \in Seq(Callbacks) /\ Eenmalig(<<c>>) /\ Gepland(<<c>>) = {}
    BY <1>5, EenCallback
  <2>2. Eenmalig(oud) /\ Gepland(oud) \cap Gepland(<<c>>) = {}
    BY <2>1, <1>4 DEF Werker
  <2>3. /\ oud \o <<c>> \in Seq(Callbacks) /\ Eenmalig(oud \o <<c>>)
        /\ Gepland(oud \o <<c>>) = Gepland(oud) \cup Gepland(<<c>>)
    BY <2>1, <2>2, <1>4, Achter
  <2> QED
    BY <2>1, <2>3, <1>3
<1>7. Zet(w, q, reg, s)
  <2>1. Append(oud, c) = s
    BY <1>3, <1>4, <1>5
  <2>2. wacht' = [wacht EXCEPT ![w] = s]
    BY <2>1, <1>1, <1>2 DEF Meld
  <2> QED
    BY <2>2, <1>1, Nu DEF Zet, Meld
<1>8. Werker(w, q, reg, s)
  BY <1>4, <1>6 DEF Werker
<1>9. Mag(w, q)
  <2>1. GeraaktVan(q) = Geraakt(w)
    BY <1>1 DEF GeraaktVan, Geraakt
  <2> QED
    BY <2>1 DEF Mag, Meld
<1>10. Gestuurd(q) /\ Vindt(q)
  BY <1>1, GestuurdAl, VindtNog DEF Meld, inVars
<1>11. Boekt(w, q, s)
  <2>1. OpenVan(q, s) = {} /\ OpenVan(req[w], wacht[w]) = {}
    BY <1>1, <1>4, OpenLeeg
  <2> QED
    BY <2>1, BoektNiets DEF Meld
<1>12. Overig /\ Behouden(w)
  BY Stil DEF Meld, IInv, TypeOK
<1> QED
  BY <1>7, <1>8, <1>9, <1>10, <1>11, <1>12 DEF Goed

LEMMA GoedVerwijder ==
  ASSUME GebeurtenissenAssumption, IInv, NEW w \in Werkers, NEW z \in Zaken, NEW met \in SUBSET Zaken,
         Verwijder(w, z, met)
  PROVE  Goed(w)
<1>1. PICK oud, weg : oud = req[w] /\ weg = {x \in Zicht(w) : x = z \/ HoofdVan[x] = z}
  OBVIOUS
<1>2. PICK gem, ver, oio : gem = {"gemuteerd"} \X met /\ ver = {"verwijderd"} \X weg /\ oio = <<<<"oio", Geen>>>>
  OBVIOUS
<1>3. PICK q : q = [oud EXCEPT !.weg = weg, !.moet = gem \cup ver]
  OBVIOUS
<1>4. /\ w \in Webs /\ oud.fase = "transactie" /\ oud.moet = {} /\ oud.nieuw = {}
      /\ z \in weg /\ met \subseteq weg
      /\ \A x \in weg : Vrij(w, x)
      /\ Plan(w, oio, gem, ver)
      /\ req' = [req EXCEPT ![w].weg = weg, ![w].moet = gem \cup ver]
  <2>1. weg \subseteq Zaken
    <3>1. req[w] \in ReqType
      BY Nu
    <3> QED
      BY <3>1, <1>1 DEF Zicht, ReqType, IInv, TypeOK
  <2>2. \A x \in weg : Vrij(w, x)
    BY <1>1, <2>1 DEF Verwijder
  <2>3. Plan(w, oio, gem, ver)
    BY <1>1, <1>2 DEF Verwijder
  <2>4. req' = [req EXCEPT ![w].weg = weg, ![w].moet = gem \cup ver]
    BY <1>1, <1>2 DEF Verwijder
  <2>5. w \in Webs /\ oud.fase = "transactie" /\ oud.moet = {} /\ oud.nieuw = {} /\ z \in weg /\ met \subseteq weg
    BY <1>1 DEF Verwijder
  <2> QED
    BY <2>2, <2>3, <2>4, <2>5
<1>5. Werker(w, oud, register[w], wacht[w]) /\ oud \in ReqType
  BY <1>1, Nu
<1>6. oud.stil = {} /\ register[w] = {} /\ Gepland(wacht[w]) = {} /\ oud.over = Geen /\ oud.aantal = 0
      /\ Eenmalig(wacht[w])
  BY <1>4, <1>5 DEF Werker
<1>7. weg \in SUBSET Zaken /\ gem \in SUBSET Sleutels /\ ver \in SUBSET Sleutels /\ gem \cap ver = {}
  <2>1. weg \subseteq Zaken
    BY <1>1, <1>5 DEF Zicht, ReqType, IInv, TypeOK
  <2> QED
    BY <2>1, <1>2 DEF Sleutels
<1>8. IsFiniteSet(gem) /\ IsFiniteSet(ver)
  <2>1. IsFiniteSet(met) /\ IsFiniteSet(weg)
    BY <1>7, FS_Subset DEF GebeurtenissenAssumption
  <2>2. IsFiniteSet({"gemuteerd"}) /\ IsFiniteSet({"verwijderd"})
    BY FS_Singleton
  <2> QED
    BY <2>1, <2>2, <1>2, FS_Product
<1>9. oio \in Seq(Callbacks) /\ Eenmalig(oio) /\ Gepland(oio) = {}
  <2>1. PICK c : c = <<"oio", Geen>>
    OBVIOUS
  <2>2. c \in Callbacks /\ c \notin Sleutels
    BY <2>1 DEF Callbacks, Sleutels
  <2>3. <<c>> \in Seq(Callbacks) /\ Eenmalig(<<c>>) /\ Gepland(<<c>>) = {}
    BY <2>2, EenCallback
  <2> QED
    BY <2>1, <2>3, <1>2
<1>10. PICK reg : reg = gem \cup ver
  OBVIOUS
<1>11. PICK s \in Seq(Callbacks) :
           /\ Eenmalig(s)
           /\ Gepland(s) = gem \cup ver
           /\ wacht' = [wacht EXCEPT ![w] = s]
           /\ register' = [register EXCEPT ![w] = reg]
  <2>1. PICK s \in Seq(Callbacks) :
           /\ Eenmalig(s)
           /\ Gepland(s) = Gepland(wacht[w]) \cup ((gem \cup ver) \ register[w])
           /\ wacht' = [wacht EXCEPT ![w] = s]
           /\ register' = [register EXCEPT ![w] = register[w] \cup gem \cup ver]
    <3>1. TypeOK /\ Gepland(wacht[w]) \subseteq register[w]
      BY <1>6 DEF IInv
    <3> QED
      BY <3>1, <1>4, <1>6, <1>7, <1>8, <1>9, PlanGoed, SMTT(30)
  <2>2. register[w] \cup gem \cup ver = reg /\ Gepland(s) = gem \cup ver
    BY <2>1, <1>6, <1>10
  <2> QED
    BY <2>1, <2>2
<1>12. /\ q \in ReqType
       /\ q.fase = "transactie" /\ q.moet = gem \cup ver /\ q.nieuw = {} /\ q.weg = weg
       /\ q.stil = {} /\ q.over = Geen /\ q.aantal = 0
  BY <1>3, <1>4, <1>5, <1>6, <1>7 DEF ReqType
<1>13. Zet(w, q, reg, s)
  <2>1. req' = [req EXCEPT ![w] = q]
    BY <1>1, <1>3, <1>4
  <2> QED
    BY <2>1, <1>11 DEF Zet
<1>14. Werker(w, q, reg, s)
  <2>1. q.weg # {}
    BY <1>4, <1>12
  <2>2. reg = q.stil \cup q.moet /\ Gepland(s) = q.moet \ q.stil /\ reg \in SUBSET Sleutels
    BY <1>7, <1>10, <1>11, <1>12
  <2> QED
    BY <2>1, <2>2, <1>11, <1>12 DEF Werker
<1>15. Mag(w, q)
  <2>1. GeraaktVan(q) \subseteq weg
    BY <1>2, <1>4, <1>12 DEF GeraaktVan
  <2> QED
    BY <2>1, <1>4 DEF Mag
<1>16. Gestuurd(q) /\ Vindt(q)
  BY <1>12 DEF Gestuurd, Vindt
<1>17. Boekt(w, q, s)
  <2>1. OpenVan(q, s) = {} /\ OpenVan(req[w], wacht[w]) = {}
    BY <1>1, <1>4, <1>12, OpenLeeg
  <2> QED
    BY <2>1, BoektNiets DEF Verwijder
<1>18. Overig /\ Behouden(w)
  BY Stil DEF Verwijder, IInv, TypeOK
<1> QED
  BY <1>13, <1>14, <1>15, <1>16, <1>17, <1>18 DEF Goed

\* What a commit does to the zaakobjecten: those of its message are there, and those that
\* another worker is going to delete stay.
LEMMA CommitTelt ==
  ASSUME GebeurtenissenAssumption, IInv, NEW w \in Werkers, Commit(w)
  PROVE  koppelingen' \in [Paren -> Nat] /\ Behouden(w)
<1>1. PICK q : q = req[w]
  OBVIOUS
<1>2. Werker(w, q, register[w], wacht[w]) /\ q \in ReqType /\ q.fase = "transactie"
  BY <1>1, Nu DEF Commit
<1>3. koppelingen \in [Paren -> Nat]
  BY DEF IInv, TypeOK
<1>4. koppelingen' = [p \in Paren |-> IF p[1] \in q.weg THEN 0
                                      ELSE IF p = q.over THEN koppelingen[p] - q.aantal
                                      ELSE koppelingen[p]]
  BY <1>1 DEF Commit
<1>5. q.over # Geen => q.over \in Paren /\ q.aantal <= koppelingen[q.over] /\ q.aantal \in Nat
  BY <1>1, <1>2 DEF IInv, Berichten, ReqType
<1>6. Geen \notin Paren
  BY DEF GebeurtenissenAssumption, Paren
<1>7. ASSUME NEW p \in Paren PROVE koppelingen'[p] \in Nat
  <2>1. CASE p[1] \in q.weg
    BY <2>1, <1>4
  <2>2. CASE p[1] \notin q.weg /\ p = q.over
    <3>1. koppelingen'[p] = koppelingen[p] - q.aantal
      BY <2>2, <1>4
    <3>2. q.aantal <= koppelingen[p] /\ q.aantal \in Nat /\ koppelingen[p] \in Nat
      BY <2>2, <1>3, <1>5, <1>6
    <3> QED
      BY <3>1, <3>2
  <2>3. CASE p[1] \notin q.weg /\ p # q.over
    BY <2>3, <1>3, <1>4
  <2> QED
    BY <2>1, <2>2, <2>3
<1>8. koppelingen' \in [Paren -> Nat]
  BY <1>4, <1>7
<1>9. ASSUME NEW v \in Werkers \ {w}, req[v].fase = "transactie", req[v].over # Geen
      PROVE  req[v].aantal <= koppelingen'[req[v].over]
  <2>1. PICK r : r = req[v]
    OBVIOUS
  <2>2. Werker(v, r, register[v], wacht[v]) /\ r \in ReqType
    BY <2>1, Nu
  <2>3. PICK p : p = r.over
    OBVIOUS
  <2>4. p \in Paren /\ <<"gemuteerd", p[1]>> \in r.moet
    BY <1>9, <2>1, <2>2, <2>3 DEF Werker, ReqType
  <2>5. p[1] \in Geraakt(v)
    BY <2>1, <2>4 DEF Geraakt
  <2>6. p[1] \notin Geraakt(w)
    BY <2>5, <1>1, <1>2, <1>9 DEF IInv, Sloten
  <2>7. p[1] \notin q.weg
    BY <2>6, <1>1 DEF Geraakt
  <2>8. p # q.over
    <3>1. SUFFICES ASSUME p = q.over PROVE FALSE
      OBVIOUS
    <3>2. q.over # Geen
      BY <3>1, <2>4, <1>6
    <3>3. <<"gemuteerd", p[1]>> \in q.moet
      BY <3>1, <3>2, <1>2 DEF Werker
    <3>4. p[1] \in Geraakt(w)
      BY <3>3, <1>1 DEF Geraakt
    <3> QED
      BY <3>4, <2>6
  <2>9. koppelingen'[p] = koppelingen[p]
    BY <2>4, <2>7, <2>8, <1>4
  <2>10. r.aantal <= koppelingen[p]
    BY <2>1, <2>3, <1>9 DEF IInv, Berichten
  <2> QED
    BY <2>1, <2>3, <2>9, <2>10
<1> QED
  BY <1>8, <1>9 DEF Behouden

LEMMA GoedCommit ==
  ASSUME GebeurtenissenAssumption, IInv, NEW w \in Werkers, Commit(w)
  PROVE  Goed(w)
<1>1. PICK oud, reg, s : oud = req[w] /\ reg = register[w] /\ s = wacht[w]
  OBVIOUS
<1>2. PICK q : q = [oud EXCEPT !.fase = "na"]
  OBVIOUS
<1>3. Werker(w, oud, reg, s) /\ oud \in ReqType /\ oud.fase = "transactie"
  BY <1>1, Nu DEF Commit
<1>4. /\ q \in ReqType
      /\ q.fase = "na" /\ q.moet = oud.moet /\ q.nieuw = oud.nieuw /\ q.weg = oud.weg
      /\ q.stil = oud.stil /\ q.over = oud.over /\ q.nr = oud.nr /\ q.aantal = oud.aantal
  BY <1>2, <1>3 DEF ReqType
<1>5. Zet(w, q, reg, s)
  <2>1. req' = [req EXCEPT ![w] = q]
    BY <1>1, <1>2 DEF Commit
  <2> QED
    BY <2>1, <1>1, Nu DEF Zet, Commit
<1>6. Werker(w, q, reg, s)
  BY <1>3, <1>4 DEF Werker
<1>7. Mag(w, q) /\ Gestuurd(q) /\ Vindt(q)
  BY <1>1, <1>4, GestuurdAl DEF Mag, Vindt, Commit
<1>8. achterstand \in [Sleutels -> Int]
  BY DEF IInv, TypeOK
<1>9. achterstand' = [k \in Sleutels |-> IF k \in oud.moet \ oud.stil THEN achterstand[k] + 1 ELSE achterstand[k]]
  BY <1>1 DEF Commit
<1>10. Boekt(w, q, s)
  <2> SUFFICES ASSUME NEW k \in Sleutels
               PROVE  achterstand'[k] = achterstand[k] + Telt(k \in OpenVan(q, s)) - Telt(k \in Open(w))
    BY DEF Boekt
  <2>1. k \in OpenVan(q, s) <=> k \in oud.moet \ oud.stil
    <3>1. OpenVan(q, s) = Range(s)
      BY <1>4 DEF OpenVan
    <3>2. Range(s) \cap Sleutels = oud.moet \ oud.stil
      BY <1>3 DEF Werker, Gepland
    <3> QED
      BY <3>1, <3>2
  <2>2. k \notin Open(w)
    BY <1>1, <1>3, OpenIs, OpenLeeg
  <2>3. Telt(k \in OpenVan(q, s)) = (IF k \in oud.moet \ oud.stil THEN 1 ELSE 0) /\ Telt(k \in Open(w)) = 0
    BY <2>1, <2>2 DEF Telt
  <2>4. achterstand'[k] = IF k \in oud.moet \ oud.stil THEN achterstand[k] + 1 ELSE achterstand[k]
    BY <1>9
  <2> QED
    BY <2>3, <2>4, <1>8
<1>11. achterstand' \in [Sleutels -> Int]
  BY <1>8, <1>9
<1>12. zaken' \subseteq Zaken /\ afgeweken' \subseteq Paren
  BY <1>1, <1>3 DEF Commit, ReqType, IInv, TypeOK
<1>13. Overig
  <2>1. \A p \in Paren : Len(log[p]) \in Nat
    BY DEF IInv, TypeOK
  <2>2. koppelingen' \in [Paren -> Nat]
    BY CommitTelt
  <2>3. UNCHANGED <<log, aanvaard, fouten>>
    BY DEF Commit
  <2> QED
    BY <2>1, <2>2, <2>3, <1>11, <1>12 DEF Overig, IInv, TypeOK
<1> QED
  BY <1>5, <1>6, <1>7, <1>10, <1>13, CommitTelt DEF Goed

LEMMA GoedRollback ==
  ASSUME GebeurtenissenAssumption, IInv, NEW w \in Werkers, Rollback(w)
  PROVE  Goed(w)
<1>1. PICK oud, reg : oud = req[w] /\ reg = register[w]
  OBVIOUS
<1>2. PICK q : q = [Rust EXCEPT !.fase = "klaar", !.over = oud.over, !.nr = oud.nr]
  OBVIOUS
<1>3. oud \in ReqType /\ reg \in SUBSET Sleutels /\ oud.fase = "transactie"
  BY <1>1, Nu DEF Rollback
<1>4. /\ q \in ReqType
      /\ q.fase = "klaar" /\ q.moet = {} /\ q.nieuw = {} /\ q.weg = {}
      /\ q.stil = {} /\ q.over = oud.over /\ q.nr = oud.nr /\ q.aantal = 0
  BY <1>2, <1>3, RustVelden DEF ReqType, Rust
<1>5. Zet(w, q, reg, <<>>)
  <2>1. req' = [req EXCEPT ![w] = q]
    BY <1>1, <1>2 DEF Rollback
  <2> QED
    BY <2>1, <1>1, Nu DEF Zet, Rollback
<1>6. Werker(w, q, reg, <<>>)
  BY <1>3, <1>4, GeenCallbacks DEF Werker
<1>7. Mag(w, q) /\ Gestuurd(q) /\ Vindt(q)
  BY <1>1, <1>4, GestuurdAl DEF Mag, Vindt, Rollback
<1>8. Boekt(w, q, <<>>)
  <2>1. OpenVan(q, <<>>) = {} /\ OpenVan(req[w], wacht[w]) = {}
    BY <1>1, <1>3, <1>4, OpenLeeg
  <2> QED
    BY <2>1, BoektNiets DEF Rollback
<1>9. Overig /\ Behouden(w)
  <2>1. \A p \in Paren : Len(log[p]) \in Nat
    BY DEF IInv, TypeOK
  <2>2. koppelingen' \in [Paren -> Nat] /\ \A p \in Paren : koppelingen[p] <= koppelingen'[p]
    BY DEF IInv, TypeOK, Rollback
  <2>3. afgeweken' \subseteq Paren
    BY <1>1, <1>3 DEF Rollback, ReqType, IInv, TypeOK
  <2>4. Overig
    BY <2>1, <2>2, <2>3 DEF Overig, IInv, TypeOK, Rollback
  <2> QED
    BY <2>2, <2>4, NietsWeg
<1> QED
  BY <1>5, <1>6, <1>7, <1>8, <1>9 DEF Goed

LEMMA GoedRoep ==
  ASSUME GebeurtenissenAssumption, IInv, NEW w \in Werkers, Roep(w)
  PROVE  Goed(w)
<1>1. PICK q, oud, s0 : q = req[w] /\ oud = register[w] /\ s0 = wacht[w]
  OBVIOUS
<1>2. PICK c, s, reg : c = Head(s0) /\ s = Tail(s0) /\ reg = Discard(w, c)
  OBVIOUS
<1>3. Werker(w, q, oud, s0) /\ q \in ReqType /\ q.fase = "na" /\ s0 # <<>>
  BY <1>1, Nu DEF Roep
<1>4. /\ c \in Callbacks /\ s \in Seq(Callbacks) /\ Eenmalig(s)
      /\ Gepland(s) = Gepland(s0) \ {c}
      /\ c \in Sleutels => c \in Gepland(s0)
  BY <1>2, <1>3, EersteWeg DEF Werker
<1>5. reg = IF c[1] = "verwijderd" THEN oud ELSE oud \ {c}
  BY <1>1, <1>2 DEF Discard
<1>6. Zet(w, q, reg, s)
  <2>1. register' = [register EXCEPT ![w] = reg]
    BY <1>1, <1>2 DEF Roep
  <2>2. wacht' = [wacht EXCEPT ![w] = s]
    BY <1>1, <1>2 DEF Roep
  <2> QED
    BY <2>1, <2>2, <1>1, Nu DEF Zet, Roep
<1>7. Werker(w, q, reg, s)
  <2>1. reg \in SUBSET Sleutels /\ reg \subseteq oud
    BY <1>3, <1>5 DEF Werker
  <2>2. ASSUME w \in Webs, q.weg = {} PROVE reg = Gepland(s) /\ \A k \in reg : k[1] = "gemuteerd"
    <3>1. oud = Gepland(s0) /\ \A k \in oud : k[1] = "gemuteerd"
      BY <2>2, <1>3 DEF Werker
    <3>2. c[1] # "verwijderd"
      <4>1. SUFFICES ASSUME c[1] = "verwijderd" PROVE FALSE
        OBVIOUS
      <4>2. c \in Sleutels
        BY <4>1, <1>4 DEF Callbacks
      <4> QED
        BY <4>1, <4>2, <3>1, <1>4
    <3> QED
      BY <3>1, <3>2, <1>4, <1>5
  <2> QED
    BY <2>1, <2>2, <1>3, <1>4 DEF Werker
<1>8. Mag(w, q) /\ Gestuurd(q) /\ Vindt(q)
  BY <1>1, <1>3, GestuurdAl DEF Mag, Vindt, Roep, inVars
<1>9. achterstand \in [Sleutels -> Int]
  BY DEF IInv, TypeOK
<1>10. achterstand' = IF c \in Sleutels THEN [achterstand EXCEPT ![c] = @ - 1] ELSE achterstand
  BY <1>1, <1>2 DEF Roep
<1>11. Boekt(w, q, s)
  <2> SUFFICES ASSUME NEW k \in Sleutels
               PROVE  achterstand'[k] = achterstand[k] + Telt(k \in OpenVan(q, s)) - Telt(k \in Open(w))
    BY DEF Boekt
  <2>1. OpenVan(q, s) = Range(s) /\ OpenVan(q, s0) = Range(s0) /\ Open(w) = OpenVan(q, s0)
    BY <1>1, <1>3, OpenIs DEF OpenVan
  <2>2. k \in OpenVan(q, s) <=> k \in Gepland(s)
    BY <2>1 DEF Gepland
  <2>3. k \in Open(w) <=> k \in Gepland(s0)
    BY <2>1 DEF Gepland
  <2>4. CASE k = c
    <3>1. Telt(k \in OpenVan(q, s)) = 0 /\ Telt(k \in Open(w)) = 1
      BY <2>2, <2>3, <2>4, <1>4 DEF Telt
    <3>2. achterstand'[k] = achterstand[k] - 1
      BY <2>4, <1>9, <1>10
    <3> QED
      BY <3>1, <3>2, <1>9
  <2>5. CASE k # c
    <3>1. Telt(k \in OpenVan(q, s)) = Telt(k \in Open(w)) /\ Telt(k \in Open(w)) \in 0..1
      BY <2>2, <2>3, <2>5, <1>4 DEF Telt
    <3>2. achterstand'[k] = achterstand[k] /\ achterstand[k] \in Int
      BY <2>5, <1>9, <1>10
    <3> QED
      BY <3>1, <3>2
  <2> QED
    BY <2>4, <2>5
<1>12. achterstand' \in [Sleutels -> Int]
  BY <1>9, <1>10
<1>13. Overig /\ Behouden(w)
  BY <1>12, Stil DEF Roep, IInv, TypeOK
<1> QED
  BY <1>6, <1>7, <1>8, <1>11, <1>13 DEF Goed

\* A worker that loses what it still had to announce and does nothing any more.
LEMMA HoudtOp ==
  ASSUME GebeurtenissenAssumption, IInv, NEW w \in Werkers, NEW reg \in SUBSET Sleutels, w \in Webs => reg = {},
         Zet(w, Rust, reg, <<>>), Gemist(w), UNCHANGED <<zaken, koppelingen, inVars>>, fouten' \in 0..MaxFouten
  PROVE  Goed(w)
<1>1. PICK q : q = Rust
  OBVIOUS
<1>2. Werker(w, q, reg, <<>>)
  BY <1>1, RustVelden, GeenCallbacks DEF Werker
<1>3. Mag(w, q) /\ Gestuurd(q) /\ Vindt(q)
  BY <1>1, RustVelden DEF Mag, Gestuurd, Vindt
<1>4. OpenVan(q, <<>>) = {}
  BY <1>1, RustVelden, OpenLeeg
<1>5. Boekt(w, q, <<>>) /\ achterstand' \in [Sleutels -> Int]
  BY <1>4, BoektGemist
<1>6. Overig /\ Behouden(w)
  BY <1>5, Stil
<1> QED
  BY <1>1, <1>2, <1>3, <1>5, <1>6 DEF Goed

LEMMA GoedRoepFaalt ==
  ASSUME GebeurtenissenAssumption, IInv, NEW w \in Werkers, RoepFaalt(w)
  PROVE  Goed(w)
<1>1. PICK reg : reg = Reset(w) \cap Discard(w, Head(wacht[w]))
  OBVIOUS
<1>2. reg \in SUBSET Sleutels /\ (w \in Webs => reg = {})
  BY <1>1, Nu DEF Reset, Discard
<1>3. Zet(w, Rust, reg, <<>>)
  BY <1>1 DEF RoepFaalt, Zet
<1>4. fouten' \in 0..MaxFouten
  BY DEF RoepFaalt, IInv, TypeOK, GebeurtenissenAssumption
<1> QED
  BY <1>2, <1>3, <1>4, HoudtOp DEF RoepFaalt

LEMMA GoedCrash ==
  ASSUME GebeurtenissenAssumption, IInv, NEW w \in Werkers, Crash(w)
  PROVE  Goed(w)
<1>1. PICK reg : reg = {}
  OBVIOUS
<1>2. reg \in SUBSET Sleutels /\ (w \in Webs => reg = {})
  BY <1>1
<1>3. Zet(w, Rust, reg, <<>>)
  BY <1>1 DEF Crash, Zet
<1>4. fouten' \in 0..MaxFouten
  BY DEF Crash, IInv, TypeOK, GebeurtenissenAssumption
<1> QED
  BY <1>2, <1>3, <1>4, HoudtOp DEF Crash

LEMMA GoedVerder ==
  ASSUME GebeurtenissenAssumption, IInv, NEW w \in Werkers, Verder(w)
  PROVE  Goed(w)
<1>1. PICK reg : reg = register[w]
  OBVIOUS
<1>2. PICK q : q = [Rust EXCEPT !.fase = "transactie"]
  OBVIOUS
<1>3. w \in Webs /\ req[w].fase = "na" /\ wacht[w] = <<>> /\ reg = {}
  <2>1. Werker(w, req[w], register[w], wacht[w])
    BY Nu
  <2> QED
    BY <2>1, <1>1, GeenCallbacks DEF Werker, Verder
<1>4. /\ q \in ReqType
      /\ q.fase = "transactie" /\ q.moet = {} /\ q.nieuw = {} /\ q.weg = {} /\ q.stil = {}
      /\ q.over = Geen /\ q.aantal = 0
  BY <1>2, RustVelden DEF ReqType, Rust
<1>5. Zet(w, q, reg, <<>>)
  <2>1. req' = [req EXCEPT ![w] = q]
    BY <1>2 DEF Verder
  <2> QED
    BY <2>1, <1>1, <1>3, Nu DEF Zet, Verder
<1>6. Werker(w, q, reg, <<>>)
  BY <1>3, <1>4, GeenCallbacks DEF Werker
<1>7. Mag(w, q) /\ Gestuurd(q) /\ Vindt(q)
  BY <1>4 DEF Mag, GeraaktVan, Gestuurd, Vindt
<1>8. Boekt(w, q, <<>>)
  <2>1. OpenVan(q, <<>>) = {}
    BY <1>4, OpenLeeg
  <2>2. OpenVan(req[w], wacht[w]) = {}
    BY <1>3, GeenCallbacks DEF OpenVan
  <2> QED
    BY <2>1, <2>2, BoektNiets DEF Verder
<1>9. Overig /\ Behouden(w)
  BY Stil DEF Verder, IInv, TypeOK
<1> QED
  BY <1>5, <1>6, <1>7, <1>8, <1>9 DEF Goed

LEMMA GoedKlaar ==
  ASSUME GebeurtenissenAssumption, IInv, NEW w \in Werkers, Klaar(w)
  PROVE  Goed(w)
<1>1. PICK reg, oud, p : reg = Reset(w) /\ oud = req[w] /\ p = oud.over
  OBVIOUS
<1>2. PICK q : q = Rust
  OBVIOUS
<1>3. oud.fase \in {"na", "klaar"} /\ wacht[w] = <<>> /\ reg \in SUBSET Sleutels /\ (w \in Webs => reg = {})
      /\ oud \in ReqType
  BY <1>1, Nu DEF Klaar, Reset
<1>4. Zet(w, q, reg, <<>>)
  BY <1>1, <1>2, <1>3, Nu DEF Zet, Klaar
<1>5. Werker(w, q, reg, <<>>)
  BY <1>2, <1>3, RustVelden, GeenCallbacks DEF Werker
<1>6. Mag(w, q) /\ Gestuurd(q) /\ Vindt(q)
  BY <1>2, RustVelden DEF Mag, Gestuurd, Vindt
<1>7. Boekt(w, q, <<>>)
  <2>1. OpenVan(q, <<>>) = {}
    BY <1>2, RustVelden, OpenLeeg
  <2>2. OpenVan(req[w], wacht[w]) = {}
    BY <1>1, <1>3, GeenCallbacks DEF OpenVan
  <2> QED
    BY <2>1, <2>2, BoektNiets DEF Klaar
<1>8. Overig /\ Behouden(w)
  <2>1. koppelingen' \in [Paren -> Nat] /\ \A r \in Paren : koppelingen[r] <= koppelingen'[r]
    BY DEF IInv, TypeOK, Klaar
  <2>2. \A r \in Paren : Len(log[r]) \in Nat /\ log' = log
    BY DEF IInv, TypeOK, Klaar
  <2>3. aanvaard' = IF p # Geen /\ aanvaard[p] < oud.nr THEN [aanvaard EXCEPT ![p] = oud.nr] ELSE aanvaard
    BY <1>1 DEF Klaar
  <2>4. p # Geen => p \in Paren /\ oud.nr \in 1..Len(log[p])
    BY <1>1, <1>3 DEF IInv, Berichten, ReqType
  <2>5. \A r \in Paren : aanvaard'[r] \in 0..Len(log[r])
    <3> SUFFICES ASSUME NEW r \in Paren PROVE aanvaard'[r] \in 0..Len(log[r])
      OBVIOUS
    <3>1. aanvaard'[r] = aanvaard[r] \/ (r = p /\ p # Geen /\ aanvaard'[r] = oud.nr)
      BY <2>3
    <3> QED
      BY <3>1, <2>2, <2>4 DEF IInv, TypeOK
  <2>6. aanvaard' \in [Paren -> Nat]
    BY <2>2, <2>3, <2>4 DEF IInv, TypeOK
  <2>7. Overig
    BY <2>1, <2>2, <2>5, <2>6 DEF Overig, IInv, TypeOK, Klaar
  <2> QED
    BY <2>1, <2>7, NietsWeg
<1> QED
  BY <1>4, <1>5, <1>6, <1>7, <1>8 DEF Goed

LEMMA GoedOntvang ==
  ASSUME GebeurtenissenAssumption, IInv, NEW w \in Werkers, NEW p \in Paren, Ontvang(w, p)
  PROVE  Goed(w)
<1>1. PICK n, reg : n = aanvaard[p] + 1 /\ reg = Reset(w)
  OBVIOUS
<1>2. PICK q : q = [Rust EXCEPT !.fase = "ontvangen", !.over = p, !.nr = n]
  OBVIOUS
<1>3. w \in Webs /\ req[w].fase = "rust" /\ wacht[w] = <<>> /\ reg = {}
  <2>1. Werker(w, req[w], register[w], wacht[w])
    BY Nu
  <2> QED
    BY <2>1, <1>1 DEF Ontvang, Werker, Reset
<1>4. n \in 1..Len(log[p]) /\ n \in 0..MaxBerichten /\ log' = log
  BY <1>1 DEF Ontvang, IInv, TypeOK, inVars, GebeurtenissenAssumption
<1>5. /\ q \in ReqType
      /\ q.fase = "ontvangen" /\ q.moet = {} /\ q.nieuw = {} /\ q.weg = {} /\ q.stil = {}
      /\ q.over = p /\ q.nr = n /\ q.aantal = 0
  BY <1>2, <1>4, RustVelden DEF ReqType, Rust
<1>6. Zet(w, q, reg, <<>>)
  <2>1. req' = [req EXCEPT ![w] = q]
    BY <1>1, <1>2 DEF Ontvang
  <2> QED
    BY <2>1, <1>1, <1>3, Nu DEF Zet, Ontvang
<1>7. Werker(w, q, reg, <<>>)
  <2>1. p # Geen
    BY DEF GebeurtenissenAssumption, Paren
  <2> QED
    BY <2>1, <1>3, <1>5, GeenCallbacks DEF Werker
<1>8. Mag(w, q) /\ Gestuurd(q) /\ Vindt(q)
  BY <1>4, <1>5 DEF Mag, Gestuurd, Vindt
<1>9. Boekt(w, q, <<>>)
  <2>1. OpenVan(q, <<>>) = {} /\ OpenVan(req[w], wacht[w]) = {}
    BY <1>3, <1>5, OpenLeeg
  <2> QED
    BY <2>1, BoektNiets DEF Ontvang
<1>10. Overig /\ Behouden(w)
  BY Stil DEF Ontvang, IInv, TypeOK
<1> QED
  BY <1>6, <1>7, <1>8, <1>9, <1>10 DEF Goed

LEMMA GoedGeweigerd ==
  ASSUME GebeurtenissenAssumption, IInv, NEW w \in Werkers, NEW p \in Paren, Geweigerd(w, p)
  PROVE  Goed(w)
<1>1. PICK oud, reg : oud = req[w] /\ reg = register[w]
  OBVIOUS
<1>2. PICK q : q = [oud EXCEPT !.fase = "klaar"]
  OBVIOUS
<1>3. Werker(w, oud, reg, wacht[w]) /\ oud \in ReqType /\ oud.fase = "ontvangen"
  BY <1>1, Nu DEF Geweigerd
<1>4. /\ q \in ReqType
      /\ q.fase = "klaar" /\ q.moet = oud.moet /\ q.nieuw = oud.nieuw /\ q.weg = oud.weg
      /\ q.stil = oud.stil /\ q.over = oud.over /\ q.nr = oud.nr /\ q.aantal = oud.aantal
  BY <1>2, <1>3 DEF ReqType
<1>5. wacht[w] = <<>>
  BY <1>3 DEF Werker
<1>6. Zet(w, q, reg, <<>>)
  <2>1. req' = [req EXCEPT ![w] = q]
    BY <1>1, <1>2 DEF Geweigerd
  <2> QED
    BY <2>1, <1>1, <1>5, Nu DEF Zet, Geweigerd
<1>7. Werker(w, q, reg, <<>>)
  BY <1>3, <1>4, GeenCallbacks DEF Werker
<1>8. Mag(w, q) /\ Gestuurd(q) /\ Vindt(q)
  BY <1>1, <1>4, GestuurdAl DEF Mag, Vindt, Geweigerd
<1>9. Boekt(w, q, <<>>)
  <2>1. OpenVan(q, <<>>) = {} /\ OpenVan(req[w], wacht[w]) = {}
    BY <1>1, <1>3, <1>4, OpenLeeg
  <2> QED
    BY <2>1, BoektNiets DEF Geweigerd
<1>10. Overig /\ Behouden(w)
  <2>1. \A r \in Paren : Len(log[r]) \in Nat
    BY DEF IInv, TypeOK
  <2>2. koppelingen' \in [Paren -> Nat] /\ \A r \in Paren : koppelingen[r] <= koppelingen'[r]
    BY DEF IInv, TypeOK, Geweigerd
  <2>3. afgeweken' \subseteq Paren
    BY DEF Geweigerd, IInv, TypeOK
  <2>4. fouten' \in 0..MaxFouten
    BY DEF Geweigerd, IInv, TypeOK, GebeurtenissenAssumption
  <2>5. Overig
    BY <2>1, <2>2, <2>3, <2>4 DEF Overig, IInv, TypeOK, Geweigerd
  <2> QED
    BY <2>2, <2>5, NietsWeg
<1> QED
  BY <1>6, <1>7, <1>8, <1>9, <1>10 DEF Goed

LEMMA GoedGekoppeld ==
  ASSUME GebeurtenissenAssumption, IInv, NEW w \in Werkers, NEW p \in Paren, Gekoppeld(w, p)
  PROVE  Goed(w)
<1>1. PICK oud, k : oud = req[w] /\ k = <<"gemuteerd", p[1]>>
  OBVIOUS
<1>2. PICK q : q = [oud EXCEPT !.fase = "gekoppeld"]
  OBVIOUS
<1>3. Werker(w, oud, register[w], wacht[w]) /\ oud \in ReqType /\ oud.fase = "ontvangen" /\ oud.over = p
  BY <1>1, Nu DEF Gekoppeld, Behandelt
<1>4. /\ q \in ReqType
      /\ q.fase = "gekoppeld" /\ q.moet = oud.moet /\ q.nieuw = oud.nieuw /\ q.weg = oud.weg
      /\ q.stil = oud.stil /\ q.over = oud.over /\ q.nr = oud.nr /\ q.aantal = oud.aantal
  BY <1>2, <1>3 DEF ReqType
<1>5. register[w] = {} /\ wacht[w] = <<>> /\ k \in Sleutels
  BY <1>1, <1>3 DEF Werker, Sleutels, Paren
<1>6. Zet(w, q, {}, <<>>)
  <2>1. req' = [req EXCEPT ![w] = q]
    BY <1>1, <1>2 DEF Gekoppeld
  <2> QED
    BY <2>1, <1>5, Nu DEF Zet, Gekoppeld
<1>7. Werker(w, q, {}, <<>>)
  BY <1>3, <1>4, <1>5 DEF Werker
<1>8. Mag(w, q) /\ Gestuurd(q) /\ Vindt(q)
  BY <1>1, <1>4, GestuurdAl DEF Mag, Vindt, Gekoppeld, inVars
<1>9. achterstand \in [Sleutels -> Int]
  BY DEF IInv, TypeOK
<1>10. achterstand' = [achterstand EXCEPT ![k] = @ + 1]
  BY <1>1 DEF Gekoppeld
<1>11. Boekt(w, q, <<>>)
  <2> SUFFICES ASSUME NEW l \in Sleutels
               PROVE  achterstand'[l] = achterstand[l] + Telt(l \in OpenVan(q, <<>>)) - Telt(l \in Open(w))
    BY DEF Boekt
  <2>1. OpenVan(q, <<>>) = {k} /\ l \notin Open(w)
    <3>1. OpenVan(q, <<>>) = {k}
      BY <1>1, <1>3, <1>4 DEF OpenVan
    <3>2. Open(w) = {}
      BY <1>1, <1>3, OpenIs, OpenLeeg
    <3> QED
      BY <3>1, <3>2
  <2>2. Telt(l \in OpenVan(q, <<>>)) = (IF l = k THEN 1 ELSE 0) /\ Telt(l \in Open(w)) = 0
    BY <2>1 DEF Telt
  <2>3. achterstand'[l] = IF l = k THEN achterstand[l] + 1 ELSE achterstand[l]
    BY <1>5, <1>9, <1>10
  <2>4. achterstand[l] \in Int
    BY <1>9
  <2> QED
    BY <2>2, <2>3, <2>4
<1>12. Overig /\ Behouden(w)
  <2>1. \A r \in Paren : Len(log[r]) \in Nat
    BY DEF IInv, TypeOK
  <2>2. koppelingen' \in [Paren -> Nat] /\ \A r \in Paren : koppelingen[r] <= koppelingen'[r]
    BY DEF IInv, TypeOK, Gekoppeld
  <2>3. achterstand' \in [Sleutels -> Int]
    BY <1>5, <1>9, <1>10
  <2>4. UNCHANGED <<zaken, log, aanvaard, afgeweken, fouten>>
    BY DEF Gekoppeld, inVars
  <2>5. Overig
    BY <2>1, <2>2, <2>3, <2>4 DEF Overig, IInv, TypeOK
  <2> QED
    BY <2>2, <2>5, NietsWeg
<1> QED
  BY <1>6, <1>7, <1>8, <1>11, <1>12 DEF Goed

LEMMA GoedGekoppeldGemuteerd ==
  ASSUME GebeurtenissenAssumption, IInv, NEW w \in Werkers, GekoppeldGemuteerd(w)
  PROVE  Goed(w)
<1>1. PICK oud, z : oud = req[w] /\ z = oud.over[1]
  OBVIOUS
<1>2. PICK k : k = <<"gemuteerd", z>>
  OBVIOUS
<1>3. Werker(w, oud, register[w], wacht[w]) /\ oud \in ReqType /\ oud.fase = "gekoppeld"
  BY <1>1, Nu DEF GekoppeldGemuteerd
<1>4. /\ oud.over \in Paren /\ oud.over # Geen /\ w \in Webs /\ register[w] = {} /\ wacht[w] = <<>>
      /\ oud.weg = {}
      /\ k \in Sleutels /\ k[1] = "gemuteerd"
  <2>1. oud.over \in Paren /\ oud.over # Geen /\ w \in Webs /\ register[w] = {} /\ wacht[w] = <<>> /\ oud.weg = {}
    BY <1>3 DEF Werker, ReqType
  <2> QED
    BY <2>1, <1>1, <1>2 DEF Sleutels, Paren
<1>5. OpenVan(req[w], wacht[w]) = {k}
  BY <1>1, <1>2, <1>3 DEF OpenVan
<1>6. CASE z \in zaken
  <2>1. PICK q : q = [oud EXCEPT !.fase = "na"]
    OBVIOUS
  <2>2. /\ q \in ReqType
        /\ q.fase = "na" /\ q.moet = oud.moet /\ q.nieuw = oud.nieuw /\ q.weg = {}
        /\ q.stil = oud.stil /\ q.over = oud.over /\ q.nr = oud.nr /\ q.aantal = oud.aantal
    BY <2>1, <1>3, <1>4 DEF ReqType
  <2>3. PICK s \in Seq(Callbacks) :
             /\ Eenmalig(s)
             /\ Gepland(s) = {k}
             /\ wacht' = [wacht EXCEPT ![w] = s]
             /\ register' = [register EXCEPT ![w] = {k}]
    <3>1. Plan(w, <<>>, {k}, {})
      BY <1>1, <1>2, <1>6 DEF GekoppeldGemuteerd
    <3>2. Eenmalig(wacht[w]) /\ Gepland(wacht[w]) = {}
      BY <1>4, GeenCallbacks
    <3>3. PICK s \in Seq(Callbacks) :
             /\ Eenmalig(s)
             /\ Gepland(s) = Gepland(wacht[w]) \cup ({k} \ register[w])
             /\ wacht' = [wacht EXCEPT ![w] = s]
             /\ register' = [register EXCEPT ![w] = register[w] \cup {k}]
      BY <3>1, <3>2, <1>4, PlanEen DEF IInv
    <3>4. Gepland(s) = {k} /\ register[w] \cup {k} = {k}
      BY <3>2, <3>3, <1>4
    <3> QED
      BY <3>3, <3>4
  <2>4. Zet(w, q, {k}, s)
    <3>1. req' = [req EXCEPT ![w] = q]
      BY <1>1, <1>6, <2>1 DEF GekoppeldGemuteerd
    <3> QED
      BY <3>1, <2>3 DEF Zet
  <2>5. Werker(w, q, {k}, s)
    BY <1>3, <1>4, <2>2, <2>3 DEF Werker
  <2>6. Mag(w, q) /\ Gestuurd(q) /\ Vindt(q)
    BY <1>1, <2>2, GestuurdAl DEF Mag, Vindt, GekoppeldGemuteerd, inVars
  <2>7. Boekt(w, q, s)
    <3>1. OpenVan(q, s) = Range(s)
      BY <2>2 DEF OpenVan
    <3>2. Range(s) \cap Sleutels = {k}
      BY <2>3 DEF Gepland
    <3>3. achterstand' = achterstand
      BY <1>1, <1>6 DEF GekoppeldGemuteerd
    <3> QED
      BY <3>1, <3>2, <3>3, <1>5, BoektNiets
  <2>8. Overig /\ Behouden(w)
    <3>1. achterstand' \in [Sleutels -> Int]
      BY <1>1, <1>6 DEF GekoppeldGemuteerd, IInv, TypeOK
    <3> QED
      BY <3>1, Stil DEF GekoppeldGemuteerd, IInv, TypeOK
  <2> QED
    BY <2>4, <2>5, <2>6, <2>7, <2>8 DEF Goed
<1>7. CASE z \notin zaken
  <2>1. PICK q : q = [oud EXCEPT !.fase = "klaar"]
    OBVIOUS
  <2>2. /\ q \in ReqType
        /\ q.fase = "klaar" /\ q.moet = oud.moet /\ q.nieuw = oud.nieuw /\ q.weg = {}
        /\ q.stil = oud.stil /\ q.over = oud.over /\ q.nr = oud.nr /\ q.aantal = oud.aantal
    BY <2>1, <1>3, <1>4 DEF ReqType
  <2>3. Zet(w, q, {}, <<>>)
    <3>1. req' = [req EXCEPT ![w] = q]
      BY <1>1, <1>7, <2>1 DEF GekoppeldGemuteerd
    <3>2. UNCHANGED <<register, wacht>>
      BY <1>1, <1>7 DEF GekoppeldGemuteerd
    <3> QED
      BY <3>1, <3>2, <1>4, Nu DEF Zet
  <2>4. Werker(w, q, {}, <<>>)
    BY <1>3, <1>4, <2>2, GeenCallbacks DEF Werker
  <2>5. Mag(w, q) /\ Gestuurd(q) /\ Vindt(q)
    BY <1>1, <2>2, GestuurdAl DEF Mag, Vindt, GekoppeldGemuteerd, inVars
  <2>6. achterstand \in [Sleutels -> Int] /\ achterstand' = [achterstand EXCEPT ![k] = @ - 1]
    BY <1>1, <1>2, <1>7 DEF GekoppeldGemuteerd, IInv, TypeOK
  <2>7. Boekt(w, q, <<>>)
    <3> SUFFICES ASSUME NEW l \in Sleutels
                 PROVE  achterstand'[l] = achterstand[l] + Telt(l \in OpenVan(q, <<>>)) - Telt(l \in Open(w))
      BY DEF Boekt
    <3>1. OpenVan(q, <<>>) = {} /\ Open(w) = {k}
      BY <1>5, <2>2, OpenIs, OpenLeeg
    <3>2. Telt(l \in OpenVan(q, <<>>)) = 0 /\ Telt(l \in Open(w)) = (IF l = k THEN 1 ELSE 0)
      BY <3>1 DEF Telt
    <3>3. achterstand'[l] = IF l = k THEN achterstand[l] - 1 ELSE achterstand[l]
      BY <1>4, <2>6
    <3>4. achterstand[l] \in Int
      BY <2>6
    <3> QED
      BY <3>2, <3>3, <3>4
  <2>8. Overig /\ Behouden(w)
    <3>1. achterstand' \in [Sleutels -> Int]
      BY <1>4, <2>6
    <3> QED
      BY <3>1, Stil DEF GekoppeldGemuteerd, IInv, TypeOK
  <2> QED
    BY <2>3, <2>4, <2>5, <2>7, <2>8 DEF Goed
<1> QED
  BY <1>6, <1>7

LEMMA GoedOntkoppeld ==
  ASSUME GebeurtenissenAssumption, IInv, NEW w \in Werkers, NEW p \in Paren, Ontkoppeld(w, p)
  PROVE  Goed(w)
<1>1. PICK oud, k, n : oud = req[w] /\ k = <<"gemuteerd", p[1]>> /\ n = koppelingen[p]
  OBVIOUS
<1>2. Werker(w, oud, register[w], wacht[w]) /\ oud \in ReqType /\ oud.fase = "ontvangen" /\ oud.over = p
  BY <1>1, Nu DEF Ontkoppeld, Behandelt
<1>3. /\ w \in Webs /\ register[w] = {} /\ wacht[w] = <<>> /\ p # Geen
      /\ oud.moet = {} /\ oud.nieuw = {} /\ oud.weg = {} /\ oud.stil = {}
      /\ n \in Nat /\ k \in Sleutels /\ k[1] = "gemuteerd" /\ k[2] = p[1]
  <2>1. w \in Webs /\ register[w] = {} /\ wacht[w] = <<>> /\ p # Geen
        /\ oud.moet = {} /\ oud.nieuw = {} /\ oud.weg = {} /\ oud.stil = {}
    BY <1>2 DEF Werker
  <2>2. n \in Nat
    BY <1>1 DEF IInv, TypeOK
  <2> QED
    BY <2>1, <2>2, <1>1 DEF Sleutels, Paren
<1>4. OpenVan(req[w], wacht[w]) = {}
  BY <1>1, <1>2, OpenLeeg
<1>5. Overig /\ Behouden(w)
  BY Stil DEF Ontkoppeld, IInv, TypeOK
<1>6. CASE n = 0
  <2>1. PICK q : q = [oud EXCEPT !.fase = "klaar"]
    OBVIOUS
  <2>2. /\ q \in ReqType
        /\ q.fase = "klaar" /\ q.stil = oud.stil /\ q.over = oud.over /\ q.nr = oud.nr /\ q.aantal = oud.aantal
    BY <2>1, <1>2 DEF ReqType
  <2>3. Zet(w, q, {}, <<>>)
    <3>1. req' = [req EXCEPT ![w] = q]
      BY <1>1, <1>6, <2>1 DEF Ontkoppeld, Gevonden
    <3>2. UNCHANGED <<register, wacht>>
      BY <1>1, <1>6 DEF Ontkoppeld, Gevonden
    <3> QED
      BY <3>1, <3>2, <1>3, Nu DEF Zet
  <2>4. Werker(w, q, {}, <<>>)
    BY <1>2, <1>3, <2>2, GeenCallbacks DEF Werker
  <2>5. Mag(w, q) /\ Gestuurd(q) /\ Vindt(q)
    BY <1>1, <2>2, GestuurdAl DEF Mag, Vindt, Ontkoppeld, inVars
  <2>6. Boekt(w, q, <<>>)
    <3>1. OpenVan(q, <<>>) = {}
      BY <2>2, OpenLeeg
    <3> QED
      BY <3>1, <1>4, BoektNiets DEF Ontkoppeld
  <2> QED
    BY <2>3, <2>4, <2>5, <2>6, <1>5 DEF Goed
<1>7. CASE n # 0
  <2>1. PICK q : q = [oud EXCEPT !.fase = "transactie", !.moet = {k}, !.aantal = n]
    OBVIOUS
  <2>2. /\ q \in ReqType
        /\ q.fase = "transactie" /\ q.moet = {k} /\ q.nieuw = {} /\ q.weg = {}
        /\ q.stil = {} /\ q.over = p /\ q.nr = oud.nr /\ q.aantal = n
    BY <2>1, <1>2, <1>3 DEF ReqType
  <2>3. PICK s \in Seq(Callbacks) :
             /\ Eenmalig(s)
             /\ Gepland(s) = {k}
             /\ wacht' = [wacht EXCEPT ![w] = s]
             /\ register' = [register EXCEPT ![w] = {k}]
    <3>1. Plan(w, <<>>, {k}, {})
      BY <1>1, <1>7 DEF Ontkoppeld, Gevonden
    <3>2. Eenmalig(wacht[w]) /\ Gepland(wacht[w]) = {}
      BY <1>3, GeenCallbacks
    <3>3. PICK s \in Seq(Callbacks) :
             /\ Eenmalig(s)
             /\ Gepland(s) = Gepland(wacht[w]) \cup ({k} \ register[w])
             /\ wacht' = [wacht EXCEPT ![w] = s]
             /\ register' = [register EXCEPT ![w] = register[w] \cup {k}]
      BY <3>1, <3>2, <1>3, PlanEen DEF IInv
    <3>4. Gepland(s) = {k} /\ register[w] \cup {k} = {k}
      BY <3>2, <3>3, <1>3
    <3> QED
      BY <3>3, <3>4
  <2>4. Zet(w, q, {k}, s)
    <3>1. req' = [req EXCEPT ![w] = q]
      BY <1>1, <1>7, <2>1 DEF Ontkoppeld, Gevonden
    <3> QED
      BY <3>1, <2>3 DEF Zet
  <2>5. Werker(w, q, {k}, s)
    <3>1. <<"gemuteerd", q.over[1]>> = k
      BY <1>1, <2>2
    <3> QED
      BY <3>1, <1>3, <2>2, <2>3 DEF Werker
  <2>6. Mag(w, q)
    <3>1. GeraaktVan(q) = {p[1]}
      BY <1>3, <2>2 DEF GeraaktVan
    <3>2. Vrij(w, p[1])
      BY <1>1, <1>7 DEF Ontkoppeld, Gevonden
    <3> QED
      BY <3>1, <3>2 DEF Mag
  <2>7. Gestuurd(q) /\ Vindt(q)
    <3>1. Gestuurd(q)
      BY <1>1, <1>2, <2>2, GestuurdAl DEF Ontkoppeld, inVars
    <3>2. Vindt(q)
      BY <1>1, <1>3, <2>2 DEF Vindt, Ontkoppeld
    <3> QED
      BY <3>1, <3>2
  <2>8. Boekt(w, q, s)
    <3>1. OpenVan(q, s) = {}
      BY <2>2, OpenLeeg
    <3> QED
      BY <3>1, <1>4, BoektNiets DEF Ontkoppeld
  <2> QED
    BY <2>4, <2>5, <2>6, <2>7, <2>8, <1>5 DEF Goed
<1> QED
  BY <1>6, <1>7

-----------------------------------------------------------------------------
(* The invariant. *)

\* The provider sends a message.
LEMMA GoedStuur ==
  ASSUME GebeurtenissenAssumption, IInv, NEW p \in Paren, NEW soort \in {"gekoppeld", "ontkoppeld"}, Stuur(p, soort)
  PROVE  IInv' /\ (EenBerichtPerWijziging => EenBerichtPerWijziging')
<1>1. UNCHANGED <<zaken, koppelingen, req, register, wacht, aanvaard, afgeweken, achterstand, fouten>>
  BY DEF Stuur
<1>2. log \in [Paren -> Seq({"gekoppeld", "ontkoppeld"})] /\ log' = [log EXCEPT ![p] = Append(log[p], soort)]
      /\ Len(log[p]) < MaxBerichten
  BY DEF IInv, TypeOK, Stuur
<1>3. log' \in [Paren -> Seq({"gekoppeld", "ontkoppeld"})]
  BY <1>2
<1>4. /\ Len(log'[p]) = Len(log[p]) + 1
      /\ \A r \in Paren \ {p} : log'[r] = log[r]
      /\ \A r \in Paren : Len(log[r]) \in Nat
  BY <1>2
<1>5. \A r \in Paren : Len(log[r]) <= Len(log'[r]) /\ Len(log'[r]) \in Nat /\ Len(log'[r]) <= MaxBerichten
  BY <1>2, <1>4 DEF IInv, TypeOK, GebeurtenissenAssumption
<1>6. TypeOK'
  BY <1>1, <1>3, <1>4, <1>5 DEF IInv, TypeOK
<1>7. Werkend'
  BY <1>1 DEF IInv, Werkend
<1>8. Sloten'
  BY <1>1 DEF IInv, Sloten, Geraakt
<1>9. Berichten'
  <2> SUFFICES ASSUME NEW v \in Werkers, req[v].over # Geen
               PROVE  /\ req[v].nr \in 1..Len(log'[req[v].over])
                      /\ req[v].fase = "transactie" => req[v].aantal <= koppelingen[req[v].over]
    BY <1>1 DEF Berichten
  <2>1. req[v].over \in Paren
    BY Nu DEF ReqType
  <2>2. req[v].nr \in 1..Len(log[req[v].over])
    BY DEF IInv, Berichten
  <2> QED
    BY <2>1, <2>2, <1>4, <1>5 DEF IInv, Berichten
<1>10. EenBerichtPerWijziging => EenBerichtPerWijziging'
  BY <1>1 DEF EenBerichtPerWijziging, Open
<1> QED
  BY <1>6, <1>7, <1>8, <1>9, <1>10 DEF IInv

\* The invariant and the books hold at first.
LEMMA Begonnen == GebeurtenissenAssumption /\ Init => IInv /\ EenBerichtPerWijziging
<1> SUFFICES ASSUME GebeurtenissenAssumption, Init
             PROVE  IInv /\ EenBerichtPerWijziging
  OBVIOUS
<1>1. /\ req = [w \in Werkers |-> Rust] /\ register = [w \in Werkers |-> {}] /\ wacht = [w \in Werkers |-> <<>>]
      /\ log = [p \in Paren |-> <<>>]
  BY DEF Init
<1>2. TypeOK
  <2>1. req \in [Werkers -> ReqType]
    BY <1>1, RustVelden
  <2>2. wacht \in [Werkers -> Seq(Callbacks)] /\ register \in [Werkers -> SUBSET Sleutels]
    BY <1>1, GeenCallbacks
  <2>3. log \in [Paren -> Seq({"gekoppeld", "ontkoppeld"})] /\ \A p \in Paren : Len(log[p]) = 0
    BY <1>1
  <2>4. koppelingen \in [Paren -> Nat] /\ aanvaard \in [Paren -> Nat] /\ \A p \in Paren : aanvaard[p] = 0
    BY DEF Init
  <2> QED
    BY <1>1, <2>1, <2>2, <2>3, <2>4 DEF TypeOK, Init, ReqType, GebeurtenissenAssumption
<1>3. Werkend
  BY <1>1, RustVelden, GeenCallbacks DEF Werkend, Werker
<1>4. Sloten /\ Berichten
  BY <1>1, RustVelden DEF Sloten, Berichten
<1>5. EenBerichtPerWijziging
  <2> SUFFICES ASSUME NEW k \in Sleutels
               PROVE  achterstand[k] = Cardinality({w \in Werkers : k \in Open(w)})
    BY DEF EenBerichtPerWijziging
  <2>1. \A w \in Werkers : Open(w) = {}
    BY <1>1, RustVelden, OpenIs, OpenLeeg
  <2>2. {w \in Werkers : k \in Open(w)} = {}
    BY <2>1
  <2> QED
    BY <2>2, FS_EmptySet DEF Init
<1> QED
  BY <1>2, <1>3, <1>4, <1>5 DEF IInv

\* Every step of a worker is good.
LEMMA WerkerGoed ==
  ASSUME GebeurtenissenAssumption, IInv, Next
  PROVE  \/ \E w \in Werkers : Goed(w)
         \/ \E p \in Paren, soort \in {"gekoppeld", "ontkoppeld"} : Stuur(p, soort)
<1>1. ASSUME NEW w \in Werkers,
             \/ Begin(w) \/ Commit(w) \/ Rollback(w) \/ Roep(w) \/ RoepFaalt(w) \/ Verder(w) \/ Klaar(w)
             \/ Crash(w) \/ GekoppeldGemuteerd(w)
      PROVE  Goed(w)
  BY <1>1, GoedBegin, GoedCommit, GoedRollback, GoedRoep, GoedRoepFaalt, GoedVerder, GoedKlaar, GoedCrash,
     GoedGekoppeldGemuteerd
<1>2. ASSUME NEW w \in Werkers, NEW z \in Zaken, Wijzig(w, z) \/ Maak(w, z) \/ Meld(w, z)
      PROVE  Goed(w)
  BY <1>2, GoedWijzig, GoedMaak, GoedMeld
<1>3. ASSUME NEW w \in Werkers, NEW z \in Zaken, NEW met \in SUBSET Zaken, Verwijder(w, z, met)
      PROVE  Goed(w)
  BY <1>3, GoedVerwijder
<1>4. ASSUME NEW w \in Werkers, NEW p \in Paren,
             Ontvang(w, p) \/ Geweigerd(w, p) \/ Gekoppeld(w, p) \/ Ontkoppeld(w, p)
      PROVE  Goed(w)
  BY <1>4, GoedOntvang, GoedGeweigerd, GoedGekoppeld, GoedOntkoppeld
<1> QED
  BY <1>1, <1>2, <1>3, <1>4 DEF Next

\* The invariant is inductive.
LEMMA Invariantie ==
  GebeurtenissenAssumption /\ IInv /\ EenBerichtPerWijziging /\ [Next]_vars => (IInv /\ EenBerichtPerWijziging)'
<1> SUFFICES ASSUME GebeurtenissenAssumption, IInv, EenBerichtPerWijziging, [Next]_vars
             PROVE  IInv' /\ EenBerichtPerWijziging'
  OBVIOUS
<1>1. CASE UNCHANGED vars
  <2>1. UNCHANGED <<zaken, koppelingen, req, register, wacht, log, aanvaard, afgeweken, achterstand, fouten>>
    BY <1>1 DEF vars
  <2>2. TypeOK'
    BY <2>1 DEF IInv, TypeOK
  <2>3. Werkend'
    BY <2>1 DEF IInv, Werkend
  <2>4. Sloten' /\ Berichten'
    BY <2>1 DEF IInv, Sloten, Berichten, Geraakt
  <2>5. EenBerichtPerWijziging'
    BY <2>1 DEF EenBerichtPerWijziging, Open
  <2> QED
    BY <2>2, <2>3, <2>4, <2>5 DEF IInv
<1>2. CASE Next
  BY <1>2, WerkerGoed, GoedInv, GoedStuur
<1> QED
  BY <1>1, <1>2

\* Every variable keeps its type, workers that are idle have nothing to call back, and no
\* message is accepted that was not sent.
THEOREM TypeCorrect == Spec => []TypeOK
<1>1. Spec => [](IInv /\ EenBerichtPerWijziging)
  BY GebeurtenissenAssumption, Begonnen, Invariantie, PTL DEF Spec
<1>2. IInv => TypeOK
  BY DEF IInv
<1> QED
  BY <1>1, <1>2, PTL

\* Every transaction that changes or deletes a zaak is announced exactly once: what is not
\* announced yet, some worker is about to announce.
THEOREM Aangekondigd == Spec => []EenBerichtPerWijziging
<1>1. Spec => [](IInv /\ EenBerichtPerWijziging)
  BY GebeurtenissenAssumption, Begonnen, Invariantie, PTL DEF Spec
<1> QED
  BY <1>1, PTL

-----------------------------------------------------------------------------
(* One message about a zaak and an object at a time. *)

\* No two workers handle a message about the same zaak and object.
Alleen == \A v, w \in Werkers : v # w /\ req[v].over # Geen => req[v].over # req[w].over

\* The zaakobjecten of p are those of its n-th message.
Uitgevoerd(p, n) == koppelingen[p] > 0 <=> n > 0 /\ log[p][n] = "gekoppeld"

\* A worker that does q handles the message after the last one that was accepted.
Behandeling(q) ==
  q.over # Geen =>
    LET p == q.over
    IN /\ q.nr = aanvaard[p] + 1
       /\ p \notin afgeweken =>
            /\ q.fase = "gekoppeld" => p[1] \in zaken /\ log[p][q.nr] = "gekoppeld" /\ koppelingen[p] > 0
            /\ q.fase = "transactie" => log[p][q.nr] = "ontkoppeld" /\ q.aantal = koppelingen[p]
            /\ q.fase \in {"na", "klaar"} => Uitgevoerd(p, q.nr)

\* The last message that was accepted is carried out, or also the one after it.
Bijgewerkt(p) ==
  \E n \in {aanvaard[p], aanvaard[p] + 1} : n <= Len(log[p]) /\ Uitgevoerd(p, n)

VInv ==
  /\ Alleen
  /\ \A w \in Werkers : Behandeling(req[w])
  /\ \A p \in Paren \ afgeweken : Bijgewerkt(p)

\* A step leaves the zaakobjecten and messages of p alone, or p gets out of step.
Ongemoeid(p) ==
  /\ aanvaard'[p] = aanvaard[p]
  /\ p \notin afgeweken' => /\ p \notin afgeweken
                            /\ koppelingen'[p] = koppelingen[p]
                            /\ p[1] \in zaken => p[1] \in zaken'

\* Only the message that w handles is concerned.
LEMMA StapVolgt ==
  ASSUME IInv, VInv, NEW w \in Werkers, NEW q, req' = [req EXCEPT ![w] = q], log' = log,
         q.over = Geen \/ q.over = req[w].over \/ \A v \in Werkers : req[v].over # q.over,
         Behandeling(q)',
         NEW p0, p0 = req[w].over,
         \A p \in Paren : p # p0 => Ongemoeid(p),
         p0 \in Paren /\ p0 \notin afgeweken' => Bijgewerkt(p0)'
  PROVE  VInv'
<1>1. req'[w] = q /\ \A v \in Werkers \ {w} : req'[v] = req[v]
  BY DEF IInv, TypeOK
<1>2. Alleen'
  <2> SUFFICES ASSUME NEW u \in Werkers, NEW v \in Werkers, u # v, req'[u].over # Geen
               PROVE  req'[u].over # req'[v].over
    BY DEF Alleen
  <2>1. CASE u = w
    <3>1. req'[u] = q /\ req'[v] = req[v]
      BY <1>1, <2>1
    <3> QED
      BY <3>1, <2>1 DEF VInv, Alleen
  <2>2. CASE v = w
    <3>1. req'[u] = req[u] /\ req'[v] = q
      BY <1>1, <2>2
    <3> QED
      BY <3>1, <2>2 DEF VInv, Alleen
  <2>3. CASE u # w /\ v # w
    BY <1>1, <2>3 DEF VInv, Alleen
  <2> QED
    BY <2>1, <2>2, <2>3
<1>3. ASSUME NEW v \in Werkers PROVE Behandeling(req[v])'
  <2>1. CASE v = w
    BY <1>1, <2>1 DEF Behandeling, Uitgevoerd
  <2>2. CASE v # w
    <3>1. PICK r : r = req[v]
      OBVIOUS
    <3>2. req'[v] = r /\ r \in ReqType /\ Behandeling(r)
      BY <1>1, <2>2, <3>1, Nu DEF VInv
    <3>3. r.over = Geen \/ (r.over \in Paren /\ r.over # p0)
      BY <2>2, <3>1, <3>2 DEF VInv, Alleen, ReqType
    <3>4. CASE r.over = Geen
      BY <3>2, <3>4 DEF Behandeling
    <3>5. CASE r.over # Geen
      <4>1. PICK p : p = r.over
        OBVIOUS
      <4>2. Ongemoeid(p)
        BY <3>3, <3>5, <4>1
      <4>3. r.nr = aanvaard'[p] + 1
        BY <3>2, <3>5, <4>1, <4>2 DEF Behandeling, Ongemoeid
      <4>4. ASSUME p \notin afgeweken'
            PROVE  /\ r.fase = "gekoppeld" => p[1] \in zaken' /\ log'[p][r.nr] = "gekoppeld" /\ koppelingen'[p] > 0
                   /\ r.fase = "transactie" => log'[p][r.nr] = "ontkoppeld" /\ r.aantal = koppelingen'[p]
                   /\ r.fase \in {"na", "klaar"} => Uitgevoerd(p, r.nr)'
        <5>1. p \notin afgeweken /\ koppelingen'[p] = koppelingen[p] /\ (p[1] \in zaken => p[1] \in zaken')
          BY <4>2, <4>4 DEF Ongemoeid
        <5>2. /\ r.fase = "gekoppeld" => p[1] \in zaken /\ log[p][r.nr] = "gekoppeld" /\ koppelingen[p] > 0
              /\ r.fase = "transactie" => log[p][r.nr] = "ontkoppeld" /\ r.aantal = koppelingen[p]
              /\ r.fase \in {"na", "klaar"} => Uitgevoerd(p, r.nr)
          BY <3>2, <3>5, <4>1, <5>1 DEF Behandeling
        <5> QED
          BY <5>1, <5>2 DEF Uitgevoerd
      <4>5. Behandeling(r)'
        BY <4>1, <4>3, <4>4 DEF Behandeling
      <4> QED
        BY <3>2, <4>5 DEF Behandeling, Uitgevoerd
    <3> QED
      BY <3>4, <3>5
  <2> QED
    BY <2>1, <2>2
<1>4. ASSUME NEW p \in Paren, p \notin afgeweken' PROVE Bijgewerkt(p)'
  <2>1. CASE p = p0
    BY <1>4, <2>1
  <2>2. CASE p # p0
    <3>1. p \notin afgeweken /\ koppelingen'[p] = koppelingen[p] /\ aanvaard'[p] = aanvaard[p]
      BY <1>4, <2>2 DEF Ongemoeid
    <3>2. Bijgewerkt(p)
      BY <3>1 DEF VInv
    <3> QED
      BY <3>1, <3>2 DEF Bijgewerkt, Uitgevoerd
  <2> QED
    BY <2>1, <2>2
<1> QED
  BY <1>2, <1>3, <1>4 DEF VInv

\* The tables and the messages stay as they are.
LEMMA StapRustig ==
  ASSUME IInv, VInv, NEW w \in Werkers, NEW q, req' = [req EXCEPT ![w] = q],
         UNCHANGED <<zaken, koppelingen, log, aanvaard, afgeweken>>,
         q.over = Geen \/ q.over = req[w].over \/ \A v \in Werkers : req[v].over # q.over,
         Behandeling(q)
  PROVE  VInv'
<1>1. PICK p0 : p0 = req[w].over
  OBVIOUS
<1>2. Behandeling(q)'
  BY DEF Behandeling, Uitgevoerd
<1>3. \A p \in Paren : Ongemoeid(p)
  BY DEF Ongemoeid
<1>4. p0 \in Paren /\ p0 \notin afgeweken' => Bijgewerkt(p0)'
  BY DEF VInv, Bijgewerkt, Uitgevoerd
<1> QED
  BY <1>1, <1>2, <1>3, <1>4, StapVolgt

\* The worker does the same for the same message.
LEMMA StapZelfde ==
  ASSUME IInv, VInv, NEW w \in Werkers, NEW q, req' = [req EXCEPT ![w] = q],
         UNCHANGED <<zaken, koppelingen, log, aanvaard, afgeweken>>,
         q.over = req[w].over, q.nr = req[w].nr, q.fase = req[w].fase, q.aantal = req[w].aantal
  PROVE  VInv'
<1>1. Behandeling(req[w])
  BY DEF VInv
<1>2. Behandeling(q)
  BY <1>1 DEF Behandeling
<1> QED
  BY <1>2, StapRustig

\* The worker does not handle a message any more.
LEMMA StapZonder ==
  ASSUME IInv, VInv, NEW w \in Werkers, NEW q, req' = [req EXCEPT ![w] = q],
         UNCHANGED <<zaken, koppelingen, log, aanvaard, afgeweken>>, q.over = Geen
  PROVE  VInv'
<1>1. Behandeling(q)
  BY DEF Behandeling
<1> QED
  BY <1>1, StapRustig

LEMMA VolgtZonder ==
  ASSUME GebeurtenissenAssumption, IInv, VInv, NEW w \in Werkers,
         Begin(w) \/ Verder(w) \/ RoepFaalt(w) \/ Crash(w)
  PROVE  VInv'
<1>1. PICK st : st = IF w \in Taken THEN register[w] ELSE {}
  OBVIOUS
<1>2. PICK q1, q2 : q1 = [Rust EXCEPT !.fase = "transactie", !.stil = st] /\ q2 = [Rust EXCEPT !.fase = "transactie"]
  OBVIOUS
<1>3. q1.over = Geen /\ q2.over = Geen /\ Rust.over = Geen
  BY <1>2 DEF Rust
<1>4. UNCHANGED <<zaken, koppelingen, log, aanvaard, afgeweken>>
  BY DEF Begin, Verder, RoepFaalt, Crash, inVars
<1>5. CASE Begin(w)
  <2>1. req' = [req EXCEPT ![w] = q1]
    BY <1>1, <1>2, <1>5 DEF Begin
  <2> QED
    BY <2>1, <1>3, <1>4, StapZonder
<1>6. CASE Verder(w)
  <2>1. req' = [req EXCEPT ![w] = q2]
    BY <1>2, <1>6 DEF Verder
  <2> QED
    BY <2>1, <1>3, <1>4, StapZonder
<1>7. CASE RoepFaalt(w) \/ Crash(w)
  <2>1. req' = [req EXCEPT ![w] = Rust]
    BY <1>7 DEF RoepFaalt, Crash
  <2> QED
    BY <2>1, <1>3, <1>4, StapZonder
<1> QED
  BY <1>5, <1>6, <1>7

LEMMA VolgtWijzig ==
  ASSUME GebeurtenissenAssumption, IInv, VInv, NEW w \in Werkers, NEW z \in Zaken, Wijzig(w, z) \/ Maak(w, z) \/ Meld(w, z)
  PROVE  VInv'
<1>1. PICK oud : oud = req[w]
  OBVIOUS
<1>2. oud \in ReqType
  BY <1>1, Nu
<1>3. PICK m, n : m = oud.moet \cup {<<"gemuteerd", z>>} /\ n = oud.nieuw \cup {z}
  OBVIOUS
<1>4. PICK q1, q2 : q1 = [oud EXCEPT !.moet = m] /\ q2 = [oud EXCEPT !.nieuw = n]
  OBVIOUS
<1>5. /\ q1.over = oud.over /\ q1.nr = oud.nr /\ q1.fase = oud.fase /\ q1.aantal = oud.aantal
      /\ q2.over = oud.over /\ q2.nr = oud.nr /\ q2.fase = oud.fase /\ q2.aantal = oud.aantal
  BY <1>2, <1>4 DEF ReqType
<1>6. UNCHANGED <<zaken, koppelingen, log, aanvaard, afgeweken>>
  BY DEF Wijzig, Maak, Meld, inVars
<1>7. CASE Wijzig(w, z)
  <2>1. req' = [req EXCEPT ![w] = q1]
    BY <1>1, <1>3, <1>4, <1>7 DEF Wijzig
  <2> QED
    BY <2>1, <1>1, <1>5, <1>6, StapZelfde
<1>8. CASE Maak(w, z)
  <2>1. req' = [req EXCEPT ![w] = q2]
    BY <1>1, <1>3, <1>4, <1>8 DEF Maak
  <2> QED
    BY <2>1, <1>1, <1>5, <1>6, StapZelfde
<1>9. CASE Meld(w, z)
  <2>1. req' = [req EXCEPT ![w] = oud]
    BY <1>1, <1>9, Nu DEF Meld
  <2> QED
    BY <2>1, <1>1, <1>6, StapZelfde
<1> QED
  BY <1>7, <1>8, <1>9

LEMMA VolgtVerwijder ==
  ASSUME GebeurtenissenAssumption, IInv, VInv, NEW w \in Werkers, NEW z \in Zaken, NEW met \in SUBSET Zaken,
         Verwijder(w, z, met)
  PROVE  VInv'
<1>1. PICK oud, weg, m : /\ oud = req[w] /\ weg = {x \in Zicht(w) : x = z \/ HoofdVan[x] = z}
                         /\ m = ({"gemuteerd"} \X met) \cup ({"verwijderd"} \X weg)
  OBVIOUS
<1>2. oud \in ReqType
  BY <1>1, Nu
<1>3. PICK q : q = [oud EXCEPT !.weg = weg, !.moet = m]
  OBVIOUS
<1>4. q.over = oud.over /\ q.nr = oud.nr /\ q.fase = oud.fase /\ q.aantal = oud.aantal
  BY <1>2, <1>3 DEF ReqType
<1>5. req' = [req EXCEPT ![w].weg = weg, ![w].moet = m]
  BY <1>1 DEF Verwijder
<1>6. req' = [req EXCEPT ![w] = q]
  BY <1>1, <1>3, <1>5
<1>7. UNCHANGED <<zaken, koppelingen, log, aanvaard, afgeweken>>
  BY DEF Verwijder, inVars
<1> QED
  BY <1>1, <1>4, <1>6, <1>7, StapZelfde

LEMMA VolgtRoep ==
  ASSUME GebeurtenissenAssumption, IInv, VInv, NEW w \in Werkers, Roep(w)
  PROVE  VInv'
<1>1. PICK q : q = req[w]
  OBVIOUS
<1>2. req' = [req EXCEPT ![w] = q]
  BY <1>1, Nu DEF Roep
<1>3. UNCHANGED <<zaken, koppelingen, log, aanvaard, afgeweken>>
  BY DEF Roep, inVars
<1> QED
  BY <1>1, <1>2, <1>3, StapZelfde

LEMMA VolgtGekoppeldGemuteerd ==
  ASSUME GebeurtenissenAssumption, IInv, VInv, NEW w \in Werkers, GekoppeldGemuteerd(w)
  PROVE  VInv'
<1>1. PICK oud, p : oud = req[w] /\ p = oud.over
  OBVIOUS
<1>2. oud \in ReqType /\ oud.fase = "gekoppeld" /\ Behandeling(oud) /\ p # Geen /\ oud.nr \in Nat \ {0}
  <2>1. Werker(w, oud, register[w], wacht[w]) /\ oud \in ReqType /\ oud.fase = "gekoppeld"
    BY <1>1, Nu DEF GekoppeldGemuteerd
  <2>2. p # Geen
    BY <2>1, <1>1 DEF Werker
  <2>3. oud.nr \in 1..Len(log[p]) /\ oud.nr \in Nat
    BY <2>1, <2>2, <1>1 DEF IInv, Berichten, ReqType
  <2>4. Behandeling(oud)
    BY <1>1 DEF VInv
  <2> QED
    BY <2>1, <2>2, <2>3, <2>4
<1>3. PICK f : f \in {"na", "klaar"} /\ req' = [req EXCEPT ![w].fase = f]
  BY DEF GekoppeldGemuteerd
<1>4. PICK q : q = [oud EXCEPT !.fase = f]
  OBVIOUS
<1>5. q.over = p /\ q.nr = oud.nr /\ q.fase = f
  BY <1>1, <1>2, <1>4 DEF ReqType
<1>6. req' = [req EXCEPT ![w] = q]
  BY <1>1, <1>3, <1>4
<1>7. p \notin afgeweken => Uitgevoerd(p, q.nr)
  BY <1>1, <1>2, <1>5 DEF Behandeling, Uitgevoerd
<1>8. q.nr = aanvaard[p] + 1
  BY <1>1, <1>2, <1>5 DEF Behandeling
<1>9. Behandeling(q)
  BY <1>3, <1>5, <1>7, <1>8 DEF Behandeling
<1>10. UNCHANGED <<zaken, koppelingen, log, aanvaard, afgeweken>>
  BY DEF GekoppeldGemuteerd, inVars
<1> QED
  BY <1>1, <1>5, <1>6, <1>9, <1>10, StapRustig

LEMMA VolgtOntkoppeld ==
  ASSUME GebeurtenissenAssumption, IInv, VInv, NEW w \in Werkers, NEW p \in Paren, Ontkoppeld(w, p)
  PROVE  VInv'
<1>1. PICK oud, n, k : oud = req[w] /\ n = koppelingen[p] /\ k = <<"gemuteerd", p[1]>>
  OBVIOUS
<1>2. /\ oud \in ReqType /\ oud.fase = "ontvangen" /\ oud.over = p /\ p # Geen
      /\ Behandeling(oud) /\ n \in Nat /\ log[p][oud.nr] = "ontkoppeld"
  <2>1. oud \in ReqType /\ oud.fase = "ontvangen" /\ oud.over = p /\ log[p][oud.nr] = "ontkoppeld"
    BY <1>1, Nu DEF Ontkoppeld, Behandelt
  <2>2. p # Geen /\ n \in Nat
    BY <1>1 DEF GebeurtenissenAssumption, Paren, IInv, TypeOK
  <2>3. Behandeling(oud)
    BY <1>1 DEF VInv
  <2> QED
    BY <2>1, <2>2, <2>3
<1>3. oud.nr = aanvaard[p] + 1
  BY <1>2 DEF Behandeling
<1>4. UNCHANGED <<zaken, koppelingen, log, aanvaard, afgeweken>>
  BY DEF Ontkoppeld, inVars
<1>5. CASE n = 0
  <2>1. PICK q : q = [oud EXCEPT !.fase = "klaar"]
    OBVIOUS
  <2>2. q.over = p /\ q.nr = oud.nr /\ q.fase = "klaar"
    BY <1>2, <2>1 DEF ReqType
  <2>3. req' = [req EXCEPT ![w] = q]
    BY <1>1, <1>5, <2>1 DEF Ontkoppeld, Gevonden
  <2>4. Uitgevoerd(p, q.nr)
    BY <1>1, <1>2, <1>5, <2>2 DEF Uitgevoerd
  <2>5. Behandeling(q)
    BY <1>3, <2>2, <2>4 DEF Behandeling
  <2> QED
    BY <1>1, <1>2, <1>4, <2>2, <2>3, <2>5, StapRustig
<1>6. CASE n # 0
  <2>1. PICK q : q = [oud EXCEPT !.fase = "transactie", !.moet = {k}, !.aantal = n]
    OBVIOUS
  <2>2. q.over = p /\ q.nr = oud.nr /\ q.fase = "transactie" /\ q.aantal = n
    BY <1>2, <2>1 DEF ReqType
  <2>3. req' = [req EXCEPT ![w] = q]
    BY <1>1, <1>6, <2>1 DEF Ontkoppeld, Gevonden
  <2>4. Behandeling(q)
    BY <1>1, <1>2, <1>3, <2>2 DEF Behandeling
  <2> QED
    BY <1>1, <1>2, <1>4, <2>2, <2>3, <2>4, StapRustig
<1> QED
  BY <1>5, <1>6

LEMMA VolgtOntvang ==
  ASSUME GebeurtenissenAssumption, ~Overlap, IInv, VInv, NEW w \in Werkers, NEW p \in Paren, Ontvang(w, p)
  PROVE  VInv'
<1>1. PICK n : n = aanvaard[p] + 1
  OBVIOUS
<1>2. PICK q : q = [Rust EXCEPT !.fase = "ontvangen", !.over = p, !.nr = n]
  OBVIOUS
<1>3. q.fase = "ontvangen" /\ q.over = p /\ q.nr = n
  BY <1>2 DEF Rust
<1>4. req' = [req EXCEPT ![w] = q] /\ UNCHANGED <<zaken, koppelingen, log, aanvaard, afgeweken>>
  BY <1>1, <1>2 DEF Ontvang, inVars
<1>5. \A v \in Werkers : req[v].over # q.over
  BY <1>3 DEF Ontvang
<1>6. Behandeling(q)
  BY <1>1, <1>3 DEF Behandeling
<1> QED
  BY <1>4, <1>5, <1>6, StapRustig

LEMMA VolgtGeweigerd ==
  ASSUME GebeurtenissenAssumption, IInv, VInv, NEW w \in Werkers, NEW p \in Paren, Geweigerd(w, p)
  PROVE  VInv'
<1>1. PICK oud : oud = req[w]
  OBVIOUS
<1>2. oud \in ReqType /\ oud.over = p /\ Behandeling(oud) /\ p # Geen
  BY <1>1, Nu DEF Geweigerd, VInv, GebeurtenissenAssumption, Paren
<1>3. PICK q : q = [oud EXCEPT !.fase = "klaar"]
  OBVIOUS
<1>4. q.over = p /\ q.nr = oud.nr
  BY <1>2, <1>3 DEF ReqType
<1>5. req' = [req EXCEPT ![w] = q] /\ UNCHANGED <<zaken, koppelingen, log, aanvaard>> /\ afgeweken' = afgeweken \cup {p}
  BY <1>1, <1>3 DEF Geweigerd
<1>6. Behandeling(q)'
  BY <1>2, <1>4, <1>5 DEF Behandeling
<1>7. \A r \in Paren : r # p => Ongemoeid(r)
  BY <1>5 DEF Ongemoeid
<1> QED
  BY <1>1, <1>2, <1>4, <1>5, <1>6, <1>7, StapVolgt

LEMMA VolgtRollback ==
  ASSUME GebeurtenissenAssumption, IInv, VInv, NEW w \in Werkers, Rollback(w)
  PROVE  VInv'
<1>1. PICK oud, p : oud = req[w] /\ p = oud.over
  OBVIOUS
<1>2. oud \in ReqType /\ Behandeling(oud)
  BY <1>1, Nu DEF VInv
<1>3. PICK q : q = [Rust EXCEPT !.fase = "klaar", !.over = oud.over, !.nr = oud.nr]
  OBVIOUS
<1>4. q.over = p /\ q.nr = oud.nr
  BY <1>1, <1>3 DEF Rust
<1>5. /\ req' = [req EXCEPT ![w] = q] /\ UNCHANGED <<zaken, koppelingen, log, aanvaard>>
      /\ afgeweken' = afgeweken \cup ({p} \ {Geen})
  BY <1>1, <1>3 DEF Rollback
<1>6. Behandeling(q)'
  BY <1>1, <1>2, <1>4, <1>5 DEF Behandeling
<1>7. \A r \in Paren : r # p => Ongemoeid(r)
  BY <1>5 DEF Ongemoeid
<1>8. p \in Paren => p \in afgeweken'
  BY <1>5 DEF GebeurtenissenAssumption, Paren
<1> QED
  BY <1>1, <1>4, <1>5, <1>6, <1>7, <1>8, StapVolgt

LEMMA VolgtCommit ==
  ASSUME GebeurtenissenAssumption, IInv, VInv, NEW w \in Werkers, Commit(w)
  PROVE  VInv'
<1>1. PICK oud, p : oud = req[w] /\ p = oud.over
  OBVIOUS
<1>2. Werker(w, oud, register[w], wacht[w]) /\ oud \in ReqType /\ oud.fase = "transactie" /\ Behandeling(oud)
  BY <1>1, Nu DEF Commit, VInv
<1>3. PICK q : q = [oud EXCEPT !.fase = "na"]
  OBVIOUS
<1>4. q.over = p /\ q.nr = oud.nr /\ q.fase = "na"
  BY <1>1, <1>2, <1>3 DEF ReqType
<1>5. /\ req' = [req EXCEPT ![w] = q] /\ UNCHANGED <<log, aanvaard>>
      /\ zaken' = (zaken \cup oud.nieuw) \ oud.weg
      /\ koppelingen' = [r \in Paren |-> IF r[1] \in oud.weg THEN 0
                                         ELSE IF r = p THEN koppelingen[r] - oud.aantal
                                         ELSE koppelingen[r]]
      /\ afgeweken' = afgeweken \cup {r \in Paren : r[1] \in oud.weg}
  BY <1>1, <1>3 DEF Commit
<1>6. ASSUME NEW r \in Paren, r # p PROVE Ongemoeid(r)
  <2>1. CASE r[1] \in oud.weg
    BY <1>5, <2>1 DEF Ongemoeid
  <2>2. CASE r[1] \notin oud.weg
    BY <1>5, <1>6, <2>2 DEF Ongemoeid
  <2> QED
    BY <2>1, <2>2
<1>7. Geen \notin Paren
  BY DEF GebeurtenissenAssumption, Paren
<1>8. ASSUME p \in Paren, p \notin afgeweken'
      PROVE  Uitgevoerd(p, q.nr)' /\ Bijgewerkt(p)'
  <2>1. oud.weg = {} /\ p \notin afgeweken
    BY <1>1, <1>2, <1>5, <1>7, <1>8 DEF Werker
  <2>2. oud.nr = aanvaard[p] + 1 /\ log[p][oud.nr] = "ontkoppeld" /\ oud.aantal = koppelingen[p]
    BY <2>1, <1>1, <1>2, <1>7, <1>8 DEF Behandeling
  <2>3. koppelingen[p] \in Nat
    BY <1>8 DEF IInv, TypeOK
  <2>4. koppelingen'[p] = 0
    BY <2>1, <2>2, <2>3, <1>5, <1>8
  <2>5. Uitgevoerd(p, q.nr)'
    BY <2>2, <2>4, <1>4, <1>5 DEF Uitgevoerd
  <2>6. q.nr \in 1..Len(log[p]) /\ q.nr = aanvaard'[p] + 1
    BY <2>2, <1>1, <1>4, <1>5, <1>7, <1>8 DEF IInv, Berichten
  <2>7. q.nr <= Len(log'[p])
    BY <2>6, <1>5, <1>8 DEF IInv, TypeOK
  <2> QED
    BY <2>5, <2>6, <2>7 DEF Bijgewerkt
<1>9. Behandeling(q)'
  <2>1. p = Geen \/ p \in Paren
    BY <1>1, <1>2 DEF ReqType
  <2>2. p # Geen => oud.nr = aanvaard[p] + 1
    BY <1>1, <1>2 DEF Behandeling
  <2> QED
    BY <2>1, <2>2, <1>4, <1>5, <1>8 DEF Behandeling
<1> QED
  BY <1>1, <1>4, <1>5, <1>6, <1>8, <1>9, StapVolgt

LEMMA VolgtGekoppeld ==
  ASSUME GebeurtenissenAssumption, IInv, VInv, NEW w \in Werkers, NEW p \in Paren, Gekoppeld(w, p)
  PROVE  VInv'
<1>1. PICK oud : oud = req[w]
  OBVIOUS
<1>2. /\ oud \in ReqType /\ oud.over = p /\ Behandeling(oud) /\ p # Geen
      /\ log[p][oud.nr] = "gekoppeld" /\ p[1] \in zaken
  BY <1>1, Nu DEF Gekoppeld, Behandelt, VInv, GebeurtenissenAssumption, Paren
<1>3. PICK q : q = [oud EXCEPT !.fase = "gekoppeld"]
  OBVIOUS
<1>4. q.over = p /\ q.nr = oud.nr /\ q.fase = "gekoppeld"
  BY <1>2, <1>3 DEF ReqType
<1>5. /\ req' = [req EXCEPT ![w] = q] /\ UNCHANGED <<zaken, log, aanvaard, afgeweken>>
      /\ koppelingen' = [koppelingen EXCEPT ![p] = @ + 1]
  BY <1>1, <1>3 DEF Gekoppeld, inVars
<1>6. koppelingen \in [Paren -> Nat]
  BY DEF IInv, TypeOK
<1>7. koppelingen'[p] > 0
  BY <1>5, <1>6
<1>8. q.nr = aanvaard[p] + 1 /\ q.nr \in 1..Len(log[p])
  BY <1>1, <1>2, <1>4 DEF Behandeling, IInv, Berichten
<1>9. Behandeling(q)'
  BY <1>2, <1>4, <1>5, <1>7, <1>8 DEF Behandeling
<1>10. \A r \in Paren : r # p => Ongemoeid(r)
  BY <1>5, <1>6 DEF Ongemoeid
<1>11. Bijgewerkt(p)'
  <2>1. Uitgevoerd(p, q.nr)'
    BY <1>2, <1>4, <1>5, <1>7, <1>8 DEF Uitgevoerd
  <2>2. q.nr <= Len(log'[p]) /\ q.nr = aanvaard'[p] + 1
    BY <1>5, <1>8 DEF IInv, TypeOK
  <2> QED
    BY <2>1, <2>2 DEF Bijgewerkt
<1> QED
  BY <1>1, <1>2, <1>4, <1>5, <1>9, <1>10, <1>11, StapVolgt

LEMMA VolgtKlaar ==
  ASSUME GebeurtenissenAssumption, IInv, VInv, NEW w \in Werkers, Klaar(w)
  PROVE  VInv'
<1>1. PICK oud, p : oud = req[w] /\ p = oud.over
  OBVIOUS
<1>2. oud \in ReqType /\ oud.fase \in {"na", "klaar"} /\ Behandeling(oud)
  BY <1>1, Nu DEF Klaar, VInv
<1>3. PICK q : q = Rust
  OBVIOUS
<1>4. q.over = Geen
  BY <1>3 DEF Rust
<1>5. /\ req' = [req EXCEPT ![w] = q] /\ UNCHANGED <<zaken, koppelingen, log, afgeweken>>
      /\ aanvaard' = IF p # Geen /\ aanvaard[p] < oud.nr THEN [aanvaard EXCEPT ![p] = oud.nr] ELSE aanvaard
  BY <1>1, <1>3 DEF Klaar
<1>6. Behandeling(q)'
  BY <1>4 DEF Behandeling
<1>7. aanvaard \in [Paren -> Nat]
  BY DEF IInv, TypeOK
<1>8. \A r \in Paren : r # p => Ongemoeid(r)
  BY <1>5, <1>7 DEF Ongemoeid
<1>9. ASSUME p \in Paren, p \notin afgeweken' PROVE Bijgewerkt(p)'
  <2>1. p # Geen
    BY <1>9 DEF GebeurtenissenAssumption, Paren
  <2>2. oud.nr = aanvaard[p] + 1 /\ Uitgevoerd(p, oud.nr) /\ oud.nr \in 1..Len(log[p])
    BY <2>1, <1>1, <1>2, <1>5, <1>9 DEF Behandeling, IInv, Berichten
  <2>3. aanvaard'[p] = oud.nr
    BY <2>1, <2>2, <1>5, <1>7, <1>9
  <2>4. Uitgevoerd(p, oud.nr)' /\ oud.nr <= Len(log'[p])
    BY <2>2, <1>5, <1>9 DEF Uitgevoerd, IInv, TypeOK
  <2> QED
    BY <2>3, <2>4 DEF Bijgewerkt
<1> QED
  BY <1>1, <1>4, <1>5, <1>6, <1>8, <1>9, StapVolgt

LEMMA VolgtStuur ==
  ASSUME GebeurtenissenAssumption, IInv, VInv, NEW p \in Paren, NEW soort \in {"gekoppeld", "ontkoppeld"}, Stuur(p, soort)
  PROVE  VInv'
<1>1. UNCHANGED <<zaken, koppelingen, req, aanvaard, afgeweken>>
  BY DEF Stuur
<1>2. log \in [Paren -> Seq({"gekoppeld", "ontkoppeld"})] /\ log' = [log EXCEPT ![p] = Append(log[p], soort)]
  BY DEF IInv, TypeOK, Stuur
<1>3. /\ \A r \in Paren : Len(log[r]) \in Nat /\ Len(log'[r]) \in Nat /\ Len(log[r]) <= Len(log'[r])
      /\ \A r \in Paren : \A n \in 1..Len(log[r]) : log'[r][n] = log[r][n]
  <2> SUFFICES ASSUME NEW r \in Paren
               PROVE  /\ Len(log[r]) \in Nat /\ Len(log'[r]) \in Nat /\ Len(log[r]) <= Len(log'[r])
                      /\ \A n \in 1..Len(log[r]) : log'[r][n] = log[r][n]
    OBVIOUS
  <2>1. CASE r = p
    <3>1. log'[r] = Append(log[r], soort) /\ log[r] \in Seq({"gekoppeld", "ontkoppeld"})
      BY <1>2, <2>1
    <3> QED
      BY <3>1
  <2>2. CASE r # p
    BY <1>2, <2>2
  <2> QED
    BY <2>1, <2>2
<1>4. Alleen'
  BY <1>1 DEF VInv, Alleen
<1>5. ASSUME NEW v \in Werkers PROVE Behandeling(req[v])'
  <2>1. PICK q, r : q = req[v] /\ r = q.over
    OBVIOUS
  <2>2. Behandeling(q) /\ q \in ReqType
    BY <2>1, Nu DEF VInv
  <2>3. CASE r = Geen
    BY <1>1, <2>1, <2>3 DEF Behandeling
  <2>4. CASE r # Geen
    <3>1. r \in Paren /\ q.nr \in 1..Len(log[r])
      BY <2>1, <2>2, <2>4 DEF ReqType, IInv, Berichten
    <3>2. log'[r][q.nr] = log[r][q.nr]
      BY <3>1, <1>3
    <3>3. Uitgevoerd(r, q.nr) => Uitgevoerd(r, q.nr)'
      BY <1>1, <3>2 DEF Uitgevoerd
    <3>4. Behandeling(q)'
      BY <1>1, <2>1, <2>2, <2>4, <3>2, <3>3 DEF Behandeling
    <3> QED
      BY <1>1, <2>1, <3>4
  <2> QED
    BY <2>3, <2>4
<1>6. ASSUME NEW r \in Paren, r \notin afgeweken PROVE Bijgewerkt(r)'
  <2>1. PICK n \in {aanvaard[r], aanvaard[r] + 1} : n <= Len(log[r]) /\ Uitgevoerd(r, n)
    BY <1>6 DEF VInv, Bijgewerkt
  <2>2. n \in Nat /\ aanvaard'[r] = aanvaard[r]
    BY <2>1, <1>1 DEF IInv, TypeOK
  <2>3. n <= Len(log'[r])
    BY <2>1, <2>2, <1>3
  <2>4. n > 0 => log'[r][n] = log[r][n]
    BY <2>1, <2>2, <1>3
  <2>5. Uitgevoerd(r, n)'
    BY <2>1, <2>4, <1>1 DEF Uitgevoerd
  <2> QED
    BY <2>1, <2>2, <2>3, <2>5 DEF Bijgewerkt
<1> QED
  BY <1>1, <1>4, <1>5, <1>6 DEF VInv

LEMMA VolgtAltijd ==
  GebeurtenissenAssumption /\ ~Overlap /\ IInv /\ VInv /\ [Next]_vars => VInv'
<1> SUFFICES ASSUME GebeurtenissenAssumption, ~Overlap, IInv, VInv, [Next]_vars
             PROVE  VInv'
  OBVIOUS
<1>1. ASSUME NEW w \in Werkers,
             \/ Begin(w) \/ Commit(w) \/ Rollback(w) \/ Roep(w) \/ RoepFaalt(w) \/ Verder(w) \/ Klaar(w)
             \/ Crash(w) \/ GekoppeldGemuteerd(w)
      PROVE  VInv'
  BY <1>1, VolgtZonder, VolgtCommit, VolgtRollback, VolgtRoep, VolgtKlaar, VolgtGekoppeldGemuteerd
<1>2. ASSUME NEW w \in Werkers, NEW z \in Zaken, Wijzig(w, z) \/ Maak(w, z) \/ Meld(w, z)
      PROVE  VInv'
  BY <1>2, VolgtWijzig
<1>3. ASSUME NEW w \in Werkers, NEW z \in Zaken, NEW met \in SUBSET Zaken, Verwijder(w, z, met)
      PROVE  VInv'
  BY <1>3, VolgtVerwijder
<1>4. ASSUME NEW w \in Werkers, NEW p \in Paren,
             Ontvang(w, p) \/ Geweigerd(w, p) \/ Gekoppeld(w, p) \/ Ontkoppeld(w, p)
      PROVE  VInv'
  BY <1>4, VolgtOntvang, VolgtGeweigerd, VolgtGekoppeld, VolgtOntkoppeld
<1>5. ASSUME NEW p \in Paren, NEW soort \in {"gekoppeld", "ontkoppeld"}, Stuur(p, soort)
      PROVE  VInv'
  BY <1>5, VolgtStuur
<1>6. CASE UNCHANGED vars
  <2>1. UNCHANGED <<zaken, koppelingen, req, log, aanvaard, afgeweken>>
    BY <1>6 DEF vars
  <2> QED
    BY <2>1 DEF VInv, Alleen, Behandeling, Bijgewerkt, Uitgevoerd
<1> QED
  BY <1>1, <1>2, <1>3, <1>4, <1>5, <1>6 DEF Next

LEMMA VolgtEerst == GebeurtenissenAssumption /\ Init => VInv
<1> SUFFICES ASSUME GebeurtenissenAssumption, Init
             PROVE  VInv
  OBVIOUS
<1>1. /\ req = [w \in Werkers |-> Rust] /\ koppelingen = [p \in Paren |-> 0]
      /\ log = [p \in Paren |-> <<>>] /\ aanvaard = [p \in Paren |-> 0]
  BY DEF Init
<1>2. Alleen /\ \A w \in Werkers : Behandeling(req[w])
  BY <1>1, RustVelden DEF Alleen, Behandeling
<1>3. ASSUME NEW p \in Paren PROVE Bijgewerkt(p)
  <2>1. aanvaard[p] = 0 /\ koppelingen[p] = 0 /\ Len(log[p]) = 0
    BY <1>1
  <2> QED
    BY <2>1 DEF Bijgewerkt, Uitgevoerd
<1> QED
  BY <1>2, <1>3 DEF VInv

\* The invariant says what there is once all messages are accepted.
LEMMA VolgtDus == IInv /\ VInv => KoppelingVolgtBericht
<1> SUFFICES ASSUME IInv, VInv, NEW p \in Paren, p \notin afgeweken, log[p] # <<>>, aanvaard[p] = Len(log[p])
             PROVE  koppelingen[p] > 0 <=> Last(log[p]) = "gekoppeld"
  BY DEF KoppelingVolgtBericht
<1>1. log[p] \in Seq({"gekoppeld", "ontkoppeld"}) /\ Len(log[p]) \in Nat \ {0}
  BY DEF IInv, TypeOK
<1>2. PICK n \in {aanvaard[p], aanvaard[p] + 1} : n <= Len(log[p]) /\ Uitgevoerd(p, n)
  BY DEF VInv, Bijgewerkt
<1>3. n = Len(log[p]) /\ n > 0
  BY <1>1, <1>2
<1> QED
  BY <1>2, <1>3 DEF Uitgevoerd, Last

\* When the provider does not send a message again while it is being handled, the zaakobjecten
\* are those of its last message once all messages are accepted.
THEOREM Gevolgd ==
  ASSUME ~Overlap
  PROVE  Spec => []KoppelingVolgtBericht
<1>1. Spec => [](IInv /\ EenBerichtPerWijziging)
  BY GebeurtenissenAssumption, Begonnen, Invariantie, PTL DEF Spec
<1>2. Init => VInv
  BY GebeurtenissenAssumption, VolgtEerst
<1>3. IInv /\ VInv /\ [Next]_vars => VInv'
  BY GebeurtenissenAssumption, VolgtAltijd
<1>4. IInv /\ VInv => KoppelingVolgtBericht
  BY VolgtDus
<1> QED
  BY <1>1, <1>2, <1>3, <1>4, PTL DEF Spec

-----------------------------------------------------------------------------
(* The bulk import. *)

Taakfase == {"vrij", "start", "lees", "bewaar", "tel", "klaar", "vrijgeven"}

TaakRij(bs, gs) ==
  [fase : Taakfase, imp : Imports \cup {None}, total : 0..MaxRijen, processed : Nat,
   successfully : Nat, invalid : Nat, gelezen : 0..MaxRijen, batch : bs, gelukt : gs, stop : BOOLEAN]

\* The memory of a worker: the rows it read last are numbered from 1.
TaakVelden(t) ==
  /\ t \in TaakRij({t.batch}, {t.gelukt})
  /\ \E n \in 0..t.gelezen : DOMAIN t.batch = 1..n
  /\ t.gelukt \subseteq Geldig(t.batch)
  /\ t.gelezen <= t.total
  /\ t.fase = "start" => t.gelezen = 0
  /\ t.fase # "tel" => t.gelukt = {}
  /\ t.imp \in IF t.fase # "vrij" THEN Imports ELSE {None}

VerzoekVelden(q) ==
  /\ q \in [fase : {"vrij", "create", "upload", "dispatch", "delete"}, imp : Imports \cup {None}]
  /\ q.imp \in IF q.fase \in {"vrij", "create"} THEN {None} ELSE Imports

ImportTypes ==
  /\ imp \in [Imports -> Import]
  /\ DOMAIN verzoek = Requests /\ \A r \in Requests : VerzoekVelden(verzoek[r])
  /\ queue \in [Imports -> Nat]
  /\ lock \in Workers \cup {None, Dood}
  /\ DOMAIN worker = Workers /\ \A w \in Workers : TaakVelden(worker[w])
  /\ docs \in [Imports -> [Rij -> Nat]]
  /\ faults \subseteq AllFouten \cup {"verzoek", "worker", "verlopen"}

LEMMA ImportVormen == ImportTypes => ImportTypeOK
BY DEF ImportTypes, ImportTypeOK, VerzoekVelden, TaakVelden, TaakRij, Taakfase, Busy

-----------------------------------------------------------------------------
(* Lemmas about counting. *)

\* A set of numbers has a least one.
LEMMA KleinsteVan ==
  ASSUME NEW G \in SUBSET Nat, G # {}
  PROVE  \E m \in G : \A y \in G : m <= y
<1> DEFINE Voor == {ss \in Nat \X Nat : ss[1] < ss[2]}
<1>1. IsWellFoundedOn(Voor, Nat)
  BY NatLessThanWellFounded DEF OpToRel
<1>2. PICK m \in G : \A n \in G : ~(<<n, m>> \in Voor)
  <2> HIDE DEF Voor
  <2>1. QED
    BY <1>1, WFMin
<1>3. ASSUME NEW y \in G PROVE m <= y
  <2>1. <<y, m>>[1] = y /\ <<y, m>>[2] = m
    OBVIOUS
  <2>2. ~(y < m)
    BY <1>2, <2>1
  <2>3. QED BY <2>2
<1>4. QED BY <1>3

\* The rows of a batch, and of those the ones that succeeded.
LEMMA BatchTelt ==
  ASSUME NEW n \in Nat, NEW G, G \subseteq 1..n
  PROVE  /\ Cardinality(1..n) = n
         /\ IsFiniteSet(G) /\ Cardinality(G) \in 0..n
         /\ Cardinality((1..n) \ G) = n - Cardinality(G)
<1>1. IsFiniteSet(1..n) /\ Cardinality(1..n) = n
  BY FS_Interval
<1>2. IsFiniteSet(G) /\ Cardinality(G) <= n
  BY <1>1, FS_Subset
<1>3. Cardinality(G) \in Nat
  BY <1>2, FS_CardinalityType
<1>4. Cardinality((1..n) \ G) = n - Cardinality((1..n) \cap G)
  BY <1>1, FS_Difference
<1>5. (1..n) \cap G = G
  OBVIOUS
<1>6. Cardinality((1..n) \ G) = n - Cardinality(G)
  BY <1>4, <1>5
<1>7. Cardinality(G) \in 0..n
  BY <1>1, <1>2, <1>3
<1>8. QED BY <1>1, <1>2, <1>6, <1>7

\* Rows of the file that a batch stores are as many as the rows of the batch.
LEMMA Verschoven ==
  ASSUME NEW b \in Nat, NEW n \in Nat, NEW G, G \subseteq 1..n, NEW S,
         \A x : x \in S <=> \E k \in G : x = b + k
  PROVE  IsFiniteSet(S) /\ Cardinality(S) = Cardinality(G)
<1> DEFINE f == [k \in G |-> b + k]
<1>1. f \in [G -> S] /\ \A x \in S : \E k \in G : f[k] = x
  OBVIOUS
<1> HIDE DEF f
<1>2. \A k, l \in G : f[k] = f[l] => k = l
  <2>1. \A k \in G : k \in Nat /\ f[k] = b + k
    BY DEF f
  <2>2. QED BY <2>1
<1>3. f \in Bijection(G, S)
  BY <1>1, <1>2 DEF Bijection, Injection, Surjection, IsInjective
<1>4. IsFiniteSet(G)
  BY BatchTelt
<1>5. ExistsBijection(G, S)
  BY <1>3 DEF ExistsBijection
<1>6. QED BY <1>4, <1>5, FS_Bijection

\* Stored rows are added to those that were there.
Aangevuld(T, S, b, G) == \A x : x \in T <=> x \in S \/ \E k \in G : x = b + k
Nieuw(S, b, G) == \A k \in G : b + k \notin S

LEMMA Erbij ==
  ASSUME NEW n \in Nat, NEW b \in Nat, NEW G, G \subseteq 1..n, NEW S, IsFiniteSet(S),
         NEW T, Aangevuld(T, S, b, G), Nieuw(S, b, G)
  PROVE  IsFiniteSet(T) /\ Cardinality(T) = Cardinality(S) + Cardinality(G)
<1>1. PICK U : \A x : x \in U <=> \E k \in G : x = b + k
  <2>1. \A x : x \in {y \in Nat : \E k \in G : y = b + k} <=> \E k \in G : x = b + k
    OBVIOUS
  <2>2. QED BY <2>1
<1>2. IsFiniteSet(U) /\ Cardinality(U) = Cardinality(G)
  BY <1>1, Verschoven
<1>3. T = S \cup U /\ S \cap U = {}
  BY <1>1 DEF Aangevuld, Nieuw
<1>4. Cardinality(S \cup U) = Cardinality(S) + Cardinality(U) - Cardinality(S \cap U)
  BY <1>2, FS_Union
<1>5. Cardinality(S) \in Nat /\ Cardinality(G) \in Nat /\ Cardinality({}) = 0
  BY BatchTelt, FS_CardinalityType, FS_EmptySet
<1>6. IsFiniteSet(S \cup U)
  BY <1>2, FS_Union
<1>7. Cardinality(T) = Cardinality(S) + Cardinality(U) - 0
  BY <1>3, <1>4, <1>5
<1>8. QED BY <1>2, <1>3, <1>5, <1>6, <1>7

\* The row of the file of each row of the batch.
LEMMA RijVan ==
  ASSUME NEW t, NEW n \in Nat, DOMAIN t.batch = 1..n, NEW k
  PROVE  RowOf(t, k) = t.gelezen - n + k
BY BatchTelt DEF RowOf

-----------------------------------------------------------------------------
(* What each step does to the memory of a worker. *)

LEMMA TaakRustVelden == TaakVelden(IdleWorker)
<1>1. DOMAIN IdleWorker.batch = 1..0 /\ IdleWorker.gelukt = {}
  BY DEF IdleWorker
<1>2. IdleWorker.fase = "vrij" /\ IdleWorker.imp = None /\ IdleWorker.gelezen = 0 /\ IdleWorker.total = 0
  BY DEF IdleWorker
<1>3. IdleWorker \in TaakRij({IdleWorker.batch}, {IdleWorker.gelukt})
  BY ImportAssumption DEF IdleWorker, Taakfase, TaakRij
<1>4. QED BY <1>1, <1>2, <1>3 DEF TaakVelden

\* The fields that a step of the task leaves alone.
Tellers(t) == <<t.processed, t.successfully, t.invalid>>
Behoudt(u, t) == u.imp = t.imp /\ u.total = t.total /\ u.stop = t.stop

\* A worker's memory after each kind of step.
MetBegin(t, x) ==
  [t EXCEPT !.fase = "lees", !.total = x.rijen, !.processed = x.processed,
            !.successfully = x.successfully, !.invalid = x.invalid]
MetFase(t, f) == [t EXCEPT !.fase = f]
MetRijen(t, n, b, f) == [t EXCEPT !.gelezen = @ + n, !.batch = b, !.fase = f]
MetMerk(t, G, stop) == [t EXCEPT !.fase = "tel", !.gelukt = G, !.stop = stop]
Geboekt(t, c, g, d) == [t EXCEPT !.processed = @ + c, !.successfully = @ + g, !.invalid = @ + d]
MetTelling(t, c, g, d, f) ==
  [Geboekt(t, c, g, d) EXCEPT !.fase = f, !.batch = <<>>, !.gelukt = {}]

LEMMA StartVelden ==
  ASSUME NEW t, TaakVelden(t), t.fase = "start", NEW x \in Import, NEW u, u = MetBegin(t, x)
  PROVE  /\ TaakVelden(u) /\ u.fase = "lees" /\ u.imp = t.imp /\ u.total = x.rijen
         /\ u.processed = x.processed /\ u.successfully = x.successfully /\ u.invalid = x.invalid
         /\ u.gelezen = 0 /\ DOMAIN u.batch = {} /\ u.gelukt = {}
<1>1. x.rijen \in 0..MaxRijen /\ x.processed \in Nat /\ x.successfully \in Nat /\ x.invalid \in Nat
  BY DEF Import
<1>2. /\ u.fase = "lees" /\ u.imp = t.imp /\ u.total = x.rijen /\ u.processed = x.processed
      /\ u.successfully = x.successfully /\ u.invalid = x.invalid /\ u.gelezen = t.gelezen
      /\ u.batch = t.batch /\ u.gelukt = t.gelukt /\ u.stop = t.stop
  BY DEF TaakVelden, TaakRij, MetBegin
<1>3. u \in TaakRij({u.batch}, {u.gelukt})
  BY <1>1, <1>2 DEF TaakVelden, TaakRij, Taakfase, MetBegin
<1>4. t.gelezen = 0 /\ t.gelukt = {} /\ DOMAIN t.batch = 1..0
  BY DEF TaakVelden
<1>5. DOMAIN u.batch = {} /\ \E n \in 0..u.gelezen : DOMAIN u.batch = 1..n
  BY <1>2, <1>4
<1>6. u.imp \in Imports /\ u.gelukt = {}
  BY <1>2, <1>4 DEF TaakVelden
<1>7. TaakVelden(u)
  BY <1>1, <1>2, <1>3, <1>4, <1>5, <1>6 DEF TaakVelden
<1>8. QED BY <1>2, <1>4, <1>5, <1>6, <1>7

LEMMA FaseVelden ==
  ASSUME NEW t, TaakVelden(t), t.fase \notin {"vrij", "tel"},
         NEW f \in Taakfase \ {"vrij", "start"}, NEW u, u = MetFase(t, f)
  PROVE  /\ TaakVelden(u) /\ u.fase = f /\ Behoudt(u, t) /\ Tellers(u) = Tellers(t)
         /\ u.gelezen = t.gelezen /\ u.batch = t.batch /\ u.gelukt = {}
<1>2. /\ u.fase = f /\ u.imp = t.imp /\ u.total = t.total /\ u.processed = t.processed
      /\ u.successfully = t.successfully /\ u.invalid = t.invalid /\ u.gelezen = t.gelezen
      /\ u.batch = t.batch /\ u.gelukt = t.gelukt /\ u.stop = t.stop
  BY DEF TaakVelden, TaakRij, MetFase
<1>3. u \in TaakRij({u.batch}, {u.gelukt})
  BY <1>2 DEF TaakVelden, TaakRij, Taakfase, MetFase
<1>5. QED BY <1>2, <1>3 DEF TaakVelden, Behoudt, Tellers

\* Rows were read.
LEMMA LeesVelden ==
  ASSUME NEW t, TaakVelden(t), t.fase = "lees", NEW n \in 1..(t.total - t.gelezen), NEW b,
         \E k \in 0..n : DOMAIN b = 1..k, NEW f \in {"bewaar", "klaar"}, NEW u,
         u = MetRijen(t, n, b, f)
  PROVE  /\ TaakVelden(u) /\ u.fase = f /\ Behoudt(u, t) /\ Tellers(u) = Tellers(t)
         /\ u.gelezen = t.gelezen + n /\ u.batch = b /\ u.gelukt = {}
<1>1. t.gelezen \in 0..MaxRijen /\ t.total \in 0..MaxRijen /\ n \in Nat /\ t.gelezen + n <= t.total
  BY ImportAssumption DEF TaakVelden, TaakRij
<1>2. /\ u.fase = f /\ u.imp = t.imp /\ u.total = t.total /\ u.processed = t.processed
      /\ u.successfully = t.successfully /\ u.invalid = t.invalid /\ u.gelezen = t.gelezen + n
      /\ u.batch = b /\ u.gelukt = t.gelukt /\ u.stop = t.stop
  BY DEF TaakVelden, TaakRij, MetRijen
<1>3. PICK m : m = t.gelezen + n /\ m \in 0..MaxRijen
  BY <1>1, ImportAssumption
<1>4. u = [t EXCEPT !.gelezen = m, !.batch = b, !.fase = f]
  BY <1>3 DEF MetRijen
<1>5. u \in TaakRij({u.batch}, {u.gelukt})
  BY <1>2, <1>3, <1>4 DEF TaakVelden, TaakRij, Taakfase
<1>6. \E k \in 0..u.gelezen : DOMAIN u.batch = 1..k
  BY <1>1, <1>2
<1>7. t.gelukt = {}
  BY DEF TaakVelden
<1>8. u.gelezen <= u.total /\ u.imp \in Imports
  BY <1>1, <1>2 DEF TaakVelden
<1>9. TaakVelden(u)
  BY <1>2, <1>5, <1>6, <1>7, <1>8 DEF TaakVelden
<1>10. QED BY <1>2, <1>7, <1>9 DEF Behoudt, Tellers

\* A batch was stored, or not.
LEMMA MerkVelden ==
  ASSUME NEW t, TaakVelden(t), t.fase = "bewaar", NEW G, G \subseteq Geldig(t.batch),
         NEW stop \in BOOLEAN, NEW u, u = MetMerk(t, G, stop)
  PROVE  /\ TaakVelden(u) /\ u.fase = "tel" /\ u.imp = t.imp /\ u.total = t.total
         /\ Tellers(u) = Tellers(t) /\ u.stop = stop
         /\ u.gelezen = t.gelezen /\ u.batch = t.batch /\ u.gelukt = G
<1>2. /\ u.fase = "tel" /\ u.imp = t.imp /\ u.total = t.total /\ u.processed = t.processed
      /\ u.successfully = t.successfully /\ u.invalid = t.invalid /\ u.gelezen = t.gelezen
      /\ u.batch = t.batch /\ u.gelukt = G /\ u.stop = stop
  BY DEF TaakVelden, TaakRij, MetMerk
<1>3. u \in TaakRij({u.batch}, {u.gelukt})
  BY <1>2 DEF TaakVelden, TaakRij, Taakfase, MetMerk
<1>5. QED BY <1>2, <1>3 DEF TaakVelden, Tellers

LEMMA OpgeslagenVelden ==
  ASSUME NEW t, TaakVelden(t), NEW G
  PROVE  [t EXCEPT !.fase = "tel", !.gelukt = G] = MetMerk(t, G, t.stop) /\ t.stop \in BOOLEAN
BY DEF TaakVelden, TaakRij, MetMerk

\* The rows of a batch were counted.
NaTelling(u, t, c, g, d, f) ==
  /\ TaakVelden(u) /\ u.fase = f /\ Behoudt(u, t) /\ u.gelezen = t.gelezen
  /\ u.processed = t.processed + c /\ u.successfully = t.successfully + g
  /\ u.invalid = t.invalid + d /\ DOMAIN u.batch = {} /\ u.gelukt = {}
  /\ Tellers(Geboekt(t, c, g, d)) = Tellers(u)

LEMMA TelVelden ==
  ASSUME NEW t, TaakVelden(t), t.fase = "tel", NEW c \in Nat, NEW g \in Nat, NEW d \in Nat,
         NEW f \in {"lees", "klaar"}, NEW u, u = MetTelling(t, c, g, d, f)
  PROVE  NaTelling(u, t, c, g, d, f)
<1>1. t.processed \in Nat /\ t.successfully \in Nat /\ t.invalid \in Nat /\ t.gelezen \in Nat
  BY DEF TaakVelden, TaakRij
<1>2. /\ u.fase = f /\ u.imp = t.imp /\ u.total = t.total /\ u.processed = t.processed + c
      /\ u.successfully = t.successfully + g /\ u.invalid = t.invalid + d /\ u.gelezen = t.gelezen
      /\ u.batch = <<>> /\ u.gelukt = {} /\ u.stop = t.stop
      /\ Tellers(Geboekt(t, c, g, d)) = Tellers(u)
  BY DEF TaakVelden, TaakRij, MetTelling, Geboekt, Tellers
<1>3. PICK p, s, i : /\ p = t.processed + c /\ s = t.successfully + g /\ i = t.invalid + d
                     /\ p \in Nat /\ s \in Nat /\ i \in Nat
  BY <1>1
<1>4. u = [[t EXCEPT !.processed = p, !.successfully = s, !.invalid = i]
             EXCEPT !.fase = f, !.batch = <<>>, !.gelukt = {}]
  BY <1>3 DEF MetTelling, Geboekt
<1>5. u \in TaakRij({u.batch}, {u.gelukt})
  BY <1>2, <1>3, <1>4 DEF TaakVelden, TaakRij, Taakfase
<1>6. DOMAIN u.batch = 1..0
  BY <1>2
<1>7. (\E n \in 0..u.gelezen : DOMAIN u.batch = 1..n) /\ DOMAIN u.batch = {}
  BY <1>1, <1>2, <1>6
<1>8. u.gelezen <= u.total /\ u.imp \in Imports
  BY <1>2 DEF TaakVelden
<1>9. TaakVelden(u)
  BY <1>2, <1>5, <1>7, <1>8 DEF TaakVelden
<1>10. QED BY <1>2, <1>7, <1>9 DEF Behoudt, NaTelling

-----------------------------------------------------------------------------
(* Types. *)

LEMMA TaakTypes ==
  ASSUME ImportTypes, NEW w \in Workers, NEW u, TaakVelden(u), Step(w, u),
         imp' \in [Imports -> Import], verzoek' = verzoek, queue' \in [Imports -> Nat],
         lock' \in Workers \cup {None, Dood}, docs' \in [Imports -> [Rij -> Nat]],
         faults' \subseteq AllFouten \cup {"verzoek", "worker", "verlopen"}
  PROVE  ImportTypes'
<1>1. DOMAIN worker' = Workers /\ \A v \in Workers : worker'[v] = IF v = w THEN u ELSE worker[v]
  BY DEF ImportTypes, Step
<1>2. ASSUME NEW v \in Workers PROVE TaakVelden(worker'[v])
  BY <1>1 DEF ImportTypes
<1>3. QED BY <1>1, <1>2 DEF ImportTypes

LEMMA WebTypes ==
  ASSUME ImportTypes, UNCHANGED <<queue, lock, worker, docs, faults>>,
         imp' \in [Imports -> Import],
         DOMAIN verzoek' = Requests, \A r \in Requests : VerzoekVelden(verzoek'[r])
  PROVE  ImportTypes'
BY DEF ImportTypes

LEMMA RustVerzoek == VerzoekVelden(IdleReq)
BY DEF VerzoekVelden, IdleReq

LEMMA KlaarVelden ==
  ASSUME ImportTypes, NEW r \in Requests, Finish(r)
  PROVE  DOMAIN verzoek' = Requests /\ \A s \in Requests : VerzoekVelden(verzoek'[s])
<1>1. DOMAIN verzoek' = Requests /\ \A s \in Requests : verzoek'[s] = IF s = r THEN IdleReq ELSE verzoek[s]
  BY DEF ImportTypes, Finish
<1>2. QED BY <1>1, RustVerzoek DEF ImportTypes

LEMMA BegonnenVelden ==
  ASSUME ImportTypes, NEW r \in Requests, NEW f, NEW i, VerzoekVelden([fase |-> f, imp |-> i]),
         Start(r, f, i)
  PROVE  DOMAIN verzoek' = Requests /\ \A s \in Requests : VerzoekVelden(verzoek'[s])
<1>1. DOMAIN verzoek' = Requests
      /\ \A s \in Requests : verzoek'[s] = IF s = r THEN [fase |-> f, imp |-> i] ELSE verzoek[s]
  BY DEF ImportTypes, Start
<1>2. QED BY <1>1 DEF ImportTypes

\* A row of which the status changes.
LEMMA StandVorm ==
  ASSUME imp \in [Imports -> Import], NEW i \in Imports, NEW st \in Stand,
         imp' = [imp EXCEPT ![i].status = st]
  PROVE  /\ imp' \in [Imports -> Import]
         /\ imp'[i] = [imp[i] EXCEPT !.status = st]
         /\ \A j \in Imports : j # i => imp'[j] = imp[j]
<1>1. [imp[i] EXCEPT !.status = st] \in Import
  BY DEF Import
<1>2. QED BY <1>1

LEMMA WebTypesStap == ImportTypes /\ Web => ImportTypes'
<1> SUFFICES ASSUME ImportTypes, Web PROVE ImportTypes'
  OBVIOUS
<1>0. imp \in [Imports -> Import]
  BY DEF ImportTypes
<1>1. ASSUME NEW r \in Requests, CreateCheck(r) PROVE ImportTypes'
  <2>1. VerzoekVelden([fase |-> "create", imp |-> None])
    BY DEF VerzoekVelden
  <2>2. QED BY <1>0, <1>1, <2>1, BegonnenVelden, WebTypes DEF CreateCheck
<1>2. ASSUME NEW r \in Requests, NEW i \in Imports, CreateInsert(r, i) PROVE ImportTypes'
  <2>1. imp' \in [Imports -> Import]
    BY <1>0, <1>2, StandVorm DEF CreateInsert, Stand
  <2>2. QED BY <1>2, <2>1, KlaarVelden, WebTypes DEF CreateInsert
<1>3. ASSUME NEW r \in Requests, NEW i \in Imports, UploadCheck(r, i) PROVE ImportTypes'
  <2>1. VerzoekVelden([fase |-> "upload", imp |-> i])
    BY DEF VerzoekVelden
  <2>2. QED BY <1>0, <1>3, <2>1, BegonnenVelden, WebTypes DEF UploadCheck
<1>4. ASSUME NEW r \in Requests, NEW i \in Imports, DestroyCheck(r, i) PROVE ImportTypes'
  <2>1. VerzoekVelden([fase |-> "delete", imp |-> i])
    BY DEF VerzoekVelden
  <2>2. QED BY <1>0, <1>4, <2>1, BegonnenVelden, WebTypes DEF DestroyCheck
<1>5. ASSUME NEW r \in Requests, NEW rijen \in Rij, UploadSave(r, rijen) PROVE ImportTypes'
  <2>1. PICK i : i = verzoek[r].imp
    OBVIOUS
  <2>2. verzoek[r].fase = "upload" /\ i \in Imports
    BY <1>5, <2>1 DEF UploadSave, ImportTypes, VerzoekVelden
  <2>3. CASE Bestaat(i)
    <3>1. /\ imp' = [imp EXCEPT ![i].status = "active", ![i].rijen = rijen]
          /\ verzoek' = [verzoek EXCEPT ![r].fase = "dispatch"]
      BY <1>5, <2>1, <2>3 DEF UploadSave
    <3>9. imp[i] \in Import /\ rijen \in 0..MaxRijen
      BY <1>0, <2>2, ImportAssumption DEF Rij
    <3>2. [imp[i] EXCEPT !.status = "active", !.rijen = rijen] \in Import
      BY <3>9 DEF Import, Stand
    <3>3. imp' = [imp EXCEPT ![i] = [imp[i] EXCEPT !.status = "active", !.rijen = rijen]]
      BY <3>1, <1>0, <2>2
    <3>4. imp' \in [Imports -> Import]
      BY <1>0, <3>2, <3>3
    <3>5. VerzoekVelden([verzoek[r] EXCEPT !.fase = "dispatch"])
      BY <2>1, <2>2 DEF ImportTypes, VerzoekVelden
    <3>6. DOMAIN verzoek' = Requests /\ \A s \in Requests :
             verzoek'[s] = IF s = r THEN [verzoek[r] EXCEPT !.fase = "dispatch"] ELSE verzoek[s]
      BY <3>1 DEF ImportTypes
    <3>7. \A s \in Requests : VerzoekVelden(verzoek'[s])
      BY <3>5, <3>6 DEF ImportTypes
    <3>8. QED BY <1>5, <3>4, <3>6, <3>7, WebTypes DEF UploadSave
  <2>4. CASE ~Bestaat(i)
    BY <1>0, <1>5, <2>1, <2>4, KlaarVelden, WebTypes DEF UploadSave
  <2>5. QED BY <2>3, <2>4
<1>6. ASSUME NEW r \in Requests, Dispatch(r) PROVE ImportTypes'
  <2>1. queue' \in [Imports -> Nat]
    <3>1. PICK i \in Imports : i = verzoek[r].imp
      BY <1>6 DEF Dispatch, ImportTypes, VerzoekVelden
    <3>2. queue[i] + 1 \in Nat /\ queue \in [Imports -> Nat]
      BY DEF ImportTypes
    <3>3. queue' = [queue EXCEPT ![i] = queue[i] + 1] \/ queue' = queue
      BY <1>6, <3>1 DEF Dispatch
    <3>4. QED BY <3>2, <3>3
  <2>2. QED BY <1>6, <2>1, KlaarVelden DEF Dispatch, ImportTypes
<1>7. ASSUME NEW r \in Requests, Destroy(r) PROVE ImportTypes'
  <2>1. verzoek[r].imp \in Imports
    BY <1>7 DEF Destroy, ImportTypes, VerzoekVelden
  <2>2. imp' \in [Imports -> Import]
    BY <1>0, <1>7, <2>1, StandVorm DEF Destroy, Stand
  <2>3. QED BY <1>7, <2>2, KlaarVelden, WebTypes DEF Destroy
<1>8. ASSUME NEW r \in Requests, RequestFails(r) PROVE ImportTypes'
  BY <1>8, KlaarVelden DEF RequestFails, Mislukt, ImportTypes
<1>9. ASSUME NEW i \in Imports, RemoveImport(i) PROVE ImportTypes'
  <2>1. imp' \in [Imports -> Import]
    BY <1>0, <1>9, StandVorm DEF RemoveImport, Stand
  <2>2. QED BY <1>9, <2>1, WebTypes DEF RemoveImport, ImportTypes
<1>10. QED BY <1>1, <1>2, <1>3, <1>4, <1>5, <1>6, <1>7, <1>8, <1>9 DEF Web

\* What a worker reads: a batch of rows that is going to be stored, or the last rows of a file.
Leest(w, t, n, f, b) ==
  /\ Step(w, MetRijen(t, n, b, f))
  /\ \E k \in 0..n : DOMAIN b = 1..k
  /\ FlushAt(t) # {} => /\ f = "bewaar" /\ DOMAIN b = 1..n
                        /\ files' = files \cup {Naam(t.imp, t.gelezen + x) : x \in Geldig(b)}

LEMMA Gelezen ==
  ASSUME ImportTypes, NEW w \in Workers, NEW soorten, ReadBatch(w, soorten), NEW t, t = worker[w]
  PROVE  \E n \in 1..(t.total - t.gelezen), f \in {"bewaar", "klaar"} : \E b : Leest(w, t, n, f, b)
<1>0. TaakVelden(t) /\ t.gelezen \in Nat /\ t.total \in Nat /\ t.gelezen < t.total
  <2>1. TaakVelden(t)
    BY DEF ImportTypes
  <2>2. t.gelezen \in Nat /\ t.total \in Nat
    BY <2>1, ImportAssumption DEF TaakVelden, TaakRij
  <2>3. t.gelezen < t.total
    BY DEF ReadBatch
  <2>4. QED BY <2>1, <2>2, <2>3
<1>1. CASE FlushAt(t) = {}
  <2>1. PICK n : n = t.total - t.gelezen
    OBVIOUS
  <2>2. n \in 1..(t.total - t.gelezen)
    BY <1>0, <2>1
  <2>3. Step(w, MetRijen(t, n, <<>>, "klaar"))
    BY <1>1, <2>1 DEF ReadBatch, MetRijen
  <2>4. DOMAIN <<>> = 1..0 /\ 0 \in 0..n
    BY <2>2
  <2>5. Leest(w, t, n, "klaar", <<>>)
    BY <1>1, <2>3, <2>4 DEF Leest
  <2>6. QED BY <2>2, <2>5
<1>2. CASE FlushAt(t) # {}
  <2>1. FlushAt(t) \subseteq 1..(t.total - t.gelezen)
    BY DEF FlushAt
  <2>2. FlushAt(t) \in SUBSET Nat
    BY <1>0, <2>1
  <2>3. PICK n : n = CHOOSE x \in FlushAt(t) : \A y \in FlushAt(t) : x <= y
    OBVIOUS
  <2>4. n \in FlushAt(t)
    BY <1>2, <2>2, <2>3, KleinsteVan
  <2>5. PICK b : b = [x \in 1..n |-> soorten[x]]
    OBVIOUS
  <2>6. Step(w, MetRijen(t, n, b, "bewaar"))
        /\ files' = files \cup {Naam(t.imp, t.gelezen + x) : x \in Geldig(b)}
    <3>1. Step(w, MetRijen(t, n, b, "bewaar"))
      BY <1>2, <2>3, <2>5 DEF ReadBatch, MetRijen
    <3>2. files' = files \cup {Naam(t.imp, t.gelezen + x) : x \in Geldig(b)}
      BY <1>2, <2>3, <2>5, ZenonT(30) DEF ReadBatch
    <3>3. QED BY <3>1, <3>2
  <2>7. n \in 1..(t.total - t.gelezen) /\ DOMAIN b = 1..n /\ n \in 0..n
    BY <1>0, <2>1, <2>4, <2>5
  <2>8. Leest(w, t, n, "bewaar", b)
    BY <2>6, <2>7 DEF Leest
  <2>9. QED BY <2>7, <2>8
<1>3. QED BY <1>1, <1>2

\* What a worker counts: n rows, of which g succeeded.
Telde(w, t, n, g) ==
  LET u == MetTelling(t, n, g, n - g, IF t.stop THEN "klaar" ELSE "lees")
  IN /\ DOMAIN t.batch = 1..n /\ g = Cardinality(t.gelukt) /\ g <= n /\ n - g \in Nat
     /\ Step(w, u)
     /\ imp' = IF Bestaat(t.imp)
                 THEN [imp EXCEPT ![t.imp].processed = u.processed,
                                  ![t.imp].successfully = u.successfully,
                                  ![t.imp].invalid = u.invalid]
                 ELSE imp

LEMMA Geteld ==
  ASSUME ImportTypes, NEW w \in Workers, FinishBatch(w), NEW t, t = worker[w]
  PROVE  \E n \in Nat, g \in Nat : Telde(w, t, n, g)
<1>0. TaakVelden(t) /\ t.fase = "tel"
  BY DEF ImportTypes, FinishBatch
<1>1. PICK n \in Nat : DOMAIN t.batch = 1..n
  BY <1>0, ImportAssumption DEF TaakVelden, TaakRij
<1>2. t.gelukt \subseteq 1..n
  BY <1>0, <1>1 DEF TaakVelden, Geldig
<1>3. PICK g : g = Cardinality(t.gelukt)
  OBVIOUS
<1>4. g \in 0..n /\ Cardinality(1..n) = n /\ Cardinality((1..n) \ t.gelukt) = n - g
  BY <1>2, <1>3, BatchTelt
<1>5. g \in Nat /\ n - g \in Nat /\ g <= n
  BY <1>4
<1>6. PICK f : f = IF t.stop THEN "klaar" ELSE "lees"
  OBVIOUS
<1>7. f \in {"klaar", "lees"}
  BY <1>6
<1>8. PICK done : done = Geboekt(t, n, g, n - g)
  OBVIOUS
<1>9. PICK u : u = MetTelling(t, n, g, n - g, f)
  OBVIOUS
<1>10. Tellers(done) = Tellers(u)
  <2>1. NaTelling(u, t, n, g, n - g, f)
    BY <1>0, <1>5, <1>7, <1>9, TelVelden
  <2>2. QED BY <1>8, <2>1 DEF NaTelling
<1>11. /\ done.processed = u.processed /\ done.successfully = u.successfully
       /\ done.invalid = u.invalid
  BY <1>10 DEF Tellers
<1>12. done = [t EXCEPT !.processed = @ + Cardinality(DOMAIN t.batch),
                        !.successfully = @ + Cardinality(t.gelukt),
                        !.invalid = @ + Cardinality(DOMAIN t.batch \ t.gelukt)]
  BY <1>1, <1>3, <1>4, <1>8 DEF Geboekt
<1>13. u = [done EXCEPT !.fase = f, !.batch = <<>>, !.gelukt = {}]
  BY <1>8, <1>9 DEF MetTelling
<1>14. Step(w, u) /\ imp' = IF Bestaat(t.imp)
                       THEN [imp EXCEPT ![t.imp].processed = done.processed,
                                        ![t.imp].successfully = done.successfully,
                                        ![t.imp].invalid = done.invalid]
                       ELSE imp
  BY <1>6, <1>12, <1>13 DEF FinishBatch
<1>15. Telde(w, t, n, g)
  BY <1>1, <1>3, <1>5, <1>6, <1>9, <1>11, <1>14 DEF Telde
<1>16. QED BY <1>5, <1>15

\* The counters of an import.
NieuweTellers(i, p, s, v) ==
  imp' = [imp EXCEPT ![i].processed = p, ![i].successfully = s, ![i].invalid = v]

LEMMA TellerVorm ==
  ASSUME imp \in [Imports -> Import], NEW i \in Imports, NEW p \in Nat, NEW s \in Nat, NEW v \in Nat,
         NieuweTellers(i, p, s, v)
  PROVE  /\ imp' \in [Imports -> Import] /\ \A j \in Imports : j # i => imp'[j] = imp[j]
         /\ imp'[i].status = imp[i].status /\ imp'[i].rijen = imp[i].rijen /\ imp'[i].total = imp[i].total
         /\ imp'[i].processed = p /\ imp'[i].successfully = s /\ imp'[i].invalid = v
<1>1. PICK x \in Import : x = imp[i]
  OBVIOUS
<1>2. PICK y : y = [x EXCEPT !.processed = p, !.successfully = s, !.invalid = v]
  OBVIOUS
<1>3. /\ y \in Import /\ y.status = x.status /\ y.rijen = x.rijen /\ y.total = x.total
      /\ y.processed = p /\ y.successfully = s /\ y.invalid = v
  BY <1>2 DEF Import
<1>4. imp' = [imp EXCEPT ![i] = y]
  BY <1>1, <1>2 DEF NieuweTellers
<1>7. y \in Import
  BY <1>3
<1>6. imp' \in [Imports -> Import] /\ imp'[i] = y /\ \A j \in Imports : j # i => imp'[j] = imp[j]
  BY <1>4, <1>7
<1>5. QED BY <1>1, <1>3, <1>6

LEMMA BegonnenVorm ==
  ASSUME imp \in [Imports -> Import], NEW i \in Imports, NEW n \in 0..MaxRijen,
         imp' = [imp EXCEPT ![i].status = "active", ![i].total = n]
  PROVE  /\ imp' \in [Imports -> Import] /\ \A j \in Imports : j # i => imp'[j] = imp[j]
         /\ imp'[i].status = "active" /\ imp'[i].total = n /\ imp'[i].processed = imp[i].processed
         /\ imp'[i].successfully = imp[i].successfully /\ imp'[i].invalid = imp[i].invalid
<1>1. PICK x \in Import : x = imp[i]
  OBVIOUS
<1>2. PICK y : y = [x EXCEPT !.status = "active", !.total = n]
  OBVIOUS
<1>3. /\ y \in Import /\ y.status = "active" /\ y.total = n /\ y.processed = x.processed
      /\ y.successfully = x.successfully /\ y.invalid = x.invalid
  BY <1>2 DEF Import, Stand
<1>4. imp' = [imp EXCEPT ![i] = y]
  BY <1>1, <1>2
<1>7. y \in Import
  BY <1>3
<1>6. imp' \in [Imports -> Import] /\ imp'[i] = y /\ \A j \in Imports : j # i => imp'[j] = imp[j]
  BY <1>4, <1>7
<1>5. QED BY <1>1, <1>3, <1>6

LEMMA TaskTypesStap == ImportTypes /\ Task => ImportTypes'
<1> SUFFICES ASSUME ImportTypes, NEW w \in Workers,
       \/ \E i \in Imports : TaskReceive(w, i)
       \/ TaskStart(w)
       \/ \E soorten \in [1..BatchSize -> Soorten] : ReadBatch(w, soorten)
       \/ ReadEnd(w) \/ BatchCreate(w)
       \/ \E fout \in Fouten, k \in 1..BatchSize, stop \in BOOLEAN : BatchFails(w, fout, k, stop)
       \/ \E k \in 1..BatchSize : BatchRaises(w, k)
       \/ FinishBatch(w) \/ FinishImport(w) \/ TaskEnd(w)
       \/ WorkerCrash(w)
     PROVE ImportTypes'
  BY DEF Task
<1>0. /\ imp \in [Imports -> Import] /\ queue \in [Imports -> Nat]
      /\ lock \in Workers \cup {None, Dood} /\ docs \in [Imports -> [Rij -> Nat]]
      /\ faults \subseteq AllFouten \cup {"verzoek", "worker", "verlopen"}
  BY DEF ImportTypes
<1>t. PICK t : t = worker[w] /\ TaakVelden(t)
  BY DEF ImportTypes
<1>1. ASSUME NEW i \in Imports, TaskReceive(w, i) PROVE ImportTypes'
  <2>1. PICK u : u = [IdleWorker EXCEPT !.fase = "start", !.imp = i]
    OBVIOUS
  <2>2. TaakVelden(u)
    <3>1. /\ u.fase = "start" /\ u.imp = i /\ u.total = 0 /\ u.processed = 0 /\ u.successfully = 0
          /\ u.invalid = 0 /\ u.gelezen = 0 /\ u.batch = <<>> /\ u.gelukt = {} /\ u.stop = FALSE
      BY <2>1 DEF IdleWorker
    <3>5. 0 \in 0..MaxRijen /\ 0 \in Nat
      BY ImportAssumption
    <3>2. u \in TaakRij({u.batch}, {u.gelukt})
      BY <2>1, <3>1, <3>5 DEF IdleWorker, Taakfase, TaakRij
    <3>3. DOMAIN u.batch = 1..0
      BY <3>1
    <3>4. QED BY <3>1, <3>2, <3>3 DEF TaakVelden
  <2>3. queue' \in [Imports -> Nat]
    <3>1. queue[i] \in Nat /\ queue[i] > 0 /\ queue' = [queue EXCEPT ![i] = queue[i] - 1]
      BY <1>0, <1>1 DEF TaskReceive
    <3>3. queue[i] - 1 \in Nat
      BY <3>1
    <3>2. QED BY <1>0, <3>1, <3>3
  <2>4. CASE lock = None
    BY <1>0, <1>1, <2>1, <2>2, <2>3, <2>4, TaakTypes DEF TaskReceive
  <2>5. CASE lock # None
    BY <1>1, <2>3, <2>5 DEF TaskReceive, ImportTypes
  <2>6. QED BY <2>4, <2>5
<1>2. ASSUME TaskStart(w) PROVE ImportTypes'
  <2>1. t.fase = "start" /\ t.imp \in Imports
    BY <1>2, <1>t DEF TaskStart, TaakVelden
  <2>2. CASE Bestaat(t.imp)
    <3>0. imp[t.imp] \in Import
      BY <1>0, <2>1
    <3>1. PICK u : u = MetBegin(t, imp[t.imp])
      OBVIOUS
    <3>6. TaakVelden(u)
      BY <1>t, <2>1, <3>0, <3>1, StartVelden
    <3>7. Step(w, u)
      BY <1>2, <1>t, <2>2, <3>1 DEF TaskStart, MetBegin
    <3>2. imp' = [imp EXCEPT ![t.imp].status = "active", ![t.imp].total = imp[t.imp].rijen]
      BY <1>2, <1>t, <2>2 DEF TaskStart
    <3>3. imp[t.imp].rijen \in 0..MaxRijen
      BY <1>0, <2>1 DEF Import
    <3>4. imp' \in [Imports -> Import]
      BY <1>0, <2>1, <3>2, <3>3, BegonnenVorm
    <3>5. QED BY <1>0, <1>2, <3>4, <3>6, <3>7, TaakTypes DEF TaskStart
  <2>3. CASE ~Bestaat(t.imp)
    <3>1. PICK u : u = MetFase(t, "vrijgeven")
      OBVIOUS
    <3>2. TaakVelden(u)
      BY <1>t, <2>1, <3>1, FaseVelden DEF Taakfase
    <3>3. QED BY <1>0, <1>2, <1>t, <2>3, <3>1, <3>2, TaakTypes DEF TaskStart, MetFase
  <2>4. QED BY <2>2, <2>3
<1>3. ASSUME NEW soorten, ReadBatch(w, soorten) PROVE ImportTypes'
  <2>1. PICK n \in 1..(t.total - t.gelezen), f \in {"bewaar", "klaar"} : \E b : Leest(w, t, n, f, b)
    BY <1>3, <1>t, Gelezen
  <2>6. PICK b : Leest(w, t, n, f, b)
    BY <2>1
  <2>2. Step(w, MetRijen(t, n, b, f)) /\ \E k \in 0..n : DOMAIN b = 1..k
    BY <2>6 DEF Leest
  <2>3. t.fase = "lees"
    BY <1>3, <1>t DEF ReadBatch
  <2>4. TaakVelden(MetRijen(t, n, b, f))
    BY <1>t, <2>2, <2>3, LeesVelden
  <2>5. QED BY <1>0, <1>3, <2>2, <2>4, TaakTypes DEF ReadBatch
<1>4. ASSUME ReadEnd(w) PROVE ImportTypes'
  <2>1. PICK u : u = MetFase(t, "klaar")
    OBVIOUS
  <2>2. TaakVelden(u)
    BY <1>4, <1>t, <2>1, FaseVelden DEF Taakfase, ReadEnd
  <2>3. QED BY <1>0, <1>4, <1>t, <2>1, <2>2, TaakTypes DEF ReadEnd, MetFase
<1>5. ASSUME BatchCreate(w) PROVE ImportTypes'
  <2>1. PICK u : u = [t EXCEPT !.fase = "tel", !.gelukt = Geldig(t.batch)]
    OBVIOUS
  <2>2. TaakVelden(u)
    <3>1. u = MetMerk(t, Geldig(t.batch), t.stop) /\ t.stop \in BOOLEAN
      BY <1>t, <2>1, OpgeslagenVelden
    <3>2. t.fase = "bewaar" /\ Geldig(t.batch) \subseteq Geldig(t.batch)
      BY <1>5, <1>t DEF BatchCreate
    <3>3. QED BY <1>t, <3>1, <3>2, MerkVelden
  <2>3. PICK d : d = [rij \in Rij |-> IF \E n \in Geldig(t.batch) : RowOf(t, n) = rij
                                       THEN docs[t.imp][rij] + 1 ELSE docs[t.imp][rij]]
    OBVIOUS
  <2>4. t.imp \in Imports
    BY <1>5, <1>t DEF TaakVelden, BatchCreate
  <2>5. d \in [Rij -> Nat]
    BY <1>0, <2>3, <2>4
  <2>6. docs' = [docs EXCEPT ![t.imp] = d]
    BY <1>0, <1>5, <1>t, <2>3, <2>4 DEF BatchCreate
  <2>7. docs' \in [Imports -> [Rij -> Nat]]
    BY <1>0, <2>5, <2>6
  <2>8. QED BY <1>0, <1>5, <1>t, <2>1, <2>2, <2>7, TaakTypes DEF BatchCreate
<1>6. ASSUME NEW fout \in Fouten, NEW k \in 1..BatchSize, NEW stop \in BOOLEAN,
             BatchFails(w, fout, k, stop), stop \/ Bestaat(t.imp)
      PROVE ImportTypes'
  <2>1. PICK u : u = MetMerk(t, MarkedAfter(t, fout, k), stop)
    OBVIOUS
  <2>2. fout \in {"bulk", "koppel", "commit"}
    BY <1>6, ImportAssumption DEF BatchFails, AllFouten
  <2>3. MarkedAfter(t, fout, k) \subseteq Geldig(t.batch)
    BY <2>2 DEF MarkedAfter
  <2>4. TaakVelden(u)
    <3>1. t.fase = "bewaar"
      BY <1>6, <1>t DEF BatchFails
    <3>2. QED BY <1>t, <2>1, <2>3, <3>1, MerkVelden
  <2>5. QED BY <1>0, <1>6, <1>t, <2>1, <2>2, <2>4, TaakTypes DEF BatchFails, Mislukt, AllFouten, MetMerk
<1>6b. ASSUME NEW fout \in Fouten, NEW k \in 1..BatchSize, NEW stop \in BOOLEAN,
             BatchFails(w, fout, k, stop), ~(stop \/ Bestaat(t.imp))
      PROVE ImportTypes'
  <2>1. PICK u : u = MetFase(t, "vrijgeven")
    OBVIOUS
  <2>2. TaakVelden(u)
    BY <1>6b, <1>t, <2>1, FaseVelden DEF Taakfase, BatchFails
  <2>3. Step(w, u)
    BY <1>6b, <1>t, <2>1 DEF BatchFails, MetFase
  <2>4. /\ UNCHANGED <<imp, verzoek, queue, lock, docs, files>>
        /\ fout \in AllFouten /\ faults' = faults \cup {fout}
    BY <1>6b, ImportAssumption DEF BatchFails, Mislukt
  <2>5. QED BY <1>0, <1>t, <2>2, <2>3, <2>4, TaakTypes DEF AllFouten
<1>7. ASSUME NEW k \in 1..BatchSize, BatchRaises(w, k) PROVE ImportTypes'
  <2>1. PICK u : u = MetFase(t, "vrijgeven")
    OBVIOUS
  <2>2. TaakVelden(u)
    BY <1>7, <1>t, <2>1, FaseVelden DEF Taakfase, BatchRaises
  <2>3. QED BY <1>0, <1>7, <1>t, <2>1, <2>2, TaakTypes DEF BatchRaises, Mislukt, AllFouten, MetFase
<1>8. ASSUME FinishBatch(w) PROVE ImportTypes'
  <2>0. t.imp \in Imports
    BY <1>8, <1>t DEF TaakVelden, FinishBatch
  <2>5. PICK n \in Nat, g \in Nat : Telde(w, t, n, g)
    BY <1>8, <1>t, Geteld
  <2>6. PICK f : f = IF t.stop THEN "klaar" ELSE "lees"
    OBVIOUS
  <2>7. PICK u : u = MetTelling(t, n, g, n - g, f)
    OBVIOUS
  <2>1. /\ Step(w, u) /\ n - g \in Nat
        /\ imp' = IF Bestaat(t.imp)
                    THEN [imp EXCEPT ![t.imp].processed = u.processed,
                                     ![t.imp].successfully = u.successfully,
                                     ![t.imp].invalid = u.invalid]
                    ELSE imp
    BY <2>5, <2>6, <2>7 DEF Telde
  <2>8. TaakVelden(u)
    <3>1. t.fase = "tel" /\ f \in {"lees", "klaar"}
      BY <1>8, <1>t, <2>6 DEF FinishBatch
    <3>2. NaTelling(u, t, n, g, n - g, f)
      BY <1>t, <2>1, <2>7, <3>1, TelVelden
    <3>3. QED BY <3>2 DEF NaTelling
  <2>2. u.processed \in Nat /\ u.successfully \in Nat /\ u.invalid \in Nat
    BY <2>8 DEF TaakVelden, TaakRij
  <2>3. imp' \in [Imports -> Import]
    <3>1. CASE Bestaat(t.imp)
      BY <1>0, <2>0, <2>1, <2>2, <3>1, TellerVorm DEF NieuweTellers
    <3>2. CASE ~Bestaat(t.imp)
      BY <1>0, <2>1, <3>2
    <3>3. QED BY <3>1, <3>2
  <2>4. QED BY <1>0, <1>8, <2>1, <2>3, <2>8, TaakTypes DEF FinishBatch
<1>9. ASSUME FinishImport(w) PROVE ImportTypes'
  <2>1. PICK u : u = MetFase(t, "vrijgeven")
    OBVIOUS
  <2>2. TaakVelden(u)
    BY <1>9, <1>t, <2>1, FaseVelden DEF Taakfase, FinishImport
  <2>3. t.imp \in Imports
    BY <1>9, <1>t DEF TaakVelden, FinishImport
  <2>4. imp' \in [Imports -> Import]
    BY <1>0, <1>9, <1>t, <2>3, StandVorm DEF FinishImport, Stand
  <2>5. QED BY <1>0, <1>9, <1>t, <2>1, <2>2, <2>4, TaakTypes DEF FinishImport, MetFase
<1>10. ASSUME TaskEnd(w) PROVE ImportTypes'
  BY <1>0, <1>10, TaakRustVelden, TaakTypes DEF TaskEnd
<1>11. ASSUME WorkerCrash(w) PROVE ImportTypes'
  BY <1>0, <1>11, TaakRustVelden, TaakTypes DEF WorkerCrash, Mislukt
<1>12. QED BY <1>1, <1>2, <1>3, <1>4, <1>5, <1>6, <1>6b, <1>7, <1>8, <1>9, <1>10, <1>11

LEMMA ImportTypesStap == ImportTypes /\ [ImportNext]_importVars => ImportTypes'
<1>1. ImportTypes /\ LockExpires => ImportTypes'
  BY DEF ImportTypes, LockExpires, Mislukt
<1>2. ImportTypes /\ UNCHANGED importVars => ImportTypes'
  BY DEF ImportTypes, importVars
<1>3. QED BY <1>1, <1>2, WebTypesStap, TaskTypesStap DEF ImportNext

-----------------------------------------------------------------------------
(* What holds of imports, requests and tasks when requests follow each     *)
(* other.                                                                  *)

\* The rows that were imported
Ingelezen(d) == {rij \in Rij : d[rij] > 0}

\* Nothing was imported or counted yet.
Vers(x, d) ==
  /\ x.processed = 0 /\ x.successfully = 0 /\ x.invalid = 0
  /\ \A rij \in Rij : d[rij] = 0

\* What the task did so far: the rows up to those of its batch, and of these the ones that are
\* marked as succeeded.
Meegeteld(t, x, d) ==
  /\ x.status = "active" /\ x.total = t.total /\ x.processed = t.processed
  /\ x.successfully = t.successfully /\ x.invalid = t.invalid
  /\ t.processed = t.successfully + t.invalid
  /\ \E n \in 0..t.gelezen : DOMAIN t.batch = 1..n /\ t.gelezen = t.processed + n
  /\ \A rij \in Rij : rij > t.processed => (d[rij] > 0 <=> rij - t.processed \in t.gelukt)
  /\ Cardinality(Ingelezen(d)) = t.successfully + Cardinality(t.gelukt)
  /\ t.fase \in {"lees", "klaar"} => DOMAIN t.batch = {}
  /\ t.fase = "klaar" => t.stop \/ t.processed = t.total

TaakKlopt(t, x, d) ==
  /\ t.fase = "start" => x.status = "active" /\ Vers(x, d)
  /\ t.fase \in {"lees", "bewaar", "tel", "klaar"} => Meegeteld(t, x, d)

\* What an import reports.
Gemeld(x, d) ==
  /\ \A rij \in Rij : d[rij] <= 1
  /\ x.status \in ReportChoices =>
       /\ x.successfully = Cardinality(Ingelezen(d))
       /\ x.processed = x.successfully + x.invalid
       /\ x.status = "finished" => x.processed = x.total

Doet(w, i) == worker[w].fase # "vrij" /\ worker[w].imp = i
NietBezig(i) == queue[i] = 0 /\ \A w \in Workers : ~Doet(w, i)

VerzoekKlopt(q) ==
  /\ q.fase = "upload" => imp[q.imp].status = "pending"
  /\ q.fase = "dispatch" =>
       imp[q.imp].status = "active" /\ Vers(imp[q.imp], docs[q.imp]) /\ NietBezig(q.imp)
  /\ q.fase = "delete" => imp[q.imp].status \in DeletionChoices \cup {"weg"}

\* One message and one task at most for each import.
ImportKlopt(i) ==
  /\ imp[i].status \in {"nieuw", "pending"} => Vers(imp[i], docs[i]) /\ NietBezig(i)
  /\ queue[i] # 0 => /\ queue[i] = 1 /\ imp[i].status = "active" /\ Vers(imp[i], docs[i])
                     /\ \A w \in Workers : ~Doet(w, i)
  /\ \A w, v \in Workers : w # v /\ Doet(w, i) => ~Doet(v, i)
  /\ Gemeld(imp[i], docs[i])

EenVerzoek == \A r, s \in Requests : verzoek[r] # IdleReq /\ verzoek[s] # IdleReq => r = s

ImportsKloppen ==
  /\ EenVerzoek
  /\ \A r \in Requests : VerzoekKlopt(verzoek[r])
  /\ \A w \in Workers : TaakKlopt(worker[w], imp[worker[w].imp], docs[worker[w].imp])
  /\ \A i \in Imports : ImportKlopt(i)

LEMMA ImportsMelden == ImportsKloppen => StatisticsMatch
BY DEF ImportsKloppen, ImportKlopt, Gemeld, StatisticsMatch, Imported, Ingelezen

\* A task goes on with its import.
LEMMA TaakGaatDoor ==
  ASSUME ImportTypes, ImportsKloppen, NEW w \in Workers, NEW t, t = worker[w], t.fase # "vrij",
         imp[t.imp].status = "active", NEW u, u.fase # "vrij", u.imp = t.imp, Step(w, u),
         UNCHANGED <<verzoek, queue>>,
         \A j \in Imports : j # t.imp => imp'[j] = imp[j] /\ docs'[j] = docs[j],
         imp'[t.imp].status \notin {"nieuw", "pending"},
         TaakKlopt(u, imp'[t.imp], docs'[t.imp]), Gemeld(imp'[t.imp], docs'[t.imp])
  PROVE  ImportsKloppen'
<1>1. \A v \in Workers : worker'[v] = IF v = w THEN u ELSE worker[v]
  BY DEF ImportTypes, Step
<1>2. t.imp \in Imports /\ \A v \in Workers : worker[v].fase # "vrij" => worker[v].imp \in Imports
  BY DEF ImportTypes, TaakVelden
<1>3. ImportKlopt(t.imp) /\ Doet(w, t.imp)
  BY <1>2 DEF ImportsKloppen, Doet
<1>4. queue[t.imp] = 0 /\ \A v \in Workers : v # w => ~Doet(v, t.imp)
  BY <1>3 DEF ImportKlopt
<1>5. ASSUME NEW v \in Workers
      PROVE  TaakKlopt(worker'[v], imp'[worker'[v].imp], docs'[worker'[v].imp])
  <2>1. CASE v = w
    BY <1>1, <2>1
  <2>2. CASE v # w /\ worker[v].fase = "vrij"
    BY <1>1, <2>2 DEF TaakKlopt
  <2>3. CASE v # w /\ worker[v].fase # "vrij"
    <3>1. worker'[v] = worker[v] /\ worker[v].imp # t.imp /\ worker[v].imp \in Imports
      BY <1>1, <1>2, <1>4, <2>3 DEF Doet
    <3>2. imp'[worker[v].imp] = imp[worker[v].imp] /\ docs'[worker[v].imp] = docs[worker[v].imp]
      BY <3>1
    <3>3. TaakKlopt(worker[v], imp[worker[v].imp], docs[worker[v].imp])
      BY DEF ImportsKloppen
    <3>4. QED BY <3>1, <3>2, <3>3
  <2>4. QED BY <2>1, <2>2, <2>3
<1>6. \A v \in Workers, j \in Imports : Doet(v, j)' <=> Doet(v, j)
  BY <1>1 DEF Doet
<1>7. \A j \in Imports : NietBezig(j)' <=> NietBezig(j)
  BY <1>6 DEF NietBezig
<1>8. ASSUME NEW r \in Requests PROVE VerzoekKlopt(verzoek[r])'
  <2>1. VerzoekKlopt(verzoek[r]) /\ VerzoekVelden(verzoek[r]) /\ verzoek'[r] = verzoek[r]
    BY DEF ImportsKloppen, ImportTypes
  <2>2. CASE verzoek[r].fase \in {"upload", "dispatch", "delete"}
    <3>1. PICK j \in Imports : j = verzoek[r].imp
      BY <2>1, <2>2 DEF VerzoekVelden
    <3>2. j # t.imp
      BY <1>3, <2>1, <2>2, <3>1 DEF VerzoekKlopt, DeletionChoices, NietBezig
    <3>3. imp'[j] = imp[j] /\ docs'[j] = docs[j]
      BY <3>2
    <3>4. QED BY <1>7, <2>1, <3>1, <3>3 DEF VerzoekKlopt
  <2>3. CASE verzoek[r].fase \notin {"upload", "dispatch", "delete"}
    BY <2>1, <2>3 DEF VerzoekKlopt
  <2>4. QED BY <2>2, <2>3
<1>9. ASSUME NEW j \in Imports PROVE ImportKlopt(j)'
  <2>1. ImportKlopt(j) /\ queue'[j] = queue[j]
    BY DEF ImportsKloppen
  <2>2. \A x, v \in Workers : x # v /\ Doet(x, j)' => ~Doet(v, j)'
    BY <1>6, <2>1 DEF ImportKlopt
  <2>3. CASE j = t.imp
    BY <1>4, <2>1, <2>2, <2>3 DEF ImportKlopt
  <2>4. CASE j # t.imp
    <3>1. imp'[j] = imp[j] /\ docs'[j] = docs[j]
      BY <2>4
    <3>2. QED BY <1>6, <1>7, <2>1, <2>2, <3>1 DEF ImportKlopt
  <2>5. QED BY <2>3, <2>4
<1>10. EenVerzoek'
  BY DEF ImportsKloppen, EenVerzoek
<1>11. QED BY <1>5, <1>8, <1>9, <1>10 DEF ImportsKloppen

\* A task that ends, or whose worker dies.
LEMMA TaakHoudtOp ==
  ASSUME ImportTypes, ImportsKloppen, NEW w \in Workers, Step(w, IdleWorker),
         UNCHANGED <<imp, verzoek, queue, docs>>
  PROVE  ImportsKloppen'
<1>1. \A v \in Workers : worker'[v] = IF v = w THEN IdleWorker ELSE worker[v]
  BY DEF ImportTypes, Step
<1>2. IdleWorker.fase = "vrij"
  BY DEF IdleWorker
<1>3. \A j : \A v \in Workers : Doet(v, j)' => Doet(v, j)
  BY <1>1, <1>2 DEF Doet
<1>4. \A j : NietBezig(j) => NietBezig(j)'
  BY <1>3 DEF NietBezig
<1>5. ASSUME NEW v \in Workers
      PROVE  TaakKlopt(worker'[v], imp'[worker'[v].imp], docs'[worker'[v].imp])
  BY <1>1, <1>2 DEF TaakKlopt, ImportsKloppen
<1>6. ASSUME NEW r \in Requests PROVE VerzoekKlopt(verzoek[r])'
  BY <1>4 DEF VerzoekKlopt, ImportsKloppen
<1>7. ASSUME NEW j \in Imports PROVE ImportKlopt(j)'
  <2>1. ImportKlopt(j)
    BY DEF ImportsKloppen
  <2>2. \A x, v \in Workers : x # v /\ Doet(x, j)' => ~Doet(v, j)'
    BY <1>3, <2>1 DEF ImportKlopt
  <2>3. QED BY <1>3, <1>4, <2>1, <2>2 DEF ImportKlopt
<1>8. EenVerzoek'
  BY DEF ImportsKloppen, EenVerzoek
<1>9. QED BY <1>5, <1>6, <1>7, <1>8 DEF ImportsKloppen

\* A message is taken from the queue.
LEMMA TaakKomt ==
  ASSUME ImportTypes, ImportsKloppen, NEW w \in Workers, NEW i \in Imports, TaskReceive(w, i)
  PROVE  ImportsKloppen'
<1>1. ImportKlopt(i) /\ queue[i] \in Nat /\ queue[i] > 0
  BY DEF ImportsKloppen, ImportTypes, TaskReceive
<1>2. /\ queue[i] = 1 /\ imp[i].status = "active" /\ Vers(imp[i], docs[i])
      /\ \A v \in Workers : ~Doet(v, i)
  BY <1>1 DEF ImportKlopt
<1>3. \A j \in Imports : queue'[j] = IF j = i THEN 0 ELSE queue[j]
  BY <1>2 DEF TaskReceive, ImportTypes
<1>4. UNCHANGED <<imp, verzoek, docs>>
  BY DEF TaskReceive
<1>5. PICK u : u = [IdleWorker EXCEPT !.fase = "start", !.imp = i]
  OBVIOUS
<1>6. u.fase = "start" /\ u.imp = i
  BY <1>5 DEF IdleWorker
<1>7. \A v \in Workers : worker'[v] = IF v = w /\ lock = None THEN u ELSE worker[v]
  BY <1>5 DEF TaskReceive, Step, ImportTypes
<1>8. worker[w].fase = "vrij"
  BY DEF TaskReceive, Busy
<1>9. \A v \in Workers, j \in Imports : Doet(v, j)' => Doet(v, j) \/ (v = w /\ j = i)
  BY <1>6, <1>7 DEF Doet
<1>10. \A j \in Imports : j # i /\ NietBezig(j) => NietBezig(j)'
  BY <1>3, <1>9 DEF NietBezig
<1>11. ASSUME NEW v \in Workers
      PROVE  TaakKlopt(worker'[v], imp'[worker'[v].imp], docs'[worker'[v].imp])
  <2>1. CASE v = w /\ lock = None
    BY <1>2, <1>4, <1>6, <1>7, <2>1 DEF TaakKlopt
  <2>2. CASE ~(v = w /\ lock = None)
    BY <1>4, <1>7, <2>2 DEF ImportsKloppen
  <2>3. QED BY <2>1, <2>2
<1>12. ASSUME NEW r \in Requests PROVE VerzoekKlopt(verzoek[r])'
  <2>1. VerzoekKlopt(verzoek[r]) /\ VerzoekVelden(verzoek[r]) /\ verzoek'[r] = verzoek[r]
    BY <1>4 DEF ImportsKloppen, ImportTypes
  <2>2. CASE verzoek[r].fase = "dispatch"
    <3>1. verzoek[r].imp \in Imports /\ verzoek[r].imp # i
      BY <1>1, <2>1, <2>2 DEF VerzoekVelden, VerzoekKlopt, NietBezig
    <3>2. QED BY <1>4, <1>10, <2>1, <2>2, <3>1 DEF VerzoekKlopt
  <2>3. CASE verzoek[r].fase # "dispatch"
    BY <1>4, <2>1, <2>3 DEF VerzoekKlopt
  <2>4. QED BY <2>2, <2>3
<1>13. ASSUME NEW j \in Imports PROVE ImportKlopt(j)'
  <2>1. ImportKlopt(j)
    BY DEF ImportsKloppen
  <2>2. \A x, v \in Workers : x # v /\ Doet(x, j)' => ~Doet(v, j)'
    BY <1>2, <1>9, <2>1 DEF ImportKlopt
  <2>3. CASE j = i
    BY <1>2, <1>3, <1>4, <2>1, <2>2, <2>3 DEF ImportKlopt
  <2>4. CASE j # i
    BY <1>3, <1>4, <1>9, <1>10, <2>1, <2>2, <2>4 DEF ImportKlopt
  <2>5. QED BY <2>3, <2>4
<1>14. EenVerzoek'
  BY <1>4 DEF ImportsKloppen, EenVerzoek
<1>15. QED BY <1>4, <1>11, <1>12, <1>13, <1>14 DEF ImportsKloppen

-----------------------------------------------------------------------------
(* The requests, one after the other.                                      *)

\* The one request has its answer.
LEMMA AllenKlaar ==
  ASSUME ImportTypes, EenVerzoek, NEW r \in Requests, verzoek[r] # IdleReq, Finish(r)
  PROVE  \A s \in Requests : verzoek'[s] = IdleReq
BY DEF ImportTypes, EenVerzoek, Finish

\* A request is the only one.
LEMMA AlleenBegonnen ==
  ASSUME ImportTypes, ~Gelijktijdig, NEW r \in Requests, NEW f, NEW i, Start(r, f, i)
  PROVE  \A s \in Requests : verzoek'[s] = IF s = r THEN [fase |-> f, imp |-> i] ELSE IdleReq
BY DEF ImportTypes, Start, MayStart

\* What is left when requests change rows of which no task is busy.
LEMMA WebStap ==
  ASSUME ImportTypes, ImportsKloppen, UNCHANGED <<queue, worker, docs>>,
         EenVerzoek', \A s \in Requests : VerzoekKlopt(verzoek[s])',
         \A j \in Imports : imp'[j] = imp[j] \/ (imp[j].status # "active" /\ ImportKlopt(j)')
  PROVE  ImportsKloppen'
<1>1. \A v \in Workers, j \in Imports : Doet(v, j)' <=> Doet(v, j)
  BY DEF Doet
<1>2. \A j \in Imports : NietBezig(j)' <=> NietBezig(j)
  BY <1>1 DEF NietBezig
<1>6. ASSUME NEW j \in Imports PROVE ImportKlopt(j)'
  <2>1. CASE imp'[j] = imp[j]
    <3>1. ImportKlopt(j)
      BY DEF ImportsKloppen
    <3>2. \A x, v \in Workers : x # v /\ Doet(x, j)' => ~Doet(v, j)'
      BY <1>1, <3>1 DEF ImportKlopt
    <3>3. QED BY <1>1, <1>2, <2>1, <3>1, <3>2 DEF ImportKlopt
  <2>2. QED BY <2>1
<1>7. ASSUME NEW v \in Workers
      PROVE  TaakKlopt(worker'[v], imp'[worker'[v].imp], docs'[worker'[v].imp])
  <2>1. PICK t : t = worker[v] /\ worker'[v] = t
    OBVIOUS
  <2>2. TaakKlopt(t, imp[t.imp], docs[t.imp]) /\ TaakVelden(t)
    BY <2>1 DEF ImportsKloppen, ImportTypes
  <2>3. CASE t.fase \in {"start", "lees", "bewaar", "tel", "klaar"}
    <3>1. t.imp \in Imports /\ imp[t.imp].status = "active"
      BY <2>2, <2>3 DEF TaakKlopt, TaakVelden, Meegeteld
    <3>2. imp'[t.imp] = imp[t.imp]
      BY <3>1
    <3>3. QED BY <2>1, <2>2, <3>2
  <2>4. CASE t.fase \notin {"start", "lees", "bewaar", "tel", "klaar"}
    BY <2>1, <2>4 DEF TaakKlopt
  <2>5. QED BY <2>3, <2>4
<1>8. QED BY <1>6, <1>7 DEF ImportsKloppen

LEMMA EnigVerzoek ==
  ASSUME NEW r \in Requests, \A s \in Requests : s # r => verzoek'[s] = IdleReq,
         VerzoekKlopt(verzoek[r])'
  PROVE  EenVerzoek' /\ \A s \in Requests : VerzoekKlopt(verzoek[s])'
<1>1. EenVerzoek'
  BY DEF EenVerzoek
<1>2. IdleReq.fase = "vrij"
  BY DEF IdleReq
<1>3. ASSUME NEW s \in Requests PROVE VerzoekKlopt(verzoek[s])'
  BY <1>2 DEF VerzoekKlopt
<1>4. QED BY <1>1, <1>3

\* The same when nothing is written.
LEMMA WebLeest ==
  ASSUME ImportTypes, ImportsKloppen, UNCHANGED <<imp, queue, worker, docs>>,
         NEW r \in Requests, \A s \in Requests : s # r => verzoek'[s] = IdleReq,
         VerzoekKlopt(verzoek[r])'
  PROVE  ImportsKloppen'
BY WebStap, EnigVerzoek

\* The same when the row of one import that is not there or not active gets another status.
LEMMA StandKlopt ==
  ASSUME ImportTypes, ImportsKloppen, UNCHANGED <<queue, worker, docs>>, NEW i \in Imports,
         NEW st \in {"pending", "weg"}, imp' = [imp EXCEPT ![i].status = st],
         st = "pending" => imp[i].status = "nieuw", imp[i].status # "active"
  PROVE  /\ ImportKlopt(i)' /\ \A j \in Imports : j # i => imp'[j] = imp[j]
<1>1. imp \in [Imports -> Import] /\ st \in Stand
  BY DEF ImportTypes, Stand
<1>2. imp'[i] = [imp[i] EXCEPT !.status = st] /\ \A j \in Imports : j # i => imp'[j] = imp[j]
  BY <1>1, StandVorm
<1>3. PICK x, y : x = imp[i] /\ y = imp'[i] /\ y = [x EXCEPT !.status = st] /\ x \in Import
  BY <1>1, <1>2
<1>4. /\ y.status = st /\ y.processed = x.processed /\ y.successfully = x.successfully
      /\ y.invalid = x.invalid
  BY <1>3 DEF Import
<1>5. \A v \in Workers : Doet(v, i)' <=> Doet(v, i)
  BY DEF Doet
<1>6. NietBezig(i)' <=> NietBezig(i)
  BY <1>5 DEF NietBezig
<1>7. ImportKlopt(i)
  BY DEF ImportsKloppen
<1>8. Vers(x, docs[i]) => Vers(y, docs[i])
  BY <1>4 DEF Vers
<1>9. Gemeld(y, docs[i])
  BY <1>3, <1>4, <1>7 DEF ImportKlopt, Gemeld, ReportChoices
<1>10. queue[i] = 0
  BY <1>7 DEF ImportKlopt
<1>11. \A x1, v \in Workers : x1 # v /\ Doet(x1, i)' => ~Doet(v, i)'
  BY <1>5, <1>7 DEF ImportKlopt
<1>12. ImportKlopt(i)'
  BY <1>3, <1>4, <1>6, <1>7, <1>8, <1>9, <1>10, <1>11 DEF ImportKlopt
<1>13. QED BY <1>2, <1>12

LEMMA WebKlopt == ~Gelijktijdig /\ ImportTypes /\ ImportsKloppen /\ Web => ImportsKloppen'
<1> SUFFICES ASSUME ~Gelijktijdig, ImportTypes, ImportsKloppen, Web PROVE ImportsKloppen'
  OBVIOUS
<1>0. EenVerzoek /\ IdleReq.fase = "vrij"
  BY DEF ImportsKloppen, IdleReq
<1>1. ASSUME NEW r \in Requests, CreateCheck(r) PROVE ImportsKloppen'
  <2>1. \A s \in Requests : verzoek'[s] = IF s = r THEN [fase |-> "create", imp |-> None] ELSE IdleReq
    BY <1>1, AlleenBegonnen DEF CreateCheck
  <2>2. VerzoekKlopt(verzoek[r])'
    BY <2>1 DEF VerzoekKlopt
  <2>3. UNCHANGED <<imp, queue, worker, docs>>
    BY <1>1 DEF CreateCheck
  <2>4. QED BY <2>1, <2>2, <2>3, WebLeest
<1>2. ASSUME NEW r \in Requests, NEW i \in Imports, CreateInsert(r, i) PROVE ImportsKloppen'
  <2>1. \A s \in Requests : verzoek'[s] = IdleReq
    BY <1>0, <1>2, AllenKlaar DEF CreateInsert
  <2>2. VerzoekKlopt(verzoek[r])'
    BY <1>0, <2>1 DEF VerzoekKlopt
  <2>3. /\ UNCHANGED <<queue, worker, docs>> /\ imp[i].status = "nieuw"
        /\ imp' = [imp EXCEPT ![i].status = "pending"]
    BY <1>2 DEF CreateInsert
  <2>4. ImportKlopt(i)' /\ \A j \in Imports : j # i => imp'[j] = imp[j]
    BY <2>3, StandKlopt
  <2>5. \A j \in Imports : imp'[j] = imp[j] \/ (imp[j].status # "active" /\ ImportKlopt(j)')
    BY <2>3, <2>4
  <2>6. QED BY <2>1, <2>2, <2>3, <2>5, WebStap, EnigVerzoek
<1>3. ASSUME NEW r \in Requests, NEW i \in Imports, UploadCheck(r, i) PROVE ImportsKloppen'
  <2>1. \A s \in Requests : verzoek'[s] = IF s = r THEN [fase |-> "upload", imp |-> i] ELSE IdleReq
    BY <1>3, AlleenBegonnen DEF UploadCheck
  <2>2. imp[i].status = "pending" /\ UNCHANGED <<imp, queue, worker, docs>>
    BY <1>3 DEF UploadCheck
  <2>3. VerzoekKlopt(verzoek[r])'
    BY <2>1, <2>2 DEF VerzoekKlopt
  <2>4. QED BY <2>1, <2>2, <2>3, WebLeest
<1>4. ASSUME NEW r \in Requests, NEW i \in Imports, DestroyCheck(r, i) PROVE ImportsKloppen'
  <2>1. \A s \in Requests : verzoek'[s] = IF s = r THEN [fase |-> "delete", imp |-> i] ELSE IdleReq
    BY <1>4, AlleenBegonnen DEF DestroyCheck
  <2>2. imp[i].status \in DeletionChoices /\ UNCHANGED <<imp, queue, worker, docs>>
    BY <1>4 DEF DestroyCheck
  <2>3. VerzoekKlopt(verzoek[r])'
    BY <2>1, <2>2 DEF VerzoekKlopt
  <2>4. QED BY <2>1, <2>2, <2>3, WebLeest
<1>5. ASSUME NEW r \in Requests, NEW rijen \in Rij, UploadSave(r, rijen) PROVE ImportsKloppen'
  <2>1. PICK i : i = verzoek[r].imp
    OBVIOUS
  <2>2. verzoek[r].fase = "upload" /\ i \in Imports /\ VerzoekKlopt(verzoek[r])
        /\ VerzoekVelden(verzoek[r]) /\ verzoek[r] # IdleReq
    BY <1>0, <1>5, <2>1 DEF UploadSave, ImportTypes, VerzoekVelden, ImportsKloppen
  <2>3. imp[i].status = "pending" /\ Bestaat(i)
    BY <2>1, <2>2 DEF VerzoekKlopt, Bestaat
  <2>4. /\ imp' = [imp EXCEPT ![i].status = "active", ![i].rijen = rijen]
        /\ verzoek' = [verzoek EXCEPT ![r].fase = "dispatch"]
        /\ UNCHANGED <<queue, worker, docs>>
    BY <1>5, <2>1, <2>3 DEF UploadSave
  <2>5. PICK q, p : q = verzoek[r] /\ p = [q EXCEPT !.fase = "dispatch"]
    OBVIOUS
  <2>6. p.fase = "dispatch" /\ p.imp = i
    BY <2>1, <2>2, <2>5 DEF VerzoekVelden
  <2>7. \A s \in Requests : verzoek'[s] = IF s = r THEN p ELSE IdleReq
    BY <1>0, <2>2, <2>4, <2>5 DEF EenVerzoek, ImportTypes
  <2>8. PICK x \in Import : x = imp[i]
    BY <2>2 DEF ImportTypes
  <2>9. PICK y : y = [x EXCEPT !.status = "active", !.rijen = rijen]
    OBVIOUS
  <2>10. imp'[i] = y /\ \A j \in Imports : j # i => imp'[j] = imp[j]
    BY <2>2, <2>4, <2>8, <2>9 DEF ImportTypes
  <2>11. /\ y.status = "active" /\ y.processed = x.processed /\ y.successfully = x.successfully
         /\ y.invalid = x.invalid
    BY <2>9 DEF Import
  <2>12. ImportKlopt(i)
    BY <2>2 DEF ImportsKloppen
  <2>13. Vers(x, docs[i]) /\ NietBezig(i) /\ Gemeld(x, docs[i])
    BY <2>3, <2>8, <2>12 DEF ImportKlopt
  <2>14. Vers(y, docs[i]) /\ Gemeld(y, docs[i])
    BY <2>11, <2>13 DEF Vers, Gemeld, ReportChoices
  <2>15. \A v \in Workers : Doet(v, i)' <=> Doet(v, i)
    BY <2>4 DEF Doet
  <2>16. NietBezig(i)' /\ queue'[i] = 0
    BY <2>4, <2>13, <2>15 DEF NietBezig
  <2>17. ImportKlopt(i)'
    <3>1. \A w, v \in Workers : w # v /\ Doet(w, i)' => ~Doet(v, i)'
      BY <2>12, <2>15 DEF ImportKlopt
    <3>2. QED BY <2>4, <2>10, <2>11, <2>14, <2>16, <3>1 DEF ImportKlopt
  <2>18. VerzoekKlopt(verzoek[r])'
    BY <2>4, <2>6, <2>7, <2>10, <2>11, <2>14, <2>16 DEF VerzoekKlopt
  <2>19. \A j \in Imports : imp'[j] = imp[j] \/ (imp[j].status # "active" /\ ImportKlopt(j)')
    BY <2>3, <2>10, <2>17
  <2>20. QED BY <2>4, <2>7, <2>18, <2>19, WebStap, EnigVerzoek
<1>6. ASSUME NEW r \in Requests, Dispatch(r) PROVE ImportsKloppen'
  <2>1. PICK i : i = verzoek[r].imp
    OBVIOUS
  <2>2. /\ verzoek[r].fase = "dispatch" /\ i \in Imports /\ VerzoekKlopt(verzoek[r])
        /\ verzoek[r] # IdleReq
    BY <1>0, <1>6, <2>1 DEF Dispatch, ImportTypes, VerzoekVelden, ImportsKloppen
  <2>3. imp[i].status = "active" /\ Vers(imp[i], docs[i]) /\ NietBezig(i)
    BY <2>1, <2>2 DEF VerzoekKlopt
  <2>4. \A s \in Requests : verzoek'[s] = IdleReq
    BY <1>0, <1>6, <2>2, AllenKlaar DEF Dispatch
  <2>5. UNCHANGED <<imp, worker, docs>>
    BY <1>6 DEF Dispatch
  <2>6. queue' = [queue EXCEPT ![i] = @ + 1]
    BY <1>6, <2>1, <2>3 DEF Dispatch, Bestaat
  <2>7. \A j \in Imports : queue'[j] = IF j = i THEN 1 ELSE queue[j]
    BY <2>3, <2>6 DEF ImportTypes, NietBezig
  <2>8. \A j : \A v \in Workers : Doet(v, j)' <=> Doet(v, j)
    BY <2>5 DEF Doet
  <2>9. ASSUME NEW j \in Imports PROVE ImportKlopt(j)'
    <3>1. ImportKlopt(j)
      BY DEF ImportsKloppen
    <3>2. \A x, v \in Workers : x # v /\ Doet(x, j)' => ~Doet(v, j)'
      BY <2>8, <3>1 DEF ImportKlopt
    <3>3. CASE j = i
      BY <2>3, <2>5, <2>7, <2>8, <3>1, <3>2, <3>3 DEF ImportKlopt, NietBezig
    <3>4. CASE j # i
      <4>1. NietBezig(j)' <=> NietBezig(j)
        BY <2>7, <2>8, <3>4 DEF NietBezig
      <4>2. QED BY <2>5, <2>7, <2>8, <3>1, <3>2, <3>4, <4>1 DEF ImportKlopt
    <3>5. QED BY <3>3, <3>4
  <2>10. \A s \in Requests : VerzoekKlopt(verzoek[s])'
    BY <1>0, <2>4 DEF VerzoekKlopt
  <2>11. EenVerzoek'
    BY <2>4 DEF EenVerzoek
  <2>12. QED BY <2>5, <2>9, <2>10, <2>11 DEF ImportsKloppen
<1>7. ASSUME NEW r \in Requests, Destroy(r) PROVE ImportsKloppen'
  <2>1. PICK i : i = verzoek[r].imp
    OBVIOUS
  <2>2. /\ verzoek[r].fase = "delete" /\ i \in Imports /\ VerzoekKlopt(verzoek[r])
        /\ verzoek[r] # IdleReq
    BY <1>0, <1>7, <2>1 DEF Destroy, ImportTypes, VerzoekVelden, ImportsKloppen
  <2>3. imp[i].status # "active"
    BY <2>1, <2>2 DEF VerzoekKlopt, DeletionChoices
  <2>4. \A s \in Requests : verzoek'[s] = IdleReq
    BY <1>0, <1>7, <2>2, AllenKlaar DEF Destroy
  <2>5. UNCHANGED <<queue, worker, docs>> /\ imp' = [imp EXCEPT ![i].status = "weg"]
    BY <1>7, <2>1 DEF Destroy
  <2>6. ImportKlopt(i)' /\ \A j \in Imports : j # i => imp'[j] = imp[j]
    BY <2>2, <2>3, <2>5, StandKlopt
  <2>7. VerzoekKlopt(verzoek[r])'
    BY <1>0, <2>4 DEF VerzoekKlopt
  <2>8. \A j \in Imports : imp'[j] = imp[j] \/ (imp[j].status # "active" /\ ImportKlopt(j)')
    BY <2>3, <2>6
  <2>9. QED BY <2>4, <2>5, <2>7, <2>8, WebStap, EnigVerzoek
<1>8. ASSUME NEW r \in Requests, RequestFails(r) PROVE ImportsKloppen'
  <2>1. \A s \in Requests : verzoek'[s] = IdleReq
    BY <1>0, <1>8, AllenKlaar DEF RequestFails
  <2>2. VerzoekKlopt(verzoek[r])'
    BY <1>0, <2>1 DEF VerzoekKlopt
  <2>3. UNCHANGED <<imp, queue, worker, docs>>
    BY <1>8 DEF RequestFails
  <2>4. QED BY <2>1, <2>2, <2>3, WebLeest
<1>9. ASSUME NEW i \in Imports, RemoveImport(i) PROVE ImportsKloppen'
  <2>1. /\ imp[i].status \in ReportChoices /\ imp' = [imp EXCEPT ![i].status = "weg"]
        /\ UNCHANGED <<verzoek, queue, worker, docs>>
    BY <1>9 DEF RemoveImport
  <2>2. imp[i].status # "active"
    BY <2>1 DEF ReportChoices
  <2>3. ImportKlopt(i)' /\ \A j \in Imports : j # i => imp'[j] = imp[j]
    BY <2>1, <2>2, StandKlopt
  <2>4. imp'[i].status = "weg"
    <3>1. imp'[i] = [imp[i] EXCEPT !.status = "weg"] /\ imp[i] \in Import
      BY <2>1, StandVorm DEF ImportTypes, Stand
    <3>2. QED BY <3>1 DEF Import
  <2>5. \A j : NietBezig(j)' <=> NietBezig(j)
    <3>1. \A j : \A v \in Workers : Doet(v, j)' <=> Doet(v, j)
      BY <2>1 DEF Doet
    <3>2. QED BY <2>1, <3>1 DEF NietBezig
  <2>6. ASSUME NEW s \in Requests PROVE VerzoekKlopt(verzoek[s])'
    <3>1. VerzoekKlopt(verzoek[s]) /\ VerzoekVelden(verzoek[s]) /\ verzoek'[s] = verzoek[s]
      BY <2>1 DEF ImportsKloppen, ImportTypes
    <3>2. CASE verzoek[s].fase \in {"upload", "dispatch", "delete"}
      <4>1. PICK j \in Imports : j = verzoek[s].imp
        BY <3>1, <3>2 DEF VerzoekVelden
      <4>2. CASE j = i
        BY <2>1, <2>2, <2>4, <3>1, <3>2, <4>1, <4>2 DEF VerzoekKlopt, ReportChoices
      <4>3. CASE j # i
        <5>1. imp'[j] = imp[j] /\ docs'[j] = docs[j]
          BY <2>1, <2>3, <4>3
        <5>2. QED BY <2>5, <3>1, <4>1, <5>1 DEF VerzoekKlopt
      <4>4. QED BY <4>2, <4>3
    <3>3. CASE verzoek[s].fase \notin {"upload", "dispatch", "delete"}
      BY <3>1, <3>3 DEF VerzoekKlopt
    <3>4. QED BY <3>2, <3>3
  <2>7. EenVerzoek'
    BY <1>0, <2>1 DEF EenVerzoek
  <2>8. \A j \in Imports : imp'[j] = imp[j] \/ (imp[j].status # "active" /\ ImportKlopt(j)')
    BY <2>2, <2>3
  <2>9. QED BY <2>1, <2>6, <2>7, <2>8, WebStap
<1>10. QED BY <1>1, <1>2, <1>3, <1>4, <1>5, <1>6, <1>7, <1>8, <1>9 DEF Web

-----------------------------------------------------------------------------
(* The task, when rows fail one batch at a time and nothing is marked that *)
(* was rolled back.                                                        *)

HeleBatches == Fouten \cap {"koppel", "commit"} = {}

\* What a task that started found.
LEMMA BegonnenTelt ==
  ASSUME NEW t, TaakVelden(t), t.fase = "start", NEW x \in Import, NEW d, Vers(x, d),
         NEW u, u = MetBegin(t, x), NEW y, y.status = "active", y.total = x.rijen,
         y.processed = x.processed, y.successfully = x.successfully, y.invalid = x.invalid
  PROVE  Meegeteld(u, y, d)
<1>1. /\ TaakVelden(u) /\ u.fase = "lees" /\ u.total = x.rijen
      /\ u.processed = x.processed /\ u.successfully = x.successfully /\ u.invalid = x.invalid
      /\ u.gelezen = 0 /\ DOMAIN u.batch = {} /\ u.gelukt = {}
  BY StartVelden
<1>2. x.processed = 0 /\ x.successfully = 0 /\ x.invalid = 0 /\ \A rij \in Rij : d[rij] = 0
  BY DEF Vers
<1>3. Ingelezen(d) = {}
  BY <1>2 DEF Ingelezen
<1>4. Cardinality(Ingelezen(d)) = 0 /\ Cardinality(u.gelukt) = 0
  BY <1>1, <1>3, FS_EmptySet
<1>5. 1..0 = {} /\ 0 \in 0..0
  OBVIOUS
<1>6. \E n \in 0..u.gelezen : DOMAIN u.batch = 1..n /\ u.gelezen = u.processed + n
  BY <1>1, <1>2, <1>5
<1>7. \A rij \in Rij : rij > u.processed => (d[rij] > 0 <=> rij - u.processed \in u.gelukt)
  BY <1>1, <1>2
<1>8. QED BY <1>1, <1>2, <1>4, <1>6, <1>7 DEF Meegeteld

\* Of what a batch of which nothing is left was counted.
LEMMA AllesGeteld ==
  ASSUME NEW t, TaakVelden(t), t.fase \in {"lees", "klaar"}, NEW x, NEW d, Meegeteld(t, x, d)
  PROVE  t.processed = t.gelezen
<1>1. t.gelezen \in Nat /\ t.processed \in Nat
  BY DEF TaakVelden, TaakRij
<1>2. PICK n \in 0..t.gelezen : DOMAIN t.batch = 1..n /\ t.gelezen = t.processed + n
  BY DEF Meegeteld
<1>3. 1..n = {}
  BY <1>2 DEF Meegeteld
<1>4. n = 0
  BY <1>1, <1>3
<1>5. QED BY <1>1, <1>2, <1>4

\* The file is read to its end, in batches that are stored.
LEMMA ErIsEenBatch ==
  ASSUME NEW t, TaakVelden(t), t.fase = "lees", NEW x, NEW d, Meegeteld(t, x, d), t.gelezen < t.total
  PROVE  FlushAt(t) # {}
<1>1. t.gelezen \in Nat /\ t.total \in Nat /\ t.processed = t.gelezen
  BY ImportAssumption, AllesGeteld DEF TaakVelden, TaakRij
<1>2. t.total - t.gelezen \in FlushAt(t)
  BY <1>1 DEF FlushAt
<1>3. QED BY <1>2

LEMMA GelezenTelt ==
  ASSUME NEW t, TaakVelden(t), t.fase = "lees", NEW x, NEW d, Meegeteld(t, x, d), t.gelezen < t.total,
         NEW n \in 1..(t.total - t.gelezen), NEW b, DOMAIN b = 1..n, NEW u,
         u = MetRijen(t, n, b, "bewaar")
  PROVE  u.fase = "bewaar" /\ u.imp = t.imp /\ Meegeteld(u, x, d)
<1>1. t.gelezen \in Nat /\ t.total \in Nat /\ t.processed = t.gelezen /\ t.gelukt = {}
  BY ImportAssumption, AllesGeteld DEF TaakVelden, TaakRij
<1>2. n \in Nat /\ n \in 0..n
  BY <1>1
<1>3. /\ u.fase = "bewaar" /\ Behoudt(u, t) /\ Tellers(u) = Tellers(t)
      /\ u.gelezen = t.gelezen + n /\ u.batch = b /\ u.gelukt = {}
  BY <1>2, LeesVelden
<1>4. /\ u.total = t.total /\ u.processed = t.processed /\ u.successfully = t.successfully
      /\ u.invalid = t.invalid /\ u.imp = t.imp /\ u.gelukt = t.gelukt
  BY <1>1, <1>3 DEF Behoudt, Tellers
<1>5. n \in 0..u.gelezen /\ DOMAIN u.batch = 1..n /\ u.gelezen = u.processed + n
  BY <1>1, <1>2, <1>3, <1>4
<1>6. QED BY <1>3, <1>4, <1>5 DEF Meegeteld

LEMMA EindeTelt ==
  ASSUME NEW t, TaakVelden(t), t.fase = "lees", NEW x, NEW d, Meegeteld(t, x, d), t.gelezen >= t.total,
         NEW u, u = MetFase(t, "klaar")
  PROVE  u.fase = "klaar" /\ u.imp = t.imp /\ Meegeteld(u, x, d)
<1>1. t.gelezen \in Nat /\ t.total \in Nat /\ t.processed \in Nat /\ t.gelukt = {} /\ t.gelezen <= t.total
  BY ImportAssumption DEF TaakVelden, TaakRij
<1>2. /\ u.fase = "klaar" /\ Behoudt(u, t) /\ Tellers(u) = Tellers(t)
      /\ u.gelezen = t.gelezen /\ u.batch = t.batch /\ u.gelukt = {}
  BY FaseVelden DEF Taakfase
<1>3. t.processed = t.gelezen
  BY AllesGeteld
<1>4. t.processed = t.total
  BY <1>1, <1>3
<1>5. /\ u.total = t.total /\ u.processed = t.processed /\ u.successfully = t.successfully
      /\ u.invalid = t.invalid /\ u.imp = t.imp /\ u.gelukt = t.gelukt
  BY <1>1, <1>2 DEF Behoudt, Tellers
<1>6. QED BY <1>2, <1>4, <1>5 DEF Meegeteld

\* The rows that a batch stores are new.
LEMMA OpgeslagenTelt ==
  ASSUME NEW t, TaakVelden(t), t.fase = "bewaar", NEW x, NEW d \in [Rij -> Nat], Meegeteld(t, x, d),
         \A rij \in Rij : d[rij] <= 1, NEW e,
         e = [rij \in Rij |-> IF \E n \in Geldig(t.batch) : RowOf(t, n) = rij
                              THEN d[rij] + 1 ELSE d[rij]],
         NEW u, u = MetMerk(t, Geldig(t.batch), t.stop)
  PROVE  u.fase = "tel" /\ u.imp = t.imp /\ Meegeteld(u, x, e) /\ \A rij \in Rij : e[rij] <= 1
<1>1. t.gelezen \in Nat /\ t.total \in 0..MaxRijen /\ t.processed \in Nat /\ t.successfully \in Nat
      /\ t.gelezen <= t.total /\ t.stop \in BOOLEAN /\ t.gelukt = {}
  BY ImportAssumption DEF TaakVelden, TaakRij
<1>2. /\ u.fase = "tel" /\ u.imp = t.imp /\ u.total = t.total
      /\ Tellers(u) = Tellers(t) /\ u.stop = t.stop
      /\ u.gelezen = t.gelezen /\ u.batch = t.batch /\ u.gelukt = Geldig(t.batch)
  BY <1>1, MerkVelden
<1>3. u.processed = t.processed /\ u.successfully = t.successfully /\ u.invalid = t.invalid
  BY <1>2 DEF Tellers
<1>4. PICK n \in 0..t.gelezen : DOMAIN t.batch = 1..n /\ t.gelezen = t.processed + n
  BY DEF Meegeteld
<1>5. PICK G : G = Geldig(t.batch) /\ G \subseteq 1..n
  BY <1>4 DEF Geldig
<1>6. PICK b \in Nat : b = t.processed
  BY <1>1
<1>7. \A k \in G : RowOf(t, k) = b + k
  <2>1. n \in Nat
    BY <1>1
  <2>2. ASSUME NEW k \in G PROVE RowOf(t, k) = b + k
    <3>1. RowOf(t, k) = t.gelezen - n + k /\ k \in Nat
      BY <1>4, <1>5, <2>1, RijVan
    <3>2. QED BY <1>1, <1>4, <1>6, <2>1, <3>1
  <2>3. QED BY <2>2
<1>8. ASSUME NEW rij \in Rij
      PROVE  e[rij] = IF \E k \in G : rij = b + k THEN d[rij] + 1 ELSE d[rij]
  BY <1>5, <1>7
<1>9. \A rij \in Rij : rij > b => d[rij] = 0
  BY <1>1, <1>6 DEF Meegeteld
<1>10. \A k \in G : k \in Nat /\ k > 0 /\ b + k \in Rij /\ b + k > b
  <2>1. PICK z \in Nat : z = b + n /\ z <= MaxRijen /\ n \in Nat
    BY <1>1, <1>4, <1>6, ImportAssumption
  <2>2. ASSUME NEW k \in G PROVE k \in Nat /\ k > 0 /\ b + k \in Rij /\ b + k > b
    BY <1>5, <2>1, ImportAssumption DEF Rij
  <2>3. QED BY <2>2
<1>11. ASSUME NEW rij \in Rij
       PROVE  /\ e[rij] <= 1
              /\ e[rij] > 0 <=> d[rij] > 0 \/ \E k \in G : rij = b + k
              /\ rij > b => (e[rij] > 0 <=> rij - b \in G)
  <2>1. d[rij] \in Nat /\ d[rij] <= 1 /\ rij \in Nat
    BY DEF Rij
  <2>2. CASE \E k \in G : rij = b + k
    <3>1. PICK k \in G : rij = b + k
      BY <2>2
    <3>2. d[rij] = 0 /\ e[rij] = 1
      BY <1>8, <1>9, <1>10, <3>1, <2>2
    <3>3. rij - b = k
      BY <1>10, <3>1
    <3>4. QED BY <2>2, <3>2, <3>3
  <2>3. CASE ~ \E k \in G : rij = b + k
    <3>1. e[rij] = d[rij]
      BY <1>8, <2>3
    <3>2. rij > b => rij - b \notin G
      BY <2>1, <2>3, <1>10
    <3>3. QED BY <1>9, <2>1, <2>3, <3>1, <3>2
  <2>4. QED BY <2>2, <2>3
<1>12. Cardinality(Ingelezen(e)) = Cardinality(Ingelezen(d)) + Cardinality(G)
  <2>1. \A r : r \in Ingelezen(e) <=> r \in Ingelezen(d) \/ \E k \in G : r = b + k
    BY <1>10, <1>11 DEF Ingelezen
  <2>2. \A k \in G : b + k \notin Ingelezen(d)
    BY <1>9, <1>10 DEF Ingelezen
  <2>3. IsFiniteSet(Ingelezen(d))
    <3>1. IsFiniteSet(Rij)
      BY FS_Interval, ImportAssumption DEF Rij
    <3>2. QED BY <3>1, FS_Subset DEF Ingelezen
  <2>4. n \in Nat
    BY <1>1
  <2>5. PICK S, T : S = Ingelezen(d) /\ T = Ingelezen(e)
    OBVIOUS
  <2>6. Aangevuld(T, S, b, G) /\ Nieuw(S, b, G) /\ IsFiniteSet(S)
    BY <2>1, <2>2, <2>3, <2>5 DEF Aangevuld, Nieuw
  <2>7. Cardinality(T) = Cardinality(S) + Cardinality(G)
    BY <1>5, <2>4, <2>6, Erbij
  <2>8. QED BY <2>5, <2>7
<1>13. Cardinality(Ingelezen(e)) = u.successfully + Cardinality(u.gelukt)
  <2>1. Cardinality({}) = 0
    BY FS_EmptySet
  <2>2. Cardinality(Ingelezen(d)) = t.successfully
    BY <1>1, <2>1 DEF Meegeteld
  <2>3. QED BY <1>2, <1>3, <1>5, <1>12, <2>2
<1>14. \A rij \in Rij : rij > u.processed => (e[rij] > 0 <=> rij - u.processed \in u.gelukt)
  BY <1>2, <1>3, <1>5, <1>6, <1>11
<1>15. Meegeteld(u, x, e)
  BY <1>2, <1>3, <1>4, <1>13, <1>14 DEF Meegeteld
<1>16. QED BY <1>2, <1>11, <1>15

\* Nothing of a batch was stored.
LEMMA MisluktTelt ==
  ASSUME NEW t, TaakVelden(t), t.fase = "bewaar", NEW x, NEW d, Meegeteld(t, x, d),
         NEW stop \in BOOLEAN, NEW u, u = MetMerk(t, {}, stop)
  PROVE  u.fase = "tel" /\ u.imp = t.imp /\ Meegeteld(u, x, d)
<1>1. t.gelukt = {}
  BY DEF TaakVelden
<1>2. /\ u.fase = "tel" /\ u.imp = t.imp /\ u.total = t.total
      /\ Tellers(u) = Tellers(t) /\ u.gelezen = t.gelezen /\ u.batch = t.batch /\ u.gelukt = {}
  BY MerkVelden
<1>3. u.processed = t.processed /\ u.successfully = t.successfully /\ u.invalid = t.invalid
  BY <1>2 DEF Tellers
<1>4. QED BY <1>1, <1>2, <1>3 DEF Meegeteld

\* The batch was counted.
LEMMA GeteldTelt ==
  ASSUME NEW t, TaakVelden(t), t.fase = "tel", NEW x, NEW d, Meegeteld(t, x, d), NEW n \in Nat, NEW g \in Nat,
         DOMAIN t.batch = 1..n, g = Cardinality(t.gelukt), g <= n, NEW h \in Nat, h = n - g,
         NEW f, f = IF t.stop THEN "klaar" ELSE "lees", NEW u, u = MetTelling(t, n, g, h, f),
         NEW y, y.status = x.status, y.total = x.total, y.processed = u.processed,
         y.successfully = u.successfully, y.invalid = u.invalid
  PROVE  u.fase = f /\ u.imp = t.imp /\ Meegeteld(u, y, d)
<1>1. t.gelezen \in Nat /\ t.processed \in Nat /\ t.successfully \in Nat /\ t.invalid \in Nat
  BY DEF TaakVelden, TaakRij
<1>2. f \in {"lees", "klaar"} /\ (f = "klaar" => t.stop)
  BY DEF TaakVelden, TaakRij
<1>3. /\ u.fase = f /\ Behoudt(u, t) /\ u.gelezen = t.gelezen
      /\ u.processed = t.processed + n /\ u.successfully = t.successfully + g
      /\ u.invalid = t.invalid + h /\ DOMAIN u.batch = {} /\ u.gelukt = {}
  <2>1. NaTelling(u, t, n, g, h, f)
    BY <1>2, TelVelden
  <2>2. QED BY <2>1 DEF NaTelling
<1>4. u.total = t.total /\ u.imp = t.imp /\ u.stop = t.stop
  BY <1>3 DEF Behoudt
<1>5. PICK m \in 0..t.gelezen : DOMAIN t.batch = 1..m /\ t.gelezen = t.processed + m
  BY DEF Meegeteld
<1>6. m = n
  <2>1. Cardinality(1..m) = m /\ Cardinality(1..n) = n
    <3>1. m \in Nat /\ {} \subseteq 1..m /\ {} \subseteq 1..n
      BY <1>1
    <3>2. QED BY <3>1, BatchTelt
  <2>2. QED BY <1>5, <2>1
<1>7. u.gelezen = u.processed + 0 /\ 1..0 = {} /\ 0 \in 0..u.gelezen
  BY <1>1, <1>3, <1>5, <1>6
<1>8. \E k \in 0..u.gelezen : DOMAIN u.batch = 1..k /\ u.gelezen = u.processed + k
  BY <1>3, <1>7
<1>9. ASSUME NEW rij \in Rij, rij > u.processed
      PROVE  d[rij] > 0 <=> rij - u.processed \in u.gelukt
  <2>0. rij \in Nat /\ u.processed = t.processed + n /\ rij > u.processed
    BY <1>3, <1>9, ImportAssumption DEF Rij
  <2>1. rij > t.processed /\ rij - t.processed > n
    BY <1>1, <2>0
  <2>2. t.gelukt \subseteq 1..n
    BY DEF TaakVelden, Geldig
  <2>3. rij - t.processed \notin t.gelukt
    <3>1. PICK z \in Int : z = rij - t.processed /\ z > n
      BY <1>1, <2>0, <2>1
    <3>2. QED BY <2>2, <3>1
  <2>4. ~(d[rij] > 0)
    BY <2>1, <2>3 DEF Meegeteld
  <2>5. QED BY <1>3, <2>4
<1>10. Cardinality(Ingelezen(d)) = u.successfully + Cardinality(u.gelukt)
  <2>1. Cardinality({}) = 0
    BY FS_EmptySet
  <2>2. Cardinality(Ingelezen(d)) = t.successfully + g
    BY DEF Meegeteld
  <2>3. Cardinality(u.gelukt) = 0 /\ u.successfully = t.successfully + g
    BY <1>3, <2>1
  <2>4. QED BY <1>1, <2>2, <2>3
<1>11. u.processed = u.successfully + u.invalid
  <2>1. t.processed = t.successfully + t.invalid
    BY DEF Meegeteld
  <2>2. /\ u.processed = t.processed + n /\ u.successfully = t.successfully + g
        /\ u.invalid = t.invalid + h
    BY <1>3
  <2>3. PICK s \in Nat, v \in Nat : s = t.successfully /\ v = t.invalid
    BY <1>1
  <2>4. n = g + h
    OBVIOUS
  <2>5. s + v + n = s + g + (v + h)
    BY <2>4
  <2>6. QED BY <2>1, <2>2, <2>3, <2>5
<1>12. u.stop \/ f = "lees"
  BY <1>2, <1>4
<1>13. QED BY <1>3, <1>4, <1>8, <1>9, <1>10, <1>11, <1>12 DEF Meegeteld

\* What an import that ends reports.
LEMMA KlaarMeldt ==
  ASSUME NEW t, TaakVelden(t), t.fase = "klaar", NEW x, NEW d, Meegeteld(t, x, d), Gemeld(x, d),
         NEW y, y.status = IF t.stop THEN "error" ELSE "finished", y.total = x.total,
         y.processed = x.processed, y.successfully = x.successfully, y.invalid = x.invalid
  PROVE  Gemeld(y, d)
<1>1. t.gelukt = {} /\ t.successfully \in Nat
  BY DEF TaakVelden, TaakRij
<1>2. Cardinality({}) = 0
  BY FS_EmptySet
<1>3. Cardinality(Ingelezen(d)) = t.successfully
  BY <1>1, <1>2 DEF Meegeteld
<1>4. QED BY <1>3 DEF Meegeteld, Gemeld, ReportChoices

\* A task that is dropped or that leaves its import as it is.
LEMMA TaakZonderGevolg ==
  ASSUME ImportTypes, ImportsKloppen, NEW w \in Workers, NEW t, t = worker[w],
         t.fase \in {"lees", "bewaar", "tel", "klaar"}, NEW u, u.fase # "vrij", u.imp = t.imp, Step(w, u),
         UNCHANGED <<imp, docs, verzoek, queue>>, TaakKlopt(u, imp[t.imp], docs[t.imp])
  PROVE  ImportsKloppen'
<1>1. TaakVelden(t) /\ TaakKlopt(t, imp[t.imp], docs[t.imp])
  BY DEF ImportTypes, ImportsKloppen
<1>2. imp[t.imp].status = "active" /\ t.imp \in Imports /\ t.fase # "vrij"
  BY <1>1 DEF TaakKlopt, Meegeteld, TaakVelden
<1>3. Gemeld(imp[t.imp], docs[t.imp])
  BY <1>2 DEF ImportsKloppen, ImportKlopt
<1>4. QED BY <1>2, <1>3, TaakGaatDoor

LEMMA TaskKlopt == HeleBatches /\ ImportTypes /\ ImportsKloppen /\ Task => ImportsKloppen'
<1> SUFFICES ASSUME HeleBatches, ImportTypes, ImportsKloppen, NEW w \in Workers,
       \/ \E i \in Imports : TaskReceive(w, i)
       \/ TaskStart(w)
       \/ \E soorten \in [1..BatchSize -> Soorten] : ReadBatch(w, soorten)
       \/ ReadEnd(w) \/ BatchCreate(w)
       \/ \E fout \in Fouten, k \in 1..BatchSize, stop \in BOOLEAN : BatchFails(w, fout, k, stop)
       \/ \E k \in 1..BatchSize : BatchRaises(w, k)
       \/ FinishBatch(w) \/ FinishImport(w) \/ TaskEnd(w)
       \/ WorkerCrash(w)
     PROVE ImportsKloppen'
  BY DEF Task
<1>0. imp \in [Imports -> Import] /\ docs \in [Imports -> [Rij -> Nat]]
  BY DEF ImportTypes
<1>t. PICK t : t = worker[w] /\ TaakVelden(t)
  BY DEF ImportTypes
<1>k. TaakKlopt(t, imp[t.imp], docs[t.imp])
  BY <1>t DEF ImportsKloppen
<1>1. ASSUME NEW i \in Imports, TaskReceive(w, i) PROVE ImportsKloppen'
  BY <1>1, TaakKomt
<1>2. ASSUME TaskStart(w) PROVE ImportsKloppen'
  <2>1. t.fase = "start" /\ t.imp \in Imports
    BY <1>2, <1>t DEF TaskStart, TaakVelden
  <2>2. imp[t.imp].status = "active" /\ Vers(imp[t.imp], docs[t.imp]) /\ Bestaat(t.imp)
    BY <1>k, <2>1 DEF TaakKlopt, Bestaat
  <2>3. PICK x \in Import : x = imp[t.imp]
    BY <1>0, <2>1
  <2>4. PICK u : u = MetBegin(t, x)
    OBVIOUS
  <2>5. /\ Step(w, u) /\ UNCHANGED <<docs, verzoek, queue>>
        /\ imp' = [imp EXCEPT ![t.imp].status = "active", ![t.imp].total = x.rijen]
    BY <1>2, <1>t, <2>2, <2>3, <2>4 DEF TaskStart, MetBegin
  <2>6. x.rijen \in 0..MaxRijen
    BY <2>3 DEF Import
  <2>7. PICK y : y = imp'[t.imp]
    OBVIOUS
  <2>8. /\ \A j \in Imports : j # t.imp => imp'[j] = imp[j]
        /\ y.status = "active" /\ y.total = x.rijen /\ y.processed = x.processed
        /\ y.successfully = x.successfully /\ y.invalid = x.invalid
    BY <1>0, <2>1, <2>3, <2>5, <2>6, <2>7, BegonnenVorm
  <2>9. Meegeteld(u, y, docs[t.imp])
    BY <1>t, <2>1, <2>2, <2>3, <2>4, <2>8, BegonnenTelt
  <2>10. u.fase = "lees" /\ u.imp = t.imp
    BY <1>t, <2>1, <2>4, StartVelden
  <2>11. TaakKlopt(u, y, docs[t.imp])
    BY <2>9, <2>10 DEF TaakKlopt
  <2>12. Gemeld(y, docs[t.imp])
    <3>1. Gemeld(x, docs[t.imp])
      BY <2>1, <2>3 DEF ImportsKloppen, ImportKlopt
    <3>2. QED BY <2>8, <3>1 DEF Gemeld, ReportChoices
  <2>13. QED BY <1>t, <2>1, <2>2, <2>5, <2>7, <2>8, <2>10, <2>11, <2>12, TaakGaatDoor
<1>3. ASSUME NEW soorten, ReadBatch(w, soorten) PROVE ImportsKloppen'
  <2>1. t.fase = "lees" /\ t.gelezen < t.total /\ UNCHANGED <<imp, docs, verzoek, queue>>
    BY <1>3, <1>t DEF ReadBatch
  <2>2. PICK n \in 1..(t.total - t.gelezen), f \in {"bewaar", "klaar"} : \E b : Leest(w, t, n, f, b)
    BY <1>3, <1>t, Gelezen
  <2>3. PICK b : Leest(w, t, n, f, b)
    BY <2>2
  <2>4. Meegeteld(t, imp[t.imp], docs[t.imp])
    BY <1>k, <2>1 DEF TaakKlopt
  <2>5. FlushAt(t) # {}
    BY <1>t, <2>1, <2>4, ErIsEenBatch
  <2>6. PICK u : u = MetRijen(t, n, b, "bewaar")
    OBVIOUS
  <2>7. DOMAIN b = 1..n /\ Step(w, u)
    BY <2>3, <2>5, <2>6 DEF Leest
  <2>8. u.fase = "bewaar" /\ u.imp = t.imp /\ Meegeteld(u, imp[t.imp], docs[t.imp])
    BY <1>t, <2>1, <2>4, <2>6, <2>7, GelezenTelt
  <2>9. TaakKlopt(u, imp[t.imp], docs[t.imp])
    BY <2>8 DEF TaakKlopt
  <2>10. QED BY <1>t, <2>1, <2>7, <2>8, <2>9, TaakZonderGevolg
<1>4. ASSUME ReadEnd(w) PROVE ImportsKloppen'
  <2>1. t.fase = "lees" /\ t.gelezen >= t.total /\ UNCHANGED <<imp, docs, verzoek, queue>>
    BY <1>4, <1>t DEF ReadEnd
  <2>2. PICK u : u = MetFase(t, "klaar")
    OBVIOUS
  <2>3. Step(w, u)
    BY <1>4, <1>t, <2>2 DEF ReadEnd, MetFase
  <2>4. Meegeteld(t, imp[t.imp], docs[t.imp])
    BY <1>k, <2>1 DEF TaakKlopt
  <2>5. u.fase = "klaar" /\ u.imp = t.imp /\ Meegeteld(u, imp[t.imp], docs[t.imp])
    BY <1>t, <2>1, <2>2, <2>4, EindeTelt
  <2>6. TaakKlopt(u, imp[t.imp], docs[t.imp])
    BY <2>5 DEF TaakKlopt
  <2>7. QED BY <1>t, <2>1, <2>3, <2>5, <2>6, TaakZonderGevolg
<1>5. ASSUME BatchCreate(w) PROVE ImportsKloppen'
  <2>1. t.fase = "bewaar" /\ t.imp \in Imports /\ UNCHANGED <<imp, verzoek, queue>>
    BY <1>5, <1>t DEF BatchCreate, TaakVelden
  <2>2. PICK d \in [Rij -> Nat] : d = docs[t.imp]
    BY <1>0, <2>1
  <2>3. PICK e : e = [rij \in Rij |-> IF \E n \in Geldig(t.batch) : RowOf(t, n) = rij
                                       THEN d[rij] + 1 ELSE d[rij]]
    OBVIOUS
  <2>4. docs' = [docs EXCEPT ![t.imp] = e]
    BY <1>0, <1>5, <1>t, <2>1, <2>2, <2>3 DEF BatchCreate
  <2>5. docs'[t.imp] = e /\ \A j \in Imports : j # t.imp => docs'[j] = docs[j]
    BY <1>0, <2>1, <2>4
  <2>6. PICK u : u = MetMerk(t, Geldig(t.batch), t.stop)
    OBVIOUS
  <2>7. Step(w, u)
    BY <1>5, <1>t, <2>6, OpgeslagenVelden DEF BatchCreate
  <2>8. PICK x : x = imp[t.imp]
    OBVIOUS
  <2>9. Meegeteld(t, x, d) /\ Gemeld(x, d)
    BY <1>k, <2>1, <2>2, <2>8 DEF TaakKlopt, ImportsKloppen, ImportKlopt
  <2>10. u.fase = "tel" /\ u.imp = t.imp /\ Meegeteld(u, x, e) /\ \A rij \in Rij : e[rij] <= 1
    <3>1. \A rij \in Rij : d[rij] <= 1
      BY <2>9 DEF Gemeld
    <3>2. QED BY <1>t, <2>1, <2>3, <2>6, <2>9, <3>1, OpgeslagenTelt
  <2>11. TaakKlopt(u, x, e) /\ x.status = "active"
    BY <2>9, <2>10 DEF TaakKlopt, Meegeteld
  <2>12. Gemeld(x, e)
    BY <2>10, <2>11 DEF Gemeld, ReportChoices
  <2>13. imp'[t.imp] = x /\ (\A j \in Imports : imp'[j] = imp[j]) /\ t.fase # "vrij"
    BY <2>1, <2>8
  <2>14. QED BY <1>t, <2>1, <2>5, <2>7, <2>8, <2>10, <2>11, <2>12, <2>13, TaakGaatDoor
<1>6. ASSUME NEW fout \in Fouten, NEW k \in 1..BatchSize, NEW stop \in BOOLEAN,
             BatchFails(w, fout, k, stop), stop \/ Bestaat(t.imp)
      PROVE ImportsKloppen'
  <2>1. t.fase = "bewaar" /\ UNCHANGED <<imp, docs, verzoek, queue>>
    BY <1>6, <1>t DEF BatchFails
  <2>2. fout = "bulk"
    BY <1>6, ImportAssumption DEF BatchFails, AllFouten, HeleBatches
  <2>3. PICK u : u = MetMerk(t, {}, stop)
    OBVIOUS
  <2>4. Step(w, u)
    BY <1>6, <1>t, <2>2, <2>3 DEF BatchFails, MarkedAfter, MetMerk
  <2>5. Meegeteld(t, imp[t.imp], docs[t.imp])
    BY <1>k, <2>1 DEF TaakKlopt
  <2>6. u.fase = "tel" /\ u.imp = t.imp /\ Meegeteld(u, imp[t.imp], docs[t.imp])
    BY <1>t, <2>1, <2>3, <2>5, MisluktTelt
  <2>7. TaakKlopt(u, imp[t.imp], docs[t.imp])
    BY <2>6 DEF TaakKlopt
  <2>8. QED BY <1>t, <2>1, <2>4, <2>6, <2>7, TaakZonderGevolg
<1>6b. ASSUME NEW fout \in Fouten, NEW k \in 1..BatchSize, NEW stop \in BOOLEAN,
             BatchFails(w, fout, k, stop), ~(stop \/ Bestaat(t.imp))
      PROVE ImportsKloppen'
  <2>1. t.fase = "bewaar" /\ UNCHANGED <<imp, docs, verzoek, queue>>
    BY <1>6b, <1>t DEF BatchFails
  <2>2. PICK u : u = MetFase(t, "vrijgeven")
    OBVIOUS
  <2>3. Step(w, u)
    BY <1>6b, <1>t, <2>2 DEF BatchFails, MetFase
  <2>4. u.fase = "vrijgeven" /\ u.imp = t.imp
    BY <1>t, <2>1, <2>2, FaseVelden DEF Taakfase, Behoudt
  <2>5. TaakKlopt(u, imp[t.imp], docs[t.imp])
    BY <2>4 DEF TaakKlopt
  <2>6. QED BY <1>t, <2>1, <2>3, <2>4, <2>5, TaakZonderGevolg
<1>7. ASSUME NEW k \in 1..BatchSize, BatchRaises(w, k) PROVE ImportsKloppen'
  <2>1. t.fase = "bewaar" /\ UNCHANGED <<imp, docs, verzoek, queue>>
    BY <1>7, <1>t DEF BatchRaises
  <2>2. PICK u : u = MetFase(t, "vrijgeven")
    OBVIOUS
  <2>3. Step(w, u)
    BY <1>7, <1>t, <2>2 DEF BatchRaises, MetFase
  <2>4. u.fase = "vrijgeven" /\ u.imp = t.imp
    BY <1>t, <2>1, <2>2, FaseVelden DEF Taakfase, Behoudt
  <2>5. TaakKlopt(u, imp[t.imp], docs[t.imp])
    BY <2>4 DEF TaakKlopt
  <2>6. QED BY <1>t, <2>1, <2>3, <2>4, <2>5, TaakZonderGevolg
<1>8. ASSUME FinishBatch(w) PROVE ImportsKloppen'
  <2>1. t.fase = "tel" /\ t.imp \in Imports /\ UNCHANGED <<docs, verzoek, queue>>
    BY <1>8, <1>t DEF FinishBatch, TaakVelden
  <2>2. PICK n \in Nat, g \in Nat : Telde(w, t, n, g)
    BY <1>8, <1>t, Geteld
  <2>3. PICK f : f = IF t.stop THEN "klaar" ELSE "lees"
    OBVIOUS
  <2>4. PICK u : u = MetTelling(t, n, g, n - g, f)
    OBVIOUS
  <2>5. PICK x : x = imp[t.imp]
    OBVIOUS
  <2>6. Meegeteld(t, x, docs[t.imp]) /\ Gemeld(x, docs[t.imp])
    BY <1>k, <2>1, <2>5 DEF TaakKlopt, ImportsKloppen, ImportKlopt
  <2>7. x.status = "active" /\ Bestaat(t.imp)
    BY <2>5, <2>6 DEF Meegeteld, Bestaat
  <2>8. /\ DOMAIN t.batch = 1..n /\ g = Cardinality(t.gelukt) /\ g <= n /\ n - g \in Nat
        /\ Step(w, u)
        /\ imp' = [imp EXCEPT ![t.imp].processed = u.processed,
                              ![t.imp].successfully = u.successfully,
                              ![t.imp].invalid = u.invalid]
    BY <2>2, <2>3, <2>4, <2>7 DEF Telde
  <2>9. u.processed \in Nat /\ u.successfully \in Nat /\ u.invalid \in Nat
    <3>1. f \in {"lees", "klaar"}
      BY <2>3
    <3>2. PICK h \in Nat : h = n - g
      BY <2>8
    <3>3. u = MetTelling(t, n, g, h, f)
      BY <2>4, <3>2
    <3>4. NaTelling(u, t, n, g, h, f)
      BY <1>t, <2>1, <3>1, <3>3, TelVelden
    <3>5. QED BY <3>4 DEF NaTelling, TaakVelden, TaakRij
  <2>10. PICK y : y = imp'[t.imp]
    OBVIOUS
  <2>11. /\ \A j \in Imports : j # t.imp => imp'[j] = imp[j]
         /\ y.status = x.status /\ y.total = x.total
         /\ y.processed = u.processed /\ y.successfully = u.successfully /\ y.invalid = u.invalid
    <3>1. PICK p \in Nat, s \in Nat, v \in Nat :
            p = u.processed /\ s = u.successfully /\ v = u.invalid
      BY <2>9
    <3>2. PICK i \in Imports : i = t.imp
      BY <2>1
    <3>3. NieuweTellers(i, p, s, v)
      BY <2>8, <3>1, <3>2 DEF NieuweTellers
    <3>4. /\ \A j \in Imports : j # i => imp'[j] = imp[j]
          /\ imp'[i].status = imp[i].status /\ imp'[i].total = imp[i].total
          /\ imp'[i].processed = p /\ imp'[i].successfully = s /\ imp'[i].invalid = v
      BY <1>0, <3>3, TellerVorm
    <3>5. QED BY <2>5, <2>10, <3>1, <3>2, <3>4
  <2>12. u.fase = f /\ u.imp = t.imp /\ Meegeteld(u, y, docs[t.imp])
    <3>1. PICK h \in Nat : h = n - g
      BY <2>8
    <3>4. PICK d : d = docs[t.imp]
      OBVIOUS
    <3>2. u = MetTelling(t, n, g, h, f)
      BY <2>4, <3>1
    <3>5. /\ DOMAIN t.batch = 1..n /\ g = Cardinality(t.gelukt) /\ g <= n
          /\ Meegeteld(t, x, d) /\ t.fase = "tel"
      BY <2>1, <2>6, <2>8, <3>4
    <3>6. /\ y.status = x.status /\ y.total = x.total /\ y.processed = u.processed
          /\ y.successfully = u.successfully /\ y.invalid = u.invalid
      BY <2>11
    <3>3. u.fase = f /\ u.imp = t.imp /\ Meegeteld(u, y, d)
      BY <1>t, <2>3, <3>1, <3>2, <3>5, <3>6, GeteldTelt
    <3>7. QED BY <3>3, <3>4
  <2>13. u.fase \in {"lees", "klaar"}
    BY <2>3, <2>12
  <2>14. TaakKlopt(u, y, docs[t.imp]) /\ y.status = "active"
    BY <2>12, <2>13 DEF TaakKlopt, Meegeteld
  <2>15. Gemeld(y, docs[t.imp])
    BY <2>6, <2>14 DEF Gemeld, ReportChoices
  <2>16. t.fase # "vrij" /\ u.fase # "vrij" /\ imp[t.imp].status = "active"
    BY <2>1, <2>5, <2>7, <2>13
  <2>17. /\ TaakKlopt(u, imp'[t.imp], docs'[t.imp]) /\ Gemeld(imp'[t.imp], docs'[t.imp])
         /\ imp'[t.imp].status \notin {"nieuw", "pending"}
         /\ \A j \in Imports : j # t.imp => imp'[j] = imp[j] /\ docs'[j] = docs[j]
    BY <2>1, <2>10, <2>11, <2>14, <2>15
  <2>18. u.imp = t.imp /\ Step(w, u) /\ UNCHANGED <<verzoek, queue>>
    BY <2>1, <2>8, <2>12
  <2>19. QED BY <1>t, <2>16, <2>17, <2>18, TaakGaatDoor
<1>9. ASSUME FinishImport(w) PROVE ImportsKloppen'
  <2>1. t.fase = "klaar" /\ t.imp \in Imports /\ UNCHANGED <<docs, verzoek, queue>>
    BY <1>9, <1>t DEF FinishImport, TaakVelden
  <2>2. PICK u : u = MetFase(t, "vrijgeven")
    OBVIOUS
  <2>3. PICK x : x = imp[t.imp] /\ x \in Import
    BY <1>0, <2>1
  <2>4. Meegeteld(t, x, docs[t.imp]) /\ Gemeld(x, docs[t.imp])
    BY <1>k, <2>1, <2>3 DEF TaakKlopt, ImportsKloppen, ImportKlopt
  <2>5. x.status = "active" /\ Bestaat(t.imp)
    BY <2>3, <2>4 DEF Meegeteld, Bestaat
  <2>6. PICK st : st = IF t.stop THEN "error" ELSE "finished"
    OBVIOUS
  <2>7. Step(w, u) /\ imp' = [imp EXCEPT ![t.imp].status = st]
    BY <1>9, <1>t, <2>2, <2>5, <2>6 DEF FinishImport, MetFase
  <2>8. st \in {"error", "finished"} /\ st \in Stand
    BY <2>6 DEF Stand
  <2>9. PICK y : y = imp'[t.imp]
    OBVIOUS
  <2>10. y = [x EXCEPT !.status = st] /\ \A j \in Imports : j # t.imp => imp'[j] = imp[j]
    BY <1>0, <2>1, <2>3, <2>7, <2>8, <2>9, StandVorm
  <2>11. /\ y.status = st /\ y.total = x.total /\ y.processed = x.processed
         /\ y.successfully = x.successfully /\ y.invalid = x.invalid
    BY <2>3, <2>10 DEF Import
  <2>12. Gemeld(y, docs[t.imp])
    BY <1>t, <2>1, <2>4, <2>6, <2>11, KlaarMeldt
  <2>13. u.fase = "vrijgeven" /\ u.imp = t.imp
    BY <1>t, <2>1, <2>2, FaseVelden DEF Taakfase, Behoudt
  <2>14. TaakKlopt(u, y, docs[t.imp])
    BY <2>13 DEF TaakKlopt
  <2>15. t.fase # "vrij" /\ imp[t.imp].status = "active" /\ y.status \notin {"nieuw", "pending"}
    BY <2>1, <2>3, <2>5, <2>8, <2>11
  <2>16. QED BY <1>t, <2>1, <2>7, <2>9, <2>10, <2>12, <2>13, <2>14, <2>15, TaakGaatDoor
<1>10. ASSUME TaskEnd(w) PROVE ImportsKloppen'
  BY <1>10, TaakHoudtOp DEF TaskEnd
<1>11. ASSUME WorkerCrash(w) PROVE ImportsKloppen'
  BY <1>11, TaakHoudtOp DEF WorkerCrash
<1>12. QED BY <1>1, <1>2, <1>3, <1>4, <1>5, <1>6, <1>6b, <1>7, <1>8, <1>9, <1>10, <1>11

LEMMA BeginTypes == ImportInit => ImportTypes
<1> SUFFICES ASSUME ImportInit PROVE ImportTypes
  OBVIOUS
<1>1. imp \in [Imports -> Import]
  <2>1. [status |-> "nieuw", rijen |-> 0, total |-> 0, processed |-> 0,
         successfully |-> 0, invalid |-> 0] \in Import
    BY ImportAssumption DEF Import, Stand
  <2>2. QED BY <2>1 DEF ImportInit
<1>2. DOMAIN verzoek = Requests /\ \A r \in Requests : VerzoekVelden(verzoek[r])
  BY RustVerzoek DEF ImportInit
<1>3. DOMAIN worker = Workers /\ \A w \in Workers : TaakVelden(worker[w])
  BY TaakRustVelden DEF ImportInit
<1>4. QED BY <1>1, <1>2, <1>3 DEF ImportInit, ImportTypes

LEMMA BeginKlopt == ImportInit => ImportsKloppen
<1> SUFFICES ASSUME ImportInit PROVE ImportsKloppen
  OBVIOUS
<1>1. IdleReq.fase = "vrij" /\ IdleWorker.fase = "vrij"
  BY DEF IdleReq, IdleWorker
<1>2. \A w \in Workers : worker[w].fase = "vrij" /\ worker[w].imp = IdleWorker.imp
  BY <1>1 DEF ImportInit
<1>3. \A r \in Requests : VerzoekKlopt(verzoek[r])
  BY <1>1 DEF ImportInit, VerzoekKlopt
<1>4. \A w \in Workers : TaakKlopt(worker[w], imp[worker[w].imp], docs[worker[w].imp])
  BY <1>2 DEF TaakKlopt
<1>5. ASSUME NEW i \in Imports PROVE ImportKlopt(i)
  <2>1. /\ imp[i].status = "nieuw" /\ imp[i].processed = 0 /\ imp[i].successfully = 0
        /\ imp[i].invalid = 0 /\ queue[i] = 0 /\ \A rij \in Rij : docs[i][rij] = 0
    BY DEF ImportInit
  <2>2. \A w \in Workers : ~Doet(w, i)
    BY <1>2 DEF Doet
  <2>3. QED BY <2>1, <2>2 DEF ImportKlopt, Vers, NietBezig, Gemeld, ReportChoices
<1>6. EenVerzoek
  BY DEF EenVerzoek, ImportInit
<1>7. QED BY <1>3, <1>4, <1>5, <1>6 DEF ImportsKloppen

LEMMA ImportsBlijvenKloppen ==
  ASSUME ~Gelijktijdig, HeleBatches
  PROVE  ImportTypes /\ ImportsKloppen /\ [ImportNext]_importVars => ImportsKloppen'
<1>1. ImportsKloppen /\ (LockExpires \/ UNCHANGED importVars) => ImportsKloppen'
  BY DEF LockExpires, importVars, ImportsKloppen, EenVerzoek, VerzoekKlopt, NietBezig, Doet,
         TaakKlopt, Meegeteld, Vers, ImportKlopt, Gemeld
<1>2. QED BY <1>1, WebKlopt, TaskKlopt DEF ImportNext

LEMMA ImportTypesAltijd == ImportSpec => []ImportTypes
<1>1. ImportInit => ImportTypes
  BY BeginTypes
<1>2. ImportTypes /\ [ImportNext]_importVars => ImportTypes'
  BY ImportTypesStap
<1>3. QED BY <1>1, <1>2, PTL DEF ImportSpec

\* Imports, requests, messages, tasks, documents and faults keep their types in any interleaving,
\* and whoever runs a task knows its import.
THEOREM ImportTypeCorrect == ImportSpec => []ImportTypeOK
<1>1. ImportTypes => ImportTypeOK
  BY ImportVormen
<1>2. QED BY <1>1, ImportTypesAltijd, PTL

\* When requests follow each other, what an import reports is what it did: however many workers
\* there are, whatever dies, expires or fails, no row is imported twice and the rows counted as
\* successful are those that were imported. The lock of the task is not needed for it. Relations
\* and commits do not fail: what they roll back stays marked as succeeded.
THEOREM StatistiekKlopt ==
  ASSUME ~Gelijktijdig, Fouten \cap {"koppel", "commit"} = {}
  PROVE  ImportSpec => []StatisticsMatch
<1>1. HeleBatches
  BY DEF HeleBatches
<1>2. ImportInit => ImportsKloppen
  BY BeginKlopt
<1>3. ImportTypes /\ ImportsKloppen /\ [ImportNext]_importVars => ImportsKloppen'
  BY <1>1, ImportsBlijvenKloppen
<1>4. ImportsKloppen => StatisticsMatch
  BY ImportsMelden
<1>5. QED BY <1>2, <1>3, <1>4, ImportTypesAltijd, PTL DEF ImportSpec

-----------------------------------------------------------------------------
(* The files of documents, when the rows of a file name different files.   *)

\* The files of the rows that are about to be stored are there.
BatchHeeftFiles(t, fs) ==
  t.fase = "bewaar" => \A k \in Geldig(t.batch) : <<t.imp, RowOf(t, k)>> \in fs

FilesKloppen ==
  /\ \A i \in Imports : \A rij \in Ingelezen(docs[i]) : <<i, rij>> \in files
  /\ \A w \in Workers : BatchHeeftFiles(worker[w], files)

LEMMA FilesZijnEr == ASSUME ~Gedeeld, FilesKloppen PROVE DocumentsHaveFiles
BY DEF FilesKloppen, DocumentsHaveFiles, Imported, Ingelezen, Naam

\* A step that leaves the files of other imports where they are.
LEMMA FilesStap ==
  ASSUME ImportTypes, ImportsKloppen, FilesKloppen, NEW w \in Workers, NEW t, t = worker[w],
         t.fase # "vrij", NEW u, Step(w, u), \A j \in Imports : j # t.imp => docs'[j] = docs[j],
         \A j \in Imports : \A rij : j # t.imp /\ <<j, rij>> \in files => <<j, rij>> \in files',
         \A rij \in Ingelezen(docs'[t.imp]) : <<t.imp, rij>> \in files',
         BatchHeeftFiles(u, files')
  PROVE  FilesKloppen'
<1>1. \A v \in Workers : worker'[v] = IF v = w THEN u ELSE worker[v]
  BY DEF ImportTypes, Step
<1>2. t.imp \in Imports /\ \A v \in Workers : worker[v].fase # "vrij" => worker[v].imp \in Imports
  BY DEF ImportTypes, TaakVelden
<1>3. \A v \in Workers : v # w /\ worker[v].fase # "vrij" => worker[v].imp # t.imp
  <2>1. ImportKlopt(t.imp) /\ Doet(w, t.imp)
    BY <1>2 DEF ImportsKloppen, Doet
  <2>2. QED BY <2>1 DEF ImportKlopt, Doet
<1>4. ASSUME NEW v \in Workers PROVE BatchHeeftFiles(worker'[v], files')
  <2>1. CASE v = w
    BY <1>1, <2>1
  <2>2. CASE v # w
    <3>1. worker'[v] = worker[v] /\ BatchHeeftFiles(worker[v], files)
      BY <1>1, <2>2 DEF FilesKloppen
    <3>2. CASE worker[v].fase = "bewaar"
      <4>1. PICK s : s = worker[v]
        OBVIOUS
      <4>2. s.imp \in Imports /\ s.imp # t.imp
        BY <1>2, <1>3, <2>2, <3>2, <4>1
      <4>3. QED BY <3>1, <3>2, <4>1, <4>2 DEF BatchHeeftFiles
    <3>3. CASE worker[v].fase # "bewaar"
      BY <3>1, <3>3 DEF BatchHeeftFiles
    <3>4. QED BY <3>2, <3>3
  <2>3. QED BY <2>1, <2>2
<1>5. ASSUME NEW i \in Imports, NEW rij \in Ingelezen(docs'[i]) PROVE <<i, rij>> \in files'
  BY <1>5 DEF FilesKloppen
<1>6. QED BY <1>4, <1>5 DEF FilesKloppen

\* A step that stores and removes nothing.
LEMMA FilesBlijven ==
  ASSUME ImportTypes, FilesKloppen, NEW w \in Workers, NEW u, u.fase # "bewaar",
         worker' = worker \/ Step(w, u), UNCHANGED <<docs, files>>
  PROVE  FilesKloppen'
<1>1. \A v \in Workers : worker'[v] = worker[v] \/ worker'[v] = u
  BY DEF ImportTypes, Step
<1>2. QED BY <1>1 DEF FilesKloppen, BatchHeeftFiles

LEMMA FilesTaak ==
  ~Gedeeld /\ HeleBatches /\ ImportTypes /\ ImportsKloppen /\ FilesKloppen /\ Task => FilesKloppen'
<1> SUFFICES ASSUME ~Gedeeld, HeleBatches, ImportTypes, ImportsKloppen, FilesKloppen, NEW w \in Workers,
       \/ \E i \in Imports : TaskReceive(w, i)
       \/ TaskStart(w)
       \/ \E soorten \in [1..BatchSize -> Soorten] : ReadBatch(w, soorten)
       \/ ReadEnd(w) \/ BatchCreate(w)
       \/ \E fout \in Fouten, k \in 1..BatchSize, stop \in BOOLEAN : BatchFails(w, fout, k, stop)
       \/ \E k \in 1..BatchSize : BatchRaises(w, k)
       \/ FinishBatch(w) \/ FinishImport(w) \/ TaskEnd(w)
       \/ WorkerCrash(w)
     PROVE FilesKloppen'
  BY DEF Task
<1>0. docs \in [Imports -> [Rij -> Nat]]
  BY DEF ImportTypes
<1>t. PICK t : t = worker[w] /\ TaakVelden(t)
  BY DEF ImportTypes
<1>k. TaakKlopt(t, imp[t.imp], docs[t.imp]) /\ BatchHeeftFiles(t, files)
  BY <1>t DEF ImportsKloppen, FilesKloppen
<1>n. \A i, rij : Naam(i, rij) = <<i, rij>>
  BY DEF Naam
<1>r. IdleWorker.fase = "vrij"
  BY DEF IdleWorker
<1>1. ASSUME NEW i \in Imports, TaskReceive(w, i) PROVE FilesKloppen'
  <2>1. PICK u : u = [IdleWorker EXCEPT !.fase = "start", !.imp = i]
    OBVIOUS
  <2>2. u.fase = "start"
    BY <2>1 DEF IdleWorker
  <2>3. worker' = worker \/ Step(w, u)
    BY <1>1, <2>1 DEF TaskReceive
  <2>4. UNCHANGED <<docs, files>>
    BY <1>1 DEF TaskReceive
  <2>5. QED BY <2>2, <2>3, <2>4, FilesBlijven
<1>2. ASSUME TaskStart(w) PROVE FilesKloppen'
  <2>1. t.fase = "start" /\ t.imp \in Imports /\ UNCHANGED <<docs, files>>
    BY <1>2, <1>t DEF TaskStart, TaakVelden
  <2>2. Bestaat(t.imp)
    BY <1>k, <2>1 DEF TaakKlopt, Bestaat
  <2>3. PICK x \in Import : x = imp[t.imp]
    BY <2>1 DEF ImportTypes
  <2>4. PICK u : u = MetBegin(t, x)
    OBVIOUS
  <2>5. Step(w, u)
    BY <1>2, <1>t, <2>2, <2>3, <2>4 DEF TaskStart, MetBegin
  <2>6. u.fase = "lees"
    BY <1>t, <2>1, <2>4, StartVelden
  <2>7. QED BY <2>1, <2>5, <2>6, FilesBlijven
<1>3. ASSUME NEW soorten, ReadBatch(w, soorten) PROVE FilesKloppen'
  <2>1. t.fase = "lees" /\ t.gelezen < t.total /\ UNCHANGED docs
    BY <1>3, <1>t DEF ReadBatch
  <2>2. PICK n \in 1..(t.total - t.gelezen), f \in {"bewaar", "klaar"} : \E b : Leest(w, t, n, f, b)
    BY <1>3, <1>t, Gelezen
  <2>3. PICK b : Leest(w, t, n, f, b)
    BY <2>2
  <2>4. Meegeteld(t, imp[t.imp], docs[t.imp])
    BY <1>k, <2>1 DEF TaakKlopt
  <2>5. FlushAt(t) # {}
    BY <1>t, <2>1, <2>4, ErIsEenBatch
  <2>6. PICK u : u = MetRijen(t, n, b, "bewaar")
    OBVIOUS
  <2>7. /\ DOMAIN b = 1..n /\ Step(w, u)
        /\ files' = files \cup {Naam(t.imp, t.gelezen + x) : x \in Geldig(b)}
    BY <2>3, <2>5, <2>6 DEF Leest
  <2>8. t.gelezen \in Nat /\ t.total \in Nat /\ t.imp \in Imports
    BY <1>t, <2>1, ImportAssumption DEF TaakVelden, TaakRij
  <2>9. n \in Nat /\ n \in 0..n
    BY <2>8
  <2>10. u.imp = t.imp /\ u.gelezen = t.gelezen + n /\ u.batch = b
    <3>1. \E k \in 0..n : DOMAIN b = 1..k
      BY <2>7, <2>9
    <3>2. QED BY <1>t, <2>1, <2>6, <3>1, LeesVelden DEF Behoudt
  <2>11. ASSUME NEW k \in Geldig(b) PROVE RowOf(u, k) = t.gelezen + k
    <3>1. RowOf(u, k) = u.gelezen - n + k
      BY <2>7, <2>9, <2>10, RijVan
    <3>2. k \in Nat
      BY <2>7, <2>9 DEF Geldig
    <3>3. QED BY <2>8, <2>9, <2>10, <3>1, <3>2
  <2>12. BatchHeeftFiles(u, files')
    BY <1>n, <2>7, <2>10, <2>11 DEF BatchHeeftFiles
  <2>13. files \subseteq files' /\ t.fase # "vrij"
    BY <2>1, <2>7
  <2>14. \A rij \in Ingelezen(docs'[t.imp]) : <<t.imp, rij>> \in files'
    BY <2>1, <2>8, <2>13 DEF FilesKloppen
  <2>15. QED BY <1>t, <2>1, <2>7, <2>12, <2>13, <2>14, FilesStap
<1>4. ASSUME ReadEnd(w) PROVE FilesKloppen'
  <2>1. t.fase = "lees" /\ UNCHANGED <<docs, files>>
    BY <1>4, <1>t DEF ReadEnd
  <2>2. PICK u : u = MetFase(t, "klaar")
    OBVIOUS
  <2>3. u.fase = "klaar"
    BY <1>t, <2>1, <2>2, FaseVelden DEF Taakfase
  <2>4. Step(w, u)
    BY <1>4, <1>t, <2>2 DEF ReadEnd, MetFase
  <2>5. QED BY <2>1, <2>3, <2>4, FilesBlijven
<1>5. ASSUME BatchCreate(w) PROVE FilesKloppen'
  <2>1. t.fase = "bewaar" /\ t.imp \in Imports /\ UNCHANGED files
    BY <1>5, <1>t DEF BatchCreate, TaakVelden
  <2>2. PICK d \in [Rij -> Nat] : d = docs[t.imp]
    BY <1>0, <2>1
  <2>3. PICK e : e = [rij \in Rij |-> IF \E n \in Geldig(t.batch) : RowOf(t, n) = rij
                                       THEN d[rij] + 1 ELSE d[rij]]
    OBVIOUS
  <2>4. docs' = [docs EXCEPT ![t.imp] = e]
    BY <1>0, <1>5, <1>t, <2>1, <2>2, <2>3 DEF BatchCreate
  <2>5. docs'[t.imp] = e /\ \A j \in Imports : j # t.imp => docs'[j] = docs[j]
    BY <1>0, <2>1, <2>4
  <2>6. PICK u : u = MetMerk(t, Geldig(t.batch), t.stop)
    OBVIOUS
  <2>7. Step(w, u)
    BY <1>5, <1>t, <2>6, OpgeslagenVelden DEF BatchCreate
  <2>8. u.fase = "tel"
    BY <1>t, <2>6 DEF MetMerk, TaakVelden, TaakRij
  <2>9. ASSUME NEW rij \in Ingelezen(e) PROVE <<t.imp, rij>> \in files
    <3>1. CASE \E n \in Geldig(t.batch) : RowOf(t, n) = rij
      BY <1>k, <2>1, <3>1 DEF BatchHeeftFiles
    <3>2. CASE ~ \E n \in Geldig(t.batch) : RowOf(t, n) = rij
      <4>1. rij \in Ingelezen(d)
        BY <2>3, <3>2 DEF Ingelezen
      <4>2. QED BY <2>1, <2>2, <4>1 DEF FilesKloppen
    <3>3. QED BY <3>1, <3>2
  <2>10. BatchHeeftFiles(u, files')
    BY <2>8 DEF BatchHeeftFiles
  <2>11. t.fase # "vrij"
    BY <2>1
  <2>12. QED BY <1>t, <2>1, <2>5, <2>7, <2>9, <2>10, <2>11, FilesStap
<1>6. ASSUME NEW fout \in Fouten, NEW k \in 1..BatchSize, NEW stop \in BOOLEAN,
             BatchFails(w, fout, k, stop), stop \/ Bestaat(t.imp)
      PROVE FilesKloppen'
  <2>1. t.fase = "bewaar" /\ UNCHANGED <<docs, files>>
    BY <1>6, <1>t DEF BatchFails
  <2>2. PICK G, u : G = MarkedAfter(t, fout, k) /\ u = MetMerk(t, G, stop)
    OBVIOUS
  <2>3. Step(w, u)
    BY <1>6, <1>t, <2>2 DEF BatchFails, MetMerk
  <2>4. u.fase = "tel"
    BY <1>t, <2>2 DEF MetMerk, TaakVelden, TaakRij
  <2>5. QED BY <2>1, <2>3, <2>4, FilesBlijven
<1>6b. ASSUME NEW fout \in Fouten, NEW k \in 1..BatchSize, NEW stop \in BOOLEAN,
             BatchFails(w, fout, k, stop), ~(stop \/ Bestaat(t.imp))
      PROVE FilesKloppen'
  <2>1. t.fase = "bewaar" /\ UNCHANGED <<docs, files>>
    BY <1>6b, <1>t DEF BatchFails
  <2>2. PICK u : u = MetFase(t, "vrijgeven")
    OBVIOUS
  <2>3. u.fase = "vrijgeven"
    BY <1>t, <2>1, <2>2, FaseVelden DEF Taakfase
  <2>4. Step(w, u)
    BY <1>6b, <1>t, <2>2 DEF BatchFails, MetFase
  <2>5. QED BY <2>1, <2>3, <2>4, FilesBlijven
<1>7. ASSUME NEW k \in 1..BatchSize, BatchRaises(w, k) PROVE FilesKloppen'
  <2>1. t.fase = "bewaar" /\ UNCHANGED <<docs, files>>
    BY <1>7, <1>t DEF BatchRaises
  <2>2. PICK u : u = MetFase(t, "vrijgeven")
    OBVIOUS
  <2>3. u.fase = "vrijgeven"
    BY <1>t, <2>1, <2>2, FaseVelden DEF Taakfase
  <2>4. Step(w, u)
    BY <1>7, <1>t, <2>2 DEF BatchRaises, MetFase
  <2>5. QED BY <2>1, <2>3, <2>4, FilesBlijven
<1>8. ASSUME FinishBatch(w) PROVE FilesKloppen'
  <2>1. t.fase = "tel" /\ t.imp \in Imports /\ files' = files \ Cleanup(t) /\ UNCHANGED docs
    BY <1>8, <1>t DEF FinishBatch, TaakVelden
  <2>2. PICK n \in Nat, g \in Nat : Telde(w, t, n, g)
    BY <1>8, <1>t, Geteld
  <2>3. PICK f : f = IF t.stop THEN "klaar" ELSE "lees"
    OBVIOUS
  <2>4. PICK u : u = MetTelling(t, n, g, n - g, f)
    OBVIOUS
  <2>5. Step(w, u) /\ n - g \in Nat /\ DOMAIN t.batch = 1..n
    BY <2>2, <2>3, <2>4 DEF Telde
  <2>6. u.fase \in {"lees", "klaar"}
    <3>1. f \in {"lees", "klaar"}
      BY <2>3
    <3>2. NaTelling(u, t, n, g, n - g, f)
      BY <1>t, <2>1, <2>4, <2>5, <3>1, TelVelden
    <3>3. QED BY <3>1, <3>2 DEF NaTelling
  <2>7. PICK d \in [Rij -> Nat] : d = docs[t.imp]
    BY <1>0, <2>1
  <2>8. Meegeteld(t, imp[t.imp], d)
    BY <1>k, <2>1, <2>7 DEF TaakKlopt
  <2>9. t.gelezen \in Nat /\ t.processed \in Nat
    BY <1>t DEF TaakVelden, TaakRij
  <2>10. t.gelezen = t.processed + n
    <3>1. PICK m \in 0..t.gelezen : DOMAIN t.batch = 1..m /\ t.gelezen = t.processed + m
      BY <2>8 DEF Meegeteld
    <3>2. Cardinality(1..m) = m /\ Cardinality(1..n) = n
      <4>1. m \in Nat /\ {} \subseteq 1..m /\ {} \subseteq 1..n
        BY <2>9
      <4>2. QED BY <4>1, BatchTelt
    <3>3. QED BY <2>5, <3>1, <3>2
  <2>11. ASSUME NEW rij \in Ingelezen(d), NEW k \in Geldig(t.batch) \ t.gelukt, RowOf(t, k) = rij
         PROVE  FALSE
    <3>1. RowOf(t, k) = t.gelezen - n + k
      BY <2>5, RijVan
    <3>2. k \in Nat /\ k > 0
      BY <2>5 DEF Geldig
    <3>3. rij = t.processed + k
      BY <2>9, <2>10, <2>11, <3>1, <3>2
    <3>4. rij > t.processed /\ rij - t.processed = k /\ rij \in Rij /\ d[rij] > 0
      BY <2>9, <3>2, <3>3 DEF Ingelezen
    <3>5. rij - t.processed \in t.gelukt
      BY <2>8, <3>4 DEF Meegeteld
    <3>6. QED BY <3>4, <3>5
  <2>12. \A j, rij : <<j, rij>> \in Cleanup(t) =>
            j = t.imp /\ \E k \in Geldig(t.batch) \ t.gelukt : RowOf(t, k) = rij
    BY <1>n DEF Cleanup
  <2>13. \A rij \in Ingelezen(d) : <<t.imp, rij>> \in files /\ <<t.imp, rij>> \notin Cleanup(t)
    BY <2>1, <2>7, <2>11, <2>12 DEF FilesKloppen
  <2>14. \A j \in Imports : \A rij : j # t.imp /\ <<j, rij>> \in files => <<j, rij>> \in files'
    BY <2>1, <2>12
  <2>15. \A rij \in Ingelezen(docs'[t.imp]) : <<t.imp, rij>> \in files'
    BY <2>1, <2>7, <2>13
  <2>16. BatchHeeftFiles(u, files') /\ t.fase # "vrij"
    BY <2>1, <2>6 DEF BatchHeeftFiles
  <2>17. QED BY <1>t, <2>1, <2>5, <2>14, <2>15, <2>16, FilesStap
<1>9. ASSUME FinishImport(w) PROVE FilesKloppen'
  <2>1. t.fase = "klaar" /\ UNCHANGED <<docs, files>>
    BY <1>9, <1>t DEF FinishImport
  <2>2. PICK u : u = MetFase(t, "vrijgeven")
    OBVIOUS
  <2>3. u.fase = "vrijgeven"
    BY <1>t, <2>1, <2>2, FaseVelden DEF Taakfase
  <2>4. Step(w, u)
    BY <1>9, <1>t, <2>2 DEF FinishImport, MetFase
  <2>5. QED BY <2>1, <2>3, <2>4, FilesBlijven
<1>10. ASSUME TaskEnd(w) PROVE FilesKloppen'
  BY <1>10, <1>r, FilesBlijven DEF TaskEnd
<1>11. ASSUME WorkerCrash(w) PROVE FilesKloppen'
  BY <1>11, <1>r, FilesBlijven DEF WorkerCrash
<1>12. QED BY <1>1, <1>2, <1>3, <1>4, <1>5, <1>6, <1>6b, <1>7, <1>8, <1>9, <1>10, <1>11

LEMMA FilesBlijvenKloppen ==
  ASSUME ~Gedeeld, HeleBatches
  PROVE  ImportTypes /\ ImportsKloppen /\ FilesKloppen /\ [ImportNext]_importVars => FilesKloppen'
<1>1. FilesKloppen /\ UNCHANGED <<worker, docs, files>> => FilesKloppen'
  BY DEF FilesKloppen, BatchHeeftFiles
<1>2. Web \/ LockExpires \/ UNCHANGED importVars => UNCHANGED <<worker, docs, files>>
  BY DEF Web, CreateCheck, CreateInsert, UploadCheck, UploadSave, Dispatch, RequestFails,
         DestroyCheck, Destroy, RemoveImport, LockExpires, importVars
<1>3. QED BY <1>1, <1>2, FilesTaak DEF ImportNext

\* Under the same assumptions, and when rows name different files, a document that was imported has
\* its file: the cleanup after a batch takes the files of rows that were not stored, and of no
\* other row or import.
THEOREM BestandBlijft ==
  ASSUME ~Gelijktijdig, ~Gedeeld, Fouten \cap {"koppel", "commit"} = {}
  PROVE  ImportSpec => []DocumentsHaveFiles
<1>1. HeleBatches
  BY DEF HeleBatches
<1>2. ImportInit => ImportsKloppen
  BY BeginKlopt
<1>3. ImportTypes /\ ImportsKloppen /\ [ImportNext]_importVars => ImportsKloppen'
  BY <1>1, ImportsBlijvenKloppen
<1>4. ImportInit => FilesKloppen
  BY DEF ImportInit, FilesKloppen, BatchHeeftFiles, Ingelezen, IdleWorker
<1>5. ImportTypes /\ ImportsKloppen /\ FilesKloppen /\ [ImportNext]_importVars => FilesKloppen'
  BY <1>1, FilesBlijvenKloppen
<1>6. FilesKloppen => DocumentsHaveFiles
  BY FilesZijnEr
<1>7. QED BY <1>2, <1>3, <1>4, <1>5, <1>6, ImportTypesAltijd, PTL DEF ImportSpec

=============================================================================
