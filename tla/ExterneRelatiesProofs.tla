------------------------- MODULE ExterneRelatiesProofs -------------------------
(***************************************************************************)
(* Proofs about ExterneRelaties: its type invariant, and that relations    *)
(* kept by two installations agree, for every set of relations, zaken and  *)
(* workers and whatever fails.                                             *)
(***************************************************************************)
EXTENDS ExterneRelaties, FiniteSetTheorems, TLAPS

-----------------------------------------------------------------------------
(* Requests and their calls *)

\* What a relation may refer to
Naar(r) == IF r \in Koppelingen THEN {Document} ELSE Extern \cup Lokaal \cup {Geen}

\* The phases of a request
Fasen ==
  {<<"koppel", "post">>, <<"ontkoppel", "gelezen">>, <<"ontkoppel", "delete">>,
   <<"besluit", "post_in_transactie">>,
   <<"verplaats", "gelezen">>, <<"verplaats", "wacht">>,
   <<"verplaats", "delete_in_transactie">>, <<"verplaats", "post_in_transactie">>,
   <<"verwijder", "gelezen">>, <<"verwijder", "delete_in_transactie">>}

Lezend == {"gelezen", "wacht"}
Makend == {"post", "post_in_transactie"}

RijenInv == \A r \in Relaties : rij[r] # Geen => rij[r].naar \in Naar(r)

\* A request and its call: the call of a request is about what the request is about, and a call
\* that nobody waits for is about a relation of G.
Passend(q, c, G) ==
  /\ q # Geen =>
       /\ <<q.op, q.fase>> \in Fasen
       /\ q.op \in {"koppel", "ontkoppel"} <=> q.r \in Koppelingen
       /\ q.naar \in Naar(q.r) /\ q.rij.naar \in Naar(q.r)
       /\ q.op = "besluit" => q.rij.naar = Geen
       /\ q.op = "verwijder" => q.naar = Geen
       /\ q.fase = "post_in_transactie" \/ <<q.op, q.fase>> = <<"verplaats", "delete_in_transactie">> =>
            q.naar \in Extern /\ q.naar # q.rij.naar
       /\ c = Geen <=> q.fase \in Lezend
  /\ c # Geen =>
       /\ c.naar \in Naar(c.r)
       /\ q = Geen => c.r \in G
       /\ q # Geen => c.r = q.r
       /\ q # Geen /\ q.fase \in Makend => c.soort = "post" /\ c.naar = q.naar
       /\ q # Geen /\ q.fase \notin Makend =>
            c.soort = "delete" /\ c.naar = q.rij.naar /\ c.url = q.rij.url /\ c.url # 0

VerzoekenInv == \A w \in Werkers : Passend(req[w], aanroep[w], geraakt)

\* The requests that may still use a key, and those that may use a url
Sleutelnemers == {w \in Werkers : req[w] # Geen /\ req[w].op = "ontkoppel"}
Urlnemers ==
  {w \in Werkers :
     \/ aanroep[w] # Geen /\ aanroep[w].soort = "post" /\ aanroep[w].stap \in {"uit", "nagegaan"}
     \/ req[w] # Geen /\ req[w].op = "verplaats" /\ req[w].fase \in Lezend \cup {"delete_in_transactie"}}

Grenzen ==
  /\ rijen + Cardinality(Sleutelnemers) <= MaxRij
  /\ urls + Cardinality(Urlnemers) <= MaxUrl

TypeInv == TypeOK /\ RijenInv /\ VerzoekenInv /\ Grenzen

-----------------------------------------------------------------------------
(* Counting workers *)

LEMMA Aantal ==
  ASSUME NEW S \in SUBSET Werkers, NEW T \in SUBSET Werkers
  PROVE  /\ IsFiniteSet(S) /\ Cardinality(S) \in Nat
         /\ T \subseteq S => Cardinality(T) <= Cardinality(S)
<1> USE ExterneRelatiesAssumption
<1>1. IsFiniteSet(S) /\ IsFiniteSet(T)
  BY FS_Subset
<1> QED BY <1>1, FS_Subset, FS_CardinalityType

LEMMA EenMeer ==
  ASSUME NEW S \in SUBSET Werkers, NEW T \in SUBSET Werkers, NEW w, T \subseteq S \cup {w}
  PROVE  Cardinality(T) <= Cardinality(S) + 1
<1>1. IsFiniteSet(S) /\ Cardinality(S) \in Nat
  BY Aantal
<1>2. IsFiniteSet(S \cup {w}) /\ Cardinality(S \cup {w}) <= Cardinality(S) + 1
  BY <1>1, FS_AddElement
<1>3. Cardinality(T) <= Cardinality(S \cup {w})
  BY <1>2, FS_Subset
<1>4. Cardinality(T) \in Nat /\ Cardinality(S \cup {w}) \in Nat
  BY <1>2, Aantal, FS_CardinalityType
<1> QED BY <1>1, <1>2, <1>3, <1>4

LEMMA EenMinder ==
  ASSUME NEW S \in SUBSET Werkers, NEW T \in SUBSET Werkers, NEW w \in S, T \subseteq S \ {w}
  PROVE  Cardinality(T) <= Cardinality(S) - 1
<1>1. IsFiniteSet(S) /\ Cardinality(S) \in Nat
  BY Aantal
<1>2. Cardinality(S \ {w}) = Cardinality(S) - 1
  BY <1>1, FS_RemoveElement
<1>3. Cardinality(T) <= Cardinality(S \ {w})
  BY Aantal
<1> QED BY <1>2, <1>3

-----------------------------------------------------------------------------
(* Both sides *)

\* One request at a time is busy with a relation, and the row is as the request read it,
\* or is gone, or is not there yet.
Enig == \A r \in Relaties \ samen : \A v, w \in Werkers : Bezig(v, r) /\ Bezig(w, r) => v = w

GelezenRij(q) == IF q.fase = "delete" \/ q.op = "besluit" THEN Geen ELSE q.rij

Ongewijzigd ==
  \A w \in Werkers : req[w] # Geen /\ req[w].r \notin samen => rij[req[w].r] = GelezenRij(req[w])

\* B has one mirror of r, at most.
Spiegels(r, naar, url) ==
  \A x \in Buiten : <<r, x>> \in Paren => spiegel[<<r, x>>] = IF x = naar THEN url ELSE 0

\* What B has while w is busy: before its call, before B made or deleted the mirror, after
Verwacht(w) ==
  LET q == req[w]
      c == aanroep[w]
      gedaan == c # Geen /\ c.stap = "ja"
  IN IF c = Geen \/ (q.fase \notin Makend /\ ~gedaan) THEN Spiegels(q.r, q.rij.naar, q.rij.url)
     ELSE IF q.fase \in Makend /\ gedaan THEN Spiegels(q.r, q.naar, c.url)
     ELSE Spiegels(q.r, Geen, 0)

SpiegelInv ==
  \A r \in Relaties \ (geraakt \cup samen) :
    /\ \A w \in Werkers : Bezig(w, r) => Verwacht(w)
    /\ (\A w \in Werkers : ~Bezig(w, r)) => Gelijk(r)

RelatieInv == Enig /\ Ongewijzigd /\ SpiegelInv /\ BesluitHeeftZaakbesluit

-----------------------------------------------------------------------------
(* Types *)

\* The workers that may still use a key or a url, before and after a step
LEMMA Nemers ==
  /\ Sleutelnemers \in SUBSET Werkers /\ Urlnemers \in SUBSET Werkers
  /\ Sleutelnemers' \in SUBSET Werkers /\ Urlnemers' \in SUBSET Werkers
  /\ Cardinality(Sleutelnemers) \in Nat /\ Cardinality(Sleutelnemers') \in Nat
  /\ Cardinality(Urlnemers) \in Nat /\ Cardinality(Urlnemers') \in Nat
  /\ Sleutelnemers' \subseteq Sleutelnemers => Cardinality(Sleutelnemers') <= Cardinality(Sleutelnemers)
  /\ Urlnemers' \subseteq Urlnemers => Cardinality(Urlnemers') <= Cardinality(Urlnemers)
  /\ \A w : Sleutelnemers' \subseteq Sleutelnemers \cup {w} =>
              Cardinality(Sleutelnemers') <= Cardinality(Sleutelnemers) + 1
  /\ \A w : Urlnemers' \subseteq Urlnemers \cup {w} => Cardinality(Urlnemers') <= Cardinality(Urlnemers) + 1
  /\ \A w \in Sleutelnemers : Sleutelnemers' \subseteq Sleutelnemers \ {w} =>
       Cardinality(Sleutelnemers') <= Cardinality(Sleutelnemers) - 1
  /\ \A w \in Urlnemers : Urlnemers' \subseteq Urlnemers \ {w} =>
       Cardinality(Urlnemers') <= Cardinality(Urlnemers) - 1
<1>1. /\ Sleutelnemers \in SUBSET Werkers /\ Urlnemers \in SUBSET Werkers
      /\ Sleutelnemers' \in SUBSET Werkers /\ Urlnemers' \in SUBSET Werkers
  BY DEF Sleutelnemers, Urlnemers
<1> QED BY <1>1, Aantal, EenMeer, EenMinder

\* There is room for one more key and one more url.
LEMMA RuimteVrij ==
  ASSUME TypeInv, Ruimte
  PROVE  /\ rijen + Cardinality(Sleutelnemers) + 1 <= MaxRij
         /\ urls + Cardinality(Urlnemers) + 1 <= MaxUrl
<1> DEFINE B == {v \in Werkers : req[v] # Geen \/ aanroep[v] # Geen}
<1>1. Sleutelnemers \subseteq B /\ Urlnemers \subseteq B
  BY DEF Sleutelnemers, Urlnemers
<1>2. Cardinality(Sleutelnemers) <= Cardinality(B) /\ Cardinality(Urlnemers) <= Cardinality(B)
  BY <1>1, Nemers, Aantal, B \in SUBSET Werkers
<1>3. Cardinality(B) \in Nat
  BY Aantal, B \in SUBSET Werkers
<1>4. rijen + Cardinality(B) < MaxRij /\ urls + Cardinality(B) < MaxUrl
  BY DEF Ruimte
<1> QED BY <1>2, <1>3, <1>4, Nemers, ExterneRelatiesAssumption DEF TypeInv, TypeOK

LEMMA KoppelTypen ==
  ASSUME TypeInv, NEW w \in Werkers, NEW r \in Koppelingen, Koppel(w, r)
  PROVE  TypeInv'
<1> USE ExterneRelatiesAssumption, GeenAssumption
<1> DEFINE nieuw == [pk |-> rijen + 1, naar |-> Document, url |-> 0]
<1> DEFINE q == [op |-> "koppel", r |-> r, rij |-> nieuw, naar |-> Document, fase |-> "post"]
<1> DEFINE c == [soort |-> "post", r |-> r, naar |-> Document, url |-> 0, stap |-> "uit"]
<1>1. rijen + 1 \in 1..MaxRij /\ nieuw \in Rij /\ q \in Verzoek /\ c \in Oproep
  BY RuimteVrij, Nemers DEF Koppel, TypeInv, TypeOK, Rij, Verzoek, Oproep, Relaties, Buiten
<1>2. /\ req' = [req EXCEPT ![w] = q] /\ aanroep' = [aanroep EXCEPT ![w] = c]
      /\ rij' = [rij EXCEPT ![r] = nieuw] /\ rijen' = rijen + 1
      /\ req[w] = Geen /\ aanroep[w] = Geen
      /\ UNCHANGED <<spiegel, urls, fouten, geraakt>> /\ samen' \subseteq samen \cup {r}
  BY DEF Koppel, Start, Aanroep
<1> HIDE DEF nieuw, q, c
<1>3. TypeOK'
  BY <1>1, <1>2 DEF TypeInv, TypeOK, Relaties
<1>4. RijenInv'
  BY <1>2 DEF TypeInv, TypeOK, RijenInv, Naar, nieuw
<1>5. Passend(q, c, geraakt')
  BY <1>1, <1>2 DEF Passend, Naar, Fasen, Lezend, Makend, q, nieuw, c
<1>6. VerzoekenInv'
  BY <1>1, <1>2, <1>5 DEF TypeInv, TypeOK, VerzoekenInv, Passend
<1>7. Grenzen'
  <2>1. Sleutelnemers' \subseteq Sleutelnemers /\ Urlnemers' \subseteq Urlnemers \cup {w}
    BY <1>1, <1>2 DEF Sleutelnemers, Urlnemers, TypeInv, TypeOK, q
  <2>2. Ruimte
    BY DEF Koppel
  <2>3. /\ Cardinality(Sleutelnemers') <= Cardinality(Sleutelnemers)
        /\ Cardinality(Urlnemers') <= Cardinality(Urlnemers) + 1
    BY <2>1, Nemers
  <2> QED BY <2>2, <2>3, <1>2, Nemers, RuimteVrij DEF Grenzen, TypeInv, TypeOK
<1> QED BY <1>3, <1>4, <1>5, <1>6, <1>7 DEF TypeInv

LEMMA GrenzenBlijven ==
  ASSUME TypeInv, UNCHANGED <<rijen, urls>>,
         Sleutelnemers' \subseteq Sleutelnemers, Urlnemers' \subseteq Urlnemers
  PROVE  Grenzen'
<1>1. /\ Cardinality(Sleutelnemers') <= Cardinality(Sleutelnemers)
      /\ Cardinality(Urlnemers') <= Cardinality(Urlnemers)
  BY Nemers
<1> QED BY <1>1, Nemers, ExterneRelatiesAssumption DEF TypeInv, TypeOK, Grenzen

\* A request about relation r is read.
LEMMA LeesTypen ==
  ASSUME TypeInv, NEW w \in Werkers,
         \/ \E r \in Koppelingen : OntkoppelLees(w, r)
         \/ \E b \in Besluiten, naar \in Extern \cup Lokaal \cup {Geen} : BesluitLees(w, "verplaats", b, naar)
         \/ \E b \in Besluiten : BesluitLees(w, "verwijder", b, Geen)
  PROVE  TypeInv'
<1> USE ExterneRelatiesAssumption, GeenAssumption
<1>1. PICK op \in {"ontkoppel", "verplaats", "verwijder"}, r \in Relaties :
        /\ rij[r] # Geen /\ Ruimte
        /\ \E naar \in Naar(r) : Start(w, op, r, rij[r], naar, "gelezen")
                                 /\ (op = "verwijder" => naar = Geen)
        /\ op = "ontkoppel" <=> r \in Koppelingen
        /\ UNCHANGED <<rij, spiegel, aanroep, rijen, urls, fouten, geraakt>>
  BY DEF OntkoppelLees, BesluitLees, Relaties, Naar
<1>2. PICK naar \in Naar(r) :
        Start(w, op, r, rij[r], naar, "gelezen") /\ (op = "verwijder" => naar = Geen)
  BY <1>1
<1> DEFINE q == [op |-> op, r |-> r, rij |-> rij[r], naar |-> naar, fase |-> "gelezen"]
<1>3. q \in Verzoek
  BY <1>1 DEF TypeInv, TypeOK, Verzoek, Buiten, Naar
<1>4. /\ req' = [req EXCEPT ![w] = q] /\ req[w] = Geen /\ aanroep[w] = Geen
      /\ samen' \subseteq samen \cup {r}
  BY <1>2 DEF Start
<1>5. rij[r].naar \in Naar(r)
  BY <1>1 DEF TypeInv, RijenInv
<1> HIDE DEF q
<1>6. TypeOK'
  BY <1>1, <1>3, <1>4 DEF TypeInv, TypeOK
<1>7. RijenInv'
  BY <1>1 DEF TypeInv, RijenInv
<1>8. Passend(q, Geen, geraakt)
  BY <1>1, <1>2, <1>5 DEF Passend, Fasen, Lezend, q
<1>9. VerzoekenInv'
  BY <1>1, <1>3, <1>4, <1>8 DEF TypeInv, TypeOK, VerzoekenInv
<1>10. Grenzen'
  <2>1. Sleutelnemers' \subseteq Sleutelnemers \cup {w} /\ Urlnemers' \subseteq Urlnemers \cup {w}
    BY <1>1, <1>3, <1>4 DEF Sleutelnemers, Urlnemers, TypeInv, TypeOK
  <2>2. /\ Cardinality(Sleutelnemers') <= Cardinality(Sleutelnemers) + 1
        /\ Cardinality(Urlnemers') <= Cardinality(Urlnemers) + 1
    BY <2>1, Nemers
  <2> QED BY <2>2, <1>1, Nemers, RuimteVrij DEF Grenzen, TypeInv, TypeOK
<1> QED BY <1>6, <1>7, <1>9, <1>10 DEF TypeInv

\* A request ends, with its call or without.
LEMMA EindeVerzoeken ==
  ASSUME TypeInv, NEW w \in Werkers, req' = [req EXCEPT ![w] = Geen],
         \/ aanroep' = [aanroep EXCEPT ![w] = Geen]
         \/ aanroep' = aanroep /\ (aanroep[w] # Geen => aanroep[w].r \in geraakt'),
         geraakt \subseteq geraakt'
  PROVE  /\ req' \in [Werkers -> Verzoek \cup {Geen}]
         /\ aanroep' \in [Werkers -> Oproep \cup {Geen}]
         /\ VerzoekenInv'
         /\ Sleutelnemers' \subseteq Sleutelnemers \ {w} /\ Urlnemers' \subseteq Urlnemers
<1>1. Passend(Geen, aanroep'[w], geraakt')
  BY DEF TypeInv, TypeOK, VerzoekenInv, Passend
<1>2. VerzoekenInv'
  BY <1>1 DEF TypeInv, TypeOK, VerzoekenInv, Passend
<1> QED BY <1>2 DEF TypeInv, TypeOK, Sleutelnemers, Urlnemers

\* Only the call of w goes on.
LEMMA StapVerzoeken ==
  ASSUME TypeInv, NEW w \in Werkers, aanroep[w] # Geen, UNCHANGED <<req, geraakt>>,
         NEW stap \in {"uit", "nagegaan", "ja", "nee"}, NEW url \in 0..MaxUrl,
         url = aanroep[w].url \/ aanroep[w].soort = "post",
         stap \in {"uit", "nagegaan"} => aanroep[w].stap \in {"uit", "nagegaan"},
         aanroep' = [aanroep EXCEPT ![w].stap = stap, ![w].url = url]
  PROVE  /\ aanroep' \in [Werkers -> Oproep \cup {Geen}]
         /\ VerzoekenInv'
         /\ Sleutelnemers' \subseteq Sleutelnemers /\ Urlnemers' \subseteq Urlnemers
         /\ stap \in {"ja", "nee"} /\ aanroep[w].soort = "post" => w \notin Urlnemers'
<1> USE GeenAssumption
<1> DEFINE c == [aanroep[w] EXCEPT !.stap = stap, !.url = url]
<1>1. aanroep[w] \in Oproep /\ c \in Oproep /\ aanroep' = [aanroep EXCEPT ![w] = c]
  BY DEF TypeInv, TypeOK, Oproep
<1>2. /\ c.soort = aanroep[w].soort /\ c.r = aanroep[w].r /\ c.naar = aanroep[w].naar
      /\ c.url = url /\ c.stap = stap
  BY <1>1 DEF Oproep
<1> HIDE DEF c
<1>3. Passend(req[w], c, geraakt)
  BY <1>1, <1>2 DEF TypeInv, VerzoekenInv, Passend
<1>4. VerzoekenInv'
  BY <1>1, <1>3 DEF TypeInv, TypeOK, VerzoekenInv
<1>5. aanroep' \in [Werkers -> Oproep \cup {Geen}]
  BY <1>1 DEF TypeInv, TypeOK
<1>6. Sleutelnemers' \subseteq Sleutelnemers /\ Urlnemers' \subseteq Urlnemers
  BY <1>1, <1>2 DEF TypeInv, TypeOK, Sleutelnemers, Urlnemers
<1>7. ASSUME stap \in {"ja", "nee"}, aanroep[w].soort = "post"
      PROVE  w \notin Urlnemers'
  BY <1>1, <1>2, <1>7 DEF TypeInv, TypeOK, Urlnemers, VerzoekenInv, Passend, Fasen, Makend, Lezend
<1> QED BY <1>4, <1>5, <1>6, <1>7

\* B goes on with a call, or A no longer waits for it.
LEMMA BTypen ==
  ASSUME TypeInv, NEW w \in Werkers, BNext(w)
  PROVE  TypeInv'
<1> USE ExterneRelatiesAssumption, GeenAssumption
<1>c. aanroep[w] # Geen /\ aanroep[w] \in Oproep
  BY DEF BNext, Controle, Weiger, Maak, Wis, Vervalt, TypeInv, TypeOK
<1>a. aanroep[w].url \in 0..MaxUrl /\ aanroep[w].soort \in {"post", "delete"}
  BY <1>c DEF Oproep
<1>r. UNCHANGED rij => RijenInv'
  BY DEF TypeInv, RijenInv
<1>s. ASSUME NEW stap \in {"uit", "nagegaan", "ja", "nee"}, Stap(w, stap)
      PROVE  aanroep' = [aanroep EXCEPT ![w].stap = stap, ![w].url = aanroep[w].url]
  <2>1. aanroep' = [aanroep EXCEPT ![w] = [aanroep[w] EXCEPT !.stap = stap]]
    BY <1>s DEF Stap
  <2>2. [aanroep[w] EXCEPT !.stap = stap] = [aanroep[w] EXCEPT !.stap = stap, !.url = aanroep[w].url]
    BY <1>c DEF Oproep
  <2> QED BY <2>1, <2>2
<1>1. CASE Controle(w)
  <2>1. PICK stap \in {"nagegaan", "nee"} : Stap(w, stap)
    BY <1>1 DEF Controle
  <2>2. /\ aanroep' \in [Werkers -> Oproep \cup {Geen}]
        /\ VerzoekenInv'
        /\ Sleutelnemers' \subseteq Sleutelnemers /\ Urlnemers' \subseteq Urlnemers
    <3>1. UNCHANGED <<req, geraakt>> /\ aanroep[w].stap = "uit"
      BY <1>1 DEF Controle, tellers
    <3> QED BY <1>c, <1>a, <1>s, <2>1, <3>1, StapVerzoeken
  <2>3. UNCHANGED <<rij, spiegel, req, rijen, urls, fouten, geraakt, samen>>
    BY <1>1 DEF Controle, tellers
  <2>4. Grenzen'
    BY <2>2, <2>3, GrenzenBlijven
  <2> QED BY <1>r, <2>2, <2>3, <2>4 DEF TypeInv, TypeOK
<1>2. CASE Weiger(w)
  <2>1. Stap(w, "nee")
    BY <1>2 DEF Weiger
  <2>2. /\ aanroep' \in [Werkers -> Oproep \cup {Geen}]
        /\ VerzoekenInv'
        /\ Sleutelnemers' \subseteq Sleutelnemers /\ Urlnemers' \subseteq Urlnemers
    <3>1. UNCHANGED <<req, geraakt>> /\ aanroep[w].stap = "uit"
      BY <1>2 DEF Weiger
    <3> QED BY <1>c, <1>a, <1>s, <2>1, <3>1, StapVerzoeken
  <2>3. UNCHANGED <<rij, spiegel, req, rijen, urls, geraakt, samen>>
        /\ fouten' = fouten + 1 /\ fouten < MaxFouten
    BY <1>2 DEF Weiger
  <2>4. Grenzen'
    BY <2>2, <2>3, GrenzenBlijven
  <2> QED BY <1>r, <2>2, <2>3, <2>4 DEF TypeInv, TypeOK
<1>3. CASE Maak(w)
  <2> DEFINE p == <<aanroep[w].r, aanroep[w].naar>>
  <2>0. UNCHANGED <<rij, req, rijen, fouten, geraakt, samen>> /\ aanroep[w].stap = "nagegaan"
        /\ aanroep[w].soort = "post"
    BY <1>3 DEF Maak
  <2>1. CASE spiegel[p] # 0 /\ Stap(w, "nee") /\ UNCHANGED <<spiegel, urls>>
    <3>2. /\ aanroep' \in [Werkers -> Oproep \cup {Geen}]
          /\ VerzoekenInv'
          /\ Sleutelnemers' \subseteq Sleutelnemers /\ Urlnemers' \subseteq Urlnemers
      BY <1>c, <1>a, <1>s, <2>0, <2>1, StapVerzoeken
    <3>4. Grenzen'
      BY <2>0, <2>1, <3>2, GrenzenBlijven
    <3> QED BY <1>r, <2>0, <2>1, <3>2, <3>4 DEF TypeInv, TypeOK
  <2>2. CASE /\ urls' = urls + 1
             /\ spiegel' = [spiegel EXCEPT ![p] = urls']
             /\ aanroep' = [aanroep EXCEPT ![w].stap = "ja", ![w].url = urls']
    <3>1. w \in Urlnemers
      BY <1>c, <2>0 DEF Urlnemers
    <3>2. urls + 1 \in 0..MaxUrl
      <4>1. Cardinality(Urlnemers \ {w}) \in Nat
            /\ Cardinality(Urlnemers \ {w}) <= Cardinality(Urlnemers) - 1
        BY <3>1, Nemers, EenMinder, Aantal
      <4> QED BY <4>1, Nemers DEF TypeInv, TypeOK, Grenzen
    <3>3. /\ aanroep' \in [Werkers -> Oproep \cup {Geen}]
          /\ VerzoekenInv'
          /\ Sleutelnemers' \subseteq Sleutelnemers /\ Urlnemers' \subseteq Urlnemers
          /\ w \notin Urlnemers'
      BY <1>c, <2>0, <2>2, <3>2, StapVerzoeken
    <3>4. /\ Cardinality(Sleutelnemers') <= Cardinality(Sleutelnemers)
          /\ Cardinality(Urlnemers') <= Cardinality(Urlnemers) - 1
      <4>1. Urlnemers' \subseteq Urlnemers \ {w}
        BY <3>3
      <4>2. Cardinality(Urlnemers') <= Cardinality(Urlnemers) - 1
        BY <3>1, <4>1, Nemers
      <4>3. Cardinality(Sleutelnemers') <= Cardinality(Sleutelnemers)
        BY <3>3, Nemers
      <4> QED BY <4>2, <4>3
    <3>5. Grenzen'
      BY <2>0, <2>2, <3>4, Nemers DEF TypeInv, TypeOK, Grenzen
    <3> QED BY <1>r, <2>0, <2>2, <3>2, <3>3, <3>5 DEF TypeInv, TypeOK
  <2> QED BY <1>3, <2>1, <2>2 DEF Maak
<1>4. CASE Wis(w)
  <2>1. Stap(w, "ja")
    BY <1>4 DEF Wis
  <2>2. /\ aanroep' \in [Werkers -> Oproep \cup {Geen}]
        /\ VerzoekenInv'
        /\ Sleutelnemers' \subseteq Sleutelnemers /\ Urlnemers' \subseteq Urlnemers
    <3>1. UNCHANGED <<req, geraakt>>
      BY <1>4 DEF Wis, tellers
    <3> QED BY <1>c, <1>a, <1>s, <2>1, <3>1, StapVerzoeken
  <2>3. UNCHANGED <<rij, req, rijen, urls, fouten, geraakt, samen>>
    BY <1>4 DEF Wis, tellers
  <2>5. spiegel' \in [Paren -> 0..MaxUrl]
    <3>1. PICK p : spiegel' = [spiegel EXCEPT ![p] = IF @ = aanroep[w].url THEN 0 ELSE @]
      BY <1>4 DEF Wis
    <3>2. spiegel \in [Paren -> 0..MaxUrl] /\ 0 \in 0..MaxUrl
      BY DEF TypeInv, TypeOK
    <3> QED BY <3>1, <3>2
  <2>4. Grenzen'
    BY <2>2, <2>3, GrenzenBlijven
  <2> QED BY <1>r, <2>2, <2>3, <2>4, <2>5 DEF TypeInv, TypeOK
<1>5. CASE Vervalt(w)
  <2>1. UNCHANGED <<rij, spiegel, req, rijen, urls, fouten, geraakt, samen>>
        /\ req[w] = Geen /\ aanroep' = [aanroep EXCEPT ![w] = Geen]
    BY <1>5 DEF Vervalt, tellers
  <2>2. req' = [req EXCEPT ![w] = Geen]
    BY <2>1 DEF TypeInv, TypeOK
  <2>3. /\ aanroep' \in [Werkers -> Oproep \cup {Geen}]
        /\ VerzoekenInv'
        /\ Sleutelnemers' \subseteq Sleutelnemers /\ Urlnemers' \subseteq Urlnemers
    BY <2>1, <2>2, EindeVerzoeken
  <2>4. Grenzen'
    BY <2>1, <2>3, GrenzenBlijven
  <2> QED BY <1>r, <2>1, <2>3, <2>4 DEF TypeInv, TypeOK
<1> QED BY <1>1, <1>2, <1>3, <1>4, <1>5 DEF BNext

RijenTypen == rij \in [Relaties -> Rij \cup {Geen}] /\ RijenInv

\* A row is written, or removed, or none is.
LEMMA RijGezet ==
  ASSUME TypeInv, NEW r \in Relaties, NEW x \in Rij \cup {Geen}, x # Geen => x.naar \in Naar(r),
         rij' = [rij EXCEPT ![r] = x] \/ rij' = rij
  PROVE  RijenTypen'
BY DEF TypeInv, TypeOK, RijenInv, RijenTypen

\* What a request may write: the row it read, or what it asks for
LEMMA VerzoekRij ==
  ASSUME TypeInv, NEW w \in Werkers, req[w] # Geen, NEW url \in 0..MaxUrl
  PROVE  LET q == req[w] IN
         /\ q.r \in Relaties /\ q.rij \in Rij /\ q.rij.naar \in Naar(q.r)
         /\ [q.rij EXCEPT !.url = url] \in Rij
         /\ [q.rij EXCEPT !.url = url].naar = q.rij.naar
         /\ q.r \in Besluiten => [q.rij EXCEPT !.naar = q.naar, !.url = url] \in Rij
         /\ [q.rij EXCEPT !.naar = q.naar, !.url = url].naar = q.naar
         /\ q.naar \in Naar(q.r) /\ q.rij.url \in 0..MaxUrl
<1>1. req[w] \in Verzoek
  BY DEF TypeInv, TypeOK
<1>2. Passend(req[w], aanroep[w], geraakt)
  BY DEF TypeInv, VerzoekenInv
<1> QED BY <1>1, <1>2, ExterneRelatiesAssumption DEF Verzoek, Rij, Passend, Naar, Relaties

LEMMA EindeTypen ==
  ASSUME TypeInv, NEW w \in Werkers, req' = [req EXCEPT ![w] = Geen],
         \/ aanroep' = [aanroep EXCEPT ![w] = Geen]
         \/ aanroep' = aanroep /\ (aanroep[w] # Geen => aanroep[w].r \in geraakt'),
         geraakt \subseteq geraakt', geraakt' \subseteq Relaties, fouten' \in 0..MaxFouten,
         UNCHANGED <<rijen, urls, samen>>, RijenTypen', spiegel' \in [Paren -> 0..MaxUrl]
  PROVE  TypeInv'
<1>1. /\ req' \in [Werkers -> Verzoek \cup {Geen}]
      /\ aanroep' \in [Werkers -> Oproep \cup {Geen}]
      /\ VerzoekenInv'
      /\ Sleutelnemers' \subseteq Sleutelnemers /\ Urlnemers' \subseteq Urlnemers
  BY EindeVerzoeken
<1>2. Grenzen'
  BY <1>1, GrenzenBlijven
<1> QED BY <1>1, <1>2 DEF TypeInv, TypeOK, RijenTypen

LEMMA JaTypen ==
  ASSUME TypeInv, NEW w \in Werkers,
         KoppelJa(w) \/ OntkoppelJa(w) \/ BesluitJa(w) \/ VerwijderJa(w)
  PROVE  TypeInv'
<1> USE ExterneRelatiesAssumption, GeenAssumption
<1> DEFINE q == req[w]
<1>1. /\ req[w] # Geen /\ aanroep[w] # Geen /\ UNCHANGED tellers
      /\ req' = [req EXCEPT ![w] = Geen] /\ aanroep' = [aanroep EXCEPT ![w] = Geen]
  BY DEF KoppelJa, OntkoppelJa, BesluitJa, VerwijderJa, Ja, Klaar, Einde
<1>2. aanroep[w].url \in 0..MaxUrl
  BY <1>1 DEF TypeInv, TypeOK, Oproep
<1>3. RijenTypen'
  <2>1. CASE KoppelJa(w)
    BY <2>1, <1>1, <1>2, VerzoekRij, RijGezet DEF KoppelJa, Gekoppeld
  <2>2. CASE OntkoppelJa(w)
    BY <2>2 DEF OntkoppelJa, TypeInv, TypeOK, RijenTypen, RijenInv
  <2>3. CASE BesluitJa(w)
    <3>1. q.r \in Besluiten
      BY <2>3, <1>1 DEF BesluitJa, TypeInv, TypeOK, VerzoekenInv, Passend, Fasen, Verzoek, Relaties
    <3> QED BY <2>3, <3>1, <1>1, <1>2, VerzoekRij, RijGezet DEF BesluitJa, LegVast
  <2>4. CASE VerwijderJa(w)
    BY <2>4, <1>1, <1>2, VerzoekRij, RijGezet DEF VerwijderJa, Verwijderd, Teruggenomen
  <2> QED BY <2>1, <2>2, <2>3, <2>4
<1>4. spiegel' \in [Paren -> 0..MaxUrl]
  BY DEF KoppelJa, OntkoppelJa, BesluitJa, VerwijderJa, LegVast, Gelijkgetrokken, Verwijderd, TypeInv, TypeOK
<1> QED BY <1>1, <1>3, <1>4, EindeTypen DEF tellers, TypeInv, TypeOK

LEMMA NeeTypen ==
  ASSUME TypeInv, NEW w \in Werkers,
         KoppelNee(w) \/ BesluitNee(w) \/ Crash(w)
  PROVE  TypeInv'
<1> USE ExterneRelatiesAssumption, GeenAssumption
<1>1. /\ req[w] # Geen /\ req' = [req EXCEPT ![w] = Geen]
      /\ \/ aanroep' = [aanroep EXCEPT ![w] = Geen]
         \/ aanroep' = aanroep /\ (aanroep[w] # Geen => req[w].r \in geraakt')
      /\ geraakt' \in {geraakt, geraakt \cup {req[w].r}}
      /\ UNCHANGED <<rijen, urls, samen, spiegel>>
      /\ fouten' = fouten \/ (fouten < MaxFouten /\ fouten' = fouten + 1)
  BY DEF KoppelNee, BesluitNee, Crash, Nee, Einde
<1>2. req[w].r \in Relaties /\ (aanroep[w] # Geen => aanroep[w].r = req[w].r)
  <2>1. req[w] \in Verzoek /\ Passend(req[w], aanroep[w], geraakt)
    BY <1>1 DEF TypeInv, TypeOK, VerzoekenInv
  <2> QED BY <1>1, <2>1 DEF Passend, Verzoek
<1>3. RijenTypen'
  <2>1. CASE KoppelNee(w)
    BY <2>1, <1>1, <1>2, RijGezet DEF KoppelNee, Teruggenomen
  <2>2. CASE BesluitNee(w) \/ Crash(w)
    BY <2>2 DEF BesluitNee, Crash, TypeInv, TypeOK, RijenTypen, RijenInv
  <2> QED BY <2>1, <2>2
<1>4. fouten' \in 0..MaxFouten /\ spiegel' \in [Paren -> 0..MaxUrl] /\ geraakt' \subseteq Relaties
      /\ geraakt \subseteq geraakt'
  BY <1>1, <1>2 DEF TypeInv, TypeOK
<1> QED BY <1>1, <1>2, <1>3, <1>4, EindeTypen

LEMMA OntkoppelNeeTypen ==
  ASSUME TypeInv, NEW w \in Werkers, OntkoppelNee(w)
  PROVE  TypeInv'
<1> USE ExterneRelatiesAssumption, GeenAssumption
<1> DEFINE q == req[w]
<1>1. /\ req[w] # Geen /\ req' = [req EXCEPT ![w] = Geen]
      /\ \/ aanroep' = [aanroep EXCEPT ![w] = Geen]
         \/ aanroep' = aanroep /\ (aanroep[w] # Geen => req[w].r \in geraakt')
      /\ geraakt' \in {geraakt, geraakt \cup {req[w].r}}
      /\ UNCHANGED <<urls, samen, spiegel>> /\ rijen' = rijen + 1
      /\ fouten' = fouten \/ (fouten < MaxFouten /\ fouten' = fouten + 1)
  BY DEF OntkoppelNee, Nee, Einde
<1>2. req[w].r \in Relaties /\ (aanroep[w] # Geen => aanroep[w].r = req[w].r)
  <2>1. req[w] \in Verzoek /\ Passend(req[w], aanroep[w], geraakt)
    BY <1>1 DEF TypeInv, TypeOK, VerzoekenInv
  <2> QED BY <1>1, <2>1 DEF Passend, Verzoek
<1>3. /\ req' \in [Werkers -> Verzoek \cup {Geen}]
      /\ aanroep' \in [Werkers -> Oproep \cup {Geen}]
      /\ VerzoekenInv'
      /\ Sleutelnemers' \subseteq Sleutelnemers \ {w} /\ Urlnemers' \subseteq Urlnemers
  BY <1>1, <1>2, EindeVerzoeken
<1>4. w \in Sleutelnemers
  BY <1>1 DEF OntkoppelNee, Sleutelnemers
<1>5. /\ Cardinality(Sleutelnemers') <= Cardinality(Sleutelnemers) - 1
      /\ Cardinality(Urlnemers') <= Cardinality(Urlnemers)
  BY <1>3, <1>4, Nemers
<1>6. Grenzen' /\ rijen + 1 \in 1..MaxRij
  BY <1>1, <1>5, Nemers DEF TypeInv, TypeOK, Grenzen
<1>7. RijenTypen'
  <2>0. q.rij \in Rij /\ q.rij.naar \in Naar(q.r)
    <3>1. 0 \in 0..MaxUrl
      OBVIOUS
    <3> QED BY <1>1, <3>1, VerzoekRij
  <2>1. [q.rij EXCEPT !.pk = rijen + 1] \in Rij /\ [q.rij EXCEPT !.pk = rijen + 1].naar \in Naar(q.r)
    BY <1>6, <2>0 DEF Rij
  <2> QED BY <1>1, <1>2, <2>1, RijGezet DEF OntkoppelNee, Hersteld
<1> QED BY <1>1, <1>2, <1>3, <1>6, <1>7 DEF TypeInv, TypeOK, RijenTypen

\* A request about a besluit, or the removal of a relation, goes on or ends without a call.
LEMMA OntkoppelTypen ==
  ASSUME TypeInv, NEW w \in Werkers, req[w] # Geen, Ontkoppel(w, req[w].r)
  PROVE  TypeInv'
<1> USE ExterneRelatiesAssumption, GeenAssumption
<1>1. /\ req[w] \in Verzoek /\ Passend(req[w], aanroep[w], geraakt)
      /\ req[w].op = "ontkoppel" /\ req[w].fase = "gelezen" /\ UNCHANGED <<spiegel, tellers>>
  BY DEF Ontkoppel, TypeInv, TypeOK, VerzoekenInv
<1>2. aanroep[w] = Geen /\ req[w].r \in Koppelingen /\ req[w].rij.naar = Document
  BY <1>1 DEF Passend, Lezend, Naar
<1>3. RijenTypen'
  BY <1>1, RijGezet DEF Ontkoppel, Teruggenomen, Verzoek
<1>4. CASE req[w].rij.url = 0
  <2>1. req' = [req EXCEPT ![w] = Geen] /\ UNCHANGED aanroep
    BY <1>4 DEF Ontkoppel, Einde
  <2> QED BY <1>1, <1>2, <1>3, <2>1, EindeTypen DEF tellers, TypeInv, TypeOK
<1>5. CASE req[w].rij.url # 0
  <2> DEFINE q == [req[w] EXCEPT !.fase = "delete"]
  <2> DEFINE c == [soort |-> "delete", r |-> req[w].r, naar |-> Document, url |-> req[w].rij.url,
                   stap |-> "uit"]
  <2>1. req' = [req EXCEPT ![w] = q] /\ aanroep' = [aanroep EXCEPT ![w] = c]
    BY <1>5 DEF Ontkoppel, Fase, Aanroep
  <2>2. q \in Verzoek /\ c \in Oproep
    BY <1>1, <1>2 DEF Verzoek, Oproep, Buiten, Rij
  <2>3. /\ q.op = "ontkoppel" /\ q.fase = "delete" /\ q.r = req[w].r /\ q.rij = req[w].rij
        /\ q.naar = req[w].naar
    BY <1>1 DEF Verzoek
  <2>4. Passend(q, c, geraakt)
    BY <1>1, <1>2, <1>5, <2>2, <2>3 DEF Passend, Fasen, Lezend, Makend, Naar
  <2> HIDE DEF q
  <2>5. VerzoekenInv'
    BY <1>1, <2>1, <2>2, <2>4 DEF TypeInv, TypeOK, VerzoekenInv, tellers
  <2>6. Sleutelnemers' \subseteq Sleutelnemers /\ Urlnemers' \subseteq Urlnemers
    BY <1>1, <2>1, <2>2, <2>3 DEF Sleutelnemers, Urlnemers, TypeInv, TypeOK
  <2>7. Grenzen'
    BY <1>1, <2>6, GrenzenBlijven DEF tellers
  <2> QED BY <1>1, <1>3, <2>1, <2>2, <2>5, <2>7 DEF TypeInv, TypeOK, tellers, RijenTypen
<1> QED BY <1>4, <1>5

\* The mirrors after a step on a besluit
LEMMA SpiegelTypen ==
  ASSUME TypeInv, NEW b, NEW oud, NEW naar
  PROVE  Gelijkgetrokken(b, oud, naar) \in [Paren -> 0..MaxUrl]
BY ExterneRelatiesAssumption DEF TypeInv, TypeOK, Gelijkgetrokken

\* A request about a besluit calls B, for the first time or again.
LEMMA RoeptTypen ==
  ASSUME TypeInv, NEW w \in Werkers, req[w] # Geen, req[w].op \in {"verplaats", "verwijder"},
         NEW fase \in {"delete_in_transactie", "post_in_transactie"}, <<req[w].op, fase>> \in Fasen,
         NEW c \in Oproep, c.r = req[w].r, c.stap = "uit",
         fase = "delete_in_transactie" =>
           /\ c.soort = "delete" /\ c.naar = req[w].rij.naar /\ c.url = req[w].rij.url /\ c.url # 0
           /\ req[w].fase \in Lezend,
         fase = "post_in_transactie" =>
           /\ c.soort = "post" /\ c.naar = req[w].naar
           /\ req[w].fase \in Lezend \cup {"delete_in_transactie"},
         req[w].op = "verplaats" => req[w].naar \in Extern /\ req[w].naar # req[w].rij.naar,
         Fase(w, fase), aanroep' = [aanroep EXCEPT ![w] = c], UNCHANGED <<rij, spiegel, tellers>>
  PROVE  TypeInv'
<1> USE ExterneRelatiesAssumption, GeenAssumption
<1> DEFINE q == [req[w] EXCEPT !.fase = fase]
<1>1. req[w] \in Verzoek /\ Passend(req[w], aanroep[w], geraakt)
  BY DEF TypeInv, TypeOK, VerzoekenInv
<1>2. req' = [req EXCEPT ![w] = q] /\ q \in Verzoek
  BY <1>1 DEF Fase, Verzoek
<1>3. /\ q.op = req[w].op /\ q.fase = fase /\ q.r = req[w].r /\ q.rij = req[w].rij
      /\ q.naar = req[w].naar
  BY <1>1 DEF Verzoek
<1> HIDE DEF q
<1>4. Passend(q, c, geraakt)
  BY <1>1, <1>2, <1>3 DEF Passend, Fasen, Lezend, Makend
<1>5. VerzoekenInv'
  BY <1>2, <1>4 DEF TypeInv, TypeOK, VerzoekenInv, tellers
<1>6. Sleutelnemers' \subseteq Sleutelnemers /\ Urlnemers' \subseteq Urlnemers
  <2>1. \A v \in Werkers \ {w} : req'[v] = req[v] /\ aanroep'[v] = aanroep[v]
    BY <1>2 DEF TypeInv, TypeOK
  <2>2. req'[w] = q /\ aanroep'[w] = c
    BY <1>2 DEF TypeInv, TypeOK
  <2>3. w \in Urlnemers' => w \in Urlnemers
    BY <1>1, <1>3, <2>2 DEF Urlnemers, Fasen, Lezend
  <2>4. w \in Sleutelnemers' => w \in Sleutelnemers
    BY <1>3, <2>2 DEF Sleutelnemers
  <2> QED BY <2>1, <2>3, <2>4 DEF Sleutelnemers, Urlnemers
<1>7. Grenzen'
  BY <1>6, GrenzenBlijven DEF tellers
<1> QED BY <1>2, <1>5, <1>7 DEF TypeInv, TypeOK, tellers, RijenInv

LEMMA BesluitMaakTypen ==
  ASSUME TypeInv, NEW w \in Werkers, NEW b \in Besluiten, NEW naar \in Extern \cup Lokaal \cup {Geen},
         BesluitMaak(w, b, naar)
  PROVE  TypeInv'
<1> USE ExterneRelatiesAssumption, GeenAssumption
<1> DEFINE nieuw == [pk |-> rijen + 1, naar |-> Geen, url |-> 0]
<1> DEFINE q == [op |-> "besluit", r |-> b, rij |-> nieuw, naar |-> naar, fase |-> "post_in_transactie"]
<1> DEFINE c == [soort |-> "post", r |-> b, naar |-> naar, url |-> 0, stap |-> "uit"]
<1>1. rijen' = rijen + 1 /\ Ruimte /\ UNCHANGED <<urls, fouten, geraakt>>
  BY DEF BesluitMaak
<1>2. rijen + 1 \in 1..MaxRij
  BY <1>1, RuimteVrij, Nemers DEF TypeInv, TypeOK
<1>3. ASSUME Sleutelnemers' \subseteq Sleutelnemers, Urlnemers' \subseteq Urlnemers \cup {w}
      PROVE  Grenzen'
  <2>1. /\ Cardinality(Sleutelnemers') <= Cardinality(Sleutelnemers)
        /\ Cardinality(Urlnemers') <= Cardinality(Urlnemers) + 1
    BY <1>3, Nemers
  <2> QED BY <2>1, <1>1, Nemers, RuimteVrij DEF Grenzen, TypeInv, TypeOK
<1>4. nieuw \in Rij
  BY <1>2 DEF Rij
<1>5. CASE naar \in Extern
  <2>1. /\ req' = [req EXCEPT ![w] = q] /\ aanroep' = [aanroep EXCEPT ![w] = c]
        /\ req[w] = Geen /\ aanroep[w] = Geen
        /\ UNCHANGED <<rij, spiegel>> /\ samen' \subseteq samen \cup {b}
    BY <1>1, <1>5 DEF BesluitMaak, Start, Aanroep
  <2>2. q \in Verzoek /\ c \in Oproep
    BY <1>4, <1>5 DEF Verzoek, Oproep, Relaties, Buiten
  <2>3. Passend(q, c, geraakt)
    BY <1>5, <2>2 DEF Passend, Naar, Fasen, Lezend, Makend
  <2> HIDE DEF q, c
  <2>4. VerzoekenInv'
    BY <1>1, <2>1, <2>2, <2>3 DEF TypeInv, TypeOK, VerzoekenInv
  <2>5. Sleutelnemers' \subseteq Sleutelnemers /\ Urlnemers' \subseteq Urlnemers \cup {w}
    BY <2>1, <2>2 DEF Sleutelnemers, Urlnemers, TypeInv, TypeOK, q
  <2>6. Grenzen'
    BY <1>3, <2>5
  <2>7. b \in Relaties
    BY DEF Relaties
  <2> QED BY <1>1, <1>2, <2>1, <2>2, <2>4, <2>6, <2>7 DEF TypeInv, TypeOK, RijenInv
<1>6. CASE naar \notin Extern
  <2>1. UNCHANGED <<req, aanroep, samen>> /\ LegVast(b, nieuw, naar, 0)
    BY <1>1, <1>6 DEF BesluitMaak
  <2>2. /\ [nieuw EXCEPT !.naar = naar, !.url = 0] \in Rij
        /\ [nieuw EXCEPT !.naar = naar, !.url = 0].naar = naar
    BY <1>2, <1>4 DEF Rij
  <2>3. b \in Relaties /\ naar \in Naar(b)
    BY DEF Relaties, Naar
  <2>4. RijenTypen'
    BY <2>1, <2>2, <2>3, RijGezet DEF LegVast
  <2>5. spiegel' \in [Paren -> 0..MaxUrl]
    BY <2>1, SpiegelTypen DEF LegVast, TypeInv, TypeOK
  <2>6. VerzoekenInv'
    BY <1>1, <2>1 DEF TypeInv, VerzoekenInv
  <2>7. Grenzen'
    BY <1>3, <2>1 DEF Sleutelnemers, Urlnemers
  <2> QED BY <1>1, <1>2, <2>1, <2>4, <2>5, <2>6, <2>7 DEF TypeInv, TypeOK, RijenTypen
<1> QED BY <1>5, <1>6

\* A besluit that was read is moved, or deleted, or the request goes on.
LEMMA BesluitTypen ==
  ASSUME TypeInv, NEW w \in Werkers, req[w] # Geen,
         \/ Wacht(w, req[w].r) \/ Verplaats(w, req[w].r) \/ Verwijder(w, req[w].r)
         \/ VerplaatsVerder(w)
  PROVE  TypeInv'
<1> USE ExterneRelatiesAssumption, GeenAssumption
<1> DEFINE i == req[w].rij
<1> DEFINE naar == req[w].naar
<1> DEFINE b == req[w].r
<1> DEFINE call(soort, x, url) ==
             [soort |-> soort, r |-> b, naar |-> x, url |-> url, stap |-> "uit"]
<1>1. /\ req[w] \in Verzoek /\ Passend(req[w], aanroep[w], geraakt)
      /\ req[w].op \in {"verplaats", "verwijder"} /\ UNCHANGED tellers
  BY DEF Wacht, Verplaats, Verwijder, VerplaatsVerder, Ja, TypeInv, TypeOK, VerzoekenInv, tellers
<1>2. /\ b \in Besluiten /\ i \in Rij /\ i.naar \in Naar(b) /\ naar \in Naar(b) /\ i.url \in 0..MaxUrl
      /\ Naar(b) = Extern \cup Lokaal \cup {Geen}
  BY <1>1 DEF Passend, Verzoek, Relaties, Rij, Naar
<1>3. ASSUME NEW x \in Extern, NEW url \in 0..MaxUrl, NEW soort \in {"post", "delete"}
      PROVE  call(soort, x, url) \in Oproep
  BY <1>2, <1>3 DEF Oproep, Relaties, Buiten
<1>10. naar \in Extern => call("post", naar, 0) \in Oproep
  <2>1. 0 \in 0..MaxUrl
    OBVIOUS
  <2> QED BY <1>3, <2>1
<1>4. CASE Wacht(w, b)
  <2> DEFINE q == [req[w] EXCEPT !.fase = "wacht"]
  <2>1. req' = [req EXCEPT ![w] = q] /\ UNCHANGED <<rij, spiegel, aanroep, tellers>>
        /\ req[w].op = "verplaats" /\ req[w].fase = "gelezen"
    BY <1>4 DEF Wacht, Fase
  <2>2. q \in Verzoek /\ q.op = req[w].op /\ q.fase = "wacht" /\ q.r = b /\ q.rij = i /\ q.naar = naar
    BY <1>1 DEF Verzoek
  <2> HIDE DEF q
  <2>3. Passend(q, aanroep[w], geraakt)
    BY <1>1, <2>1, <2>2 DEF Passend, Fasen, Lezend, Makend
  <2>4. VerzoekenInv'
    BY <2>1, <2>2, <2>3 DEF TypeInv, TypeOK, VerzoekenInv, tellers
  <2>5. Sleutelnemers' \subseteq Sleutelnemers /\ Urlnemers' \subseteq Urlnemers
    <3>1. \A v \in Werkers \ {w} : req'[v] = req[v] /\ aanroep'[v] = aanroep[v]
      BY <2>1 DEF TypeInv, TypeOK
    <3>2. req'[w] = q /\ aanroep'[w] = aanroep[w]
      BY <2>1 DEF TypeInv, TypeOK
    <3> QED BY <2>1, <2>2, <3>1, <3>2 DEF Sleutelnemers, Urlnemers, Lezend
  <2>6. Grenzen'
    BY <2>1, <2>5, GrenzenBlijven DEF tellers
  <2> QED BY <2>1, <2>2, <2>4, <2>6 DEF TypeInv, TypeOK, tellers, RijenInv
<1>5. ASSUME req[w].fase \in Lezend, Einde(w), UNCHANGED aanroep, RijenTypen',
             spiegel' \in [Paren -> 0..MaxUrl]
      PROVE  TypeInv'
  <2>1. aanroep[w] = Geen
    BY <1>1, <1>5 DEF Passend
  <2> QED BY <1>1, <1>5, <2>1, EindeTypen DEF Einde, tellers, TypeInv, TypeOK
<1>6. UNCHANGED <<rij, spiegel>> => RijenTypen' /\ spiegel' \in [Paren -> 0..MaxUrl]
  BY DEF TypeInv, TypeOK, RijenTypen, RijenInv
<1>7. CASE Verplaats(w, b)
  <2>1. req[w].op = "verplaats" /\ req[w].fase \in Lezend
    BY <1>7 DEF Verplaats, Lezend
  <2>2. CASE Einde(w) /\ UNCHANGED <<rij, spiegel, aanroep>>
    BY <1>5, <1>6, <2>1, <2>2
  <2>3. CASE LegVast(b, i, naar, i.url) /\ Einde(w) /\ UNCHANGED aanroep
    <3>1. [i EXCEPT !.naar = naar, !.url = i.url] \in Rij
          /\ [i EXCEPT !.naar = naar, !.url = i.url].naar = naar /\ b \in Relaties
      BY <1>2 DEF Rij, Relaties
    <3>2. RijenTypen'
      BY <1>2, <2>3, <3>1, RijGezet DEF LegVast
    <3>3. spiegel' \in [Paren -> 0..MaxUrl]
      BY <2>3, SpiegelTypen DEF LegVast, TypeInv, TypeOK
    <3> QED BY <1>5, <2>1, <2>3, <3>2, <3>3
  <2>4. CASE /\ naar # i.naar /\ naar \in Extern /\ i.naar \in Extern /\ i.url # 0
             /\ Fase(w, "delete_in_transactie") /\ Aanroep(w, "delete", b, i.naar, i.url)
             /\ UNCHANGED <<rij, spiegel>>
    BY <1>1, <1>2, <1>3, <2>1, <2>4, RoeptTypen DEF Aanroep, Fasen
  <2>5. CASE /\ naar # i.naar /\ naar \in Extern
             /\ Fase(w, "post_in_transactie") /\ Aanroep(w, "post", b, naar, 0)
             /\ UNCHANGED <<rij, spiegel>>
    <3>1. aanroep' = [aanroep EXCEPT ![w] = call("post", naar, 0)]
      BY <2>5 DEF Aanroep
    <3> QED BY <1>1, <1>10, <2>1, <2>5, <3>1, RoeptTypen DEF Fasen
  <2> QED BY <1>7, <2>2, <2>3, <2>4, <2>5 DEF Verplaats
<1>8. CASE Verwijder(w, b)
  <2>1. req[w].op = "verwijder" /\ req[w].fase \in Lezend
    BY <1>8 DEF Verwijder, Lezend
  <2>2. CASE Einde(w) /\ UNCHANGED <<rij, spiegel, aanroep>>
    BY <1>5, <1>6, <2>1, <2>2
  <2>3. CASE Verwijderd(b, i) /\ Einde(w) /\ UNCHANGED aanroep
    <3>1. RijenTypen'
      BY <1>2, <2>3, RijGezet DEF Verwijderd, Teruggenomen, Relaties
    <3>2. spiegel' \in [Paren -> 0..MaxUrl]
      BY <2>3 DEF Verwijderd, TypeInv, TypeOK
    <3> QED BY <1>5, <2>1, <2>3, <3>1, <3>2
  <2>4. CASE /\ i.naar \in Extern /\ i.url # 0
             /\ Fase(w, "delete_in_transactie") /\ Aanroep(w, "delete", b, i.naar, i.url)
             /\ UNCHANGED <<rij, spiegel>>
    BY <1>1, <1>2, <1>3, <2>1, <2>4, RoeptTypen DEF Aanroep, Fasen
  <2> QED BY <1>8, <2>2, <2>3, <2>4 DEF Verwijder
<1>9. CASE VerplaatsVerder(w)
  <2>1. /\ req[w].op = "verplaats" /\ req[w].fase = "delete_in_transactie"
        /\ Fase(w, "post_in_transactie") /\ Aanroep(w, "post", b, naar, 0)
        /\ UNCHANGED <<rij, spiegel>>
    BY <1>9 DEF VerplaatsVerder
  <2>2. naar \in Extern /\ naar # i.naar
    BY <1>1, <2>1 DEF Passend
  <2>3. aanroep' = [aanroep EXCEPT ![w] = call("post", naar, 0)]
    BY <2>1 DEF Aanroep
  <2> QED BY <1>1, <1>10, <2>1, <2>2, <2>3, RoeptTypen DEF Fasen
<1> QED BY <1>4, <1>7, <1>8, <1>9

LEMMA ZaakbesluitTypen ==
  ASSUME TypeInv, NEW b \in Besluiten, NEW z \in Lokaal, ZaakbesluitWis(b, z)
  PROVE  TypeInv'
<1>1. UNCHANGED <<rij, req, aanroep, rijen, urls, fouten, geraakt, samen>>
      /\ spiegel' = [spiegel EXCEPT ![<<b, z>>] = 0]
  BY DEF ZaakbesluitWis, tellers
<1>2. spiegel' \in [Paren -> 0..MaxUrl]
  <2>1. 0 \in 0..MaxUrl
    BY ExterneRelatiesAssumption
  <2> QED BY <1>1, <2>1 DEF TypeInv, TypeOK
<1>3. Grenzen'
  BY <1>1, GrenzenBlijven DEF Sleutelnemers, Urlnemers
<1> QED BY <1>1, <1>2, <1>3 DEF TypeInv, TypeOK, RijenInv, VerzoekenInv

LEMMA TypeStap == TypeInv /\ [Next]_vars => TypeInv'
<1> SUFFICES ASSUME TypeInv, [Next]_vars PROVE TypeInv'
  OBVIOUS
<1>1. ASSUME NEW w \in Werkers, KoppelNext(w) PROVE TypeInv'
  BY <1>1, KoppelTypen, LeesTypen, OntkoppelTypen, JaTypen, NeeTypen, OntkoppelNeeTypen DEF KoppelNext
<1>2. ASSUME NEW w \in Werkers, BesluitNext(w) PROVE TypeInv'
  BY <1>2, BesluitMaakTypen, LeesTypen, BesluitTypen, JaTypen, NeeTypen DEF BesluitNext
<1>3. ASSUME NEW w \in Werkers, BNext(w) \/ Crash(w) PROVE TypeInv'
  BY <1>3, BTypen, NeeTypen
<1>4. CASE UNCHANGED vars
  BY <1>4, GrenzenBlijven
  DEF vars, tellers, TypeInv, TypeOK, RijenInv, VerzoekenInv, Sleutelnemers, Urlnemers
<1> QED BY <1>1, <1>2, <1>3, <1>4, ZaakbesluitTypen DEF Next

LEMMA TypeBegin == Init => TypeInv
<1> USE ExterneRelatiesAssumption
<1> SUFFICES ASSUME Init PROVE TypeInv
  OBVIOUS
<1>1. TypeOK /\ RijenInv /\ VerzoekenInv
  BY DEF Init, TypeOK, RijenInv, VerzoekenInv, Passend
<1>2. Sleutelnemers = {} /\ Urlnemers = {}
  BY DEF Init, Sleutelnemers, Urlnemers
<1> QED BY <1>1, <1>2, FS_EmptySet DEF Init, Grenzen, TypeInv

\* The variables have their types, and requests stay within the bounds.
THEOREM TypeCorrect == Spec => []TypeOK
<1>1. Init => TypeInv
  BY TypeBegin
<1>2. TypeInv => TypeOK
  BY DEF TypeInv
<1> QED BY <1>1, <1>2, TypeStap, PTL DEF Spec

-----------------------------------------------------------------------------
(* Both sides agree *)

LEMMA Buitenstaand ==
  /\ Geen \notin Buiten /\ Document \in Buiten /\ Extern \subseteq Buiten
  /\ \A x \in Lokaal : x \notin Buiten
  /\ \A r \in Koppelingen : <<r, Document>> \in Paren /\ r \in Relaties /\ r \notin Besluiten
  /\ \A b \in Besluiten, x \in Extern \cup Lokaal : <<b, x>> \in Paren
  /\ \A b \in Besluiten : b \in Relaties /\ b \notin Koppelingen
BY ExterneRelatiesAssumption DEF Buiten, Paren, Relaties

LEMMA GelijkSpiegels ==
  ASSUME NEW r \in Relaties
  PROVE  Gelijk(r) <=> IF rij[r] = Geen THEN Spiegels(r, Geen, 0) ELSE Spiegels(r, rij[r].naar, rij[r].url)
BY Buitenstaand DEF Gelijk, Spiegels

\* A step of w that is about r only
Plaatselijk(w, r) ==
  /\ req[w] # Geen => req[w].r = r
  /\ req'[w] # Geen => req'[w].r = r
  /\ \A v \in Werkers \ {w} : req'[v] = req[v] /\ aanroep'[v] = aanroep[v]
  /\ \A x \in Relaties \ {r} : rij'[x] = rij[x]
  /\ \A x \in Relaties \ {r} : \A y : <<x, y>> \in Paren => spiegel'[<<x, y>>] = spiegel[<<x, y>>]
  /\ samen \subseteq samen' /\ geraakt \subseteq geraakt'

\* What it must bring about for r
Resultaat(w, r) ==
  r \notin samen' =>
    /\ \A v \in Werkers \ {w} : ~Bezig(v, r)
    /\ req'[w] # Geen => rij'[r] = GelezenRij(req'[w])
    /\ r \notin geraakt' => IF req'[w] # Geen THEN Verwacht(w)' ELSE Gelijk(r)'
    /\ r \in Besluiten /\ rij'[r] # Geen /\ rij'[r].naar \in Lokaal =>
         spiegel'[<<r, rij'[r].naar>>] # 0

\* The rest stays as it is.
LEMMA PlaatselijkeStap ==
  ASSUME TypeInv, TypeInv', RelatieInv, NEW w \in Werkers, NEW r \in Relaties,
         Plaatselijk(w, r), Resultaat(w, r)
  PROVE  RelatieInv'
<1> USE DEF Plaatselijk, Resultaat
<1>1. \A v \in Werkers, x \in Relaties : x # r => (Bezig(v, x)' <=> Bezig(v, x))
  BY DEF Bezig
<1>2. \A v \in Werkers : v # w => (Bezig(v, r)' <=> Bezig(v, r))
  BY DEF Bezig
<1>3. Enig'
  BY <1>1, <1>2 DEF RelatieInv, Enig
<1>4. Ongewijzigd'
  <2> SUFFICES ASSUME NEW v \in Werkers, req'[v] # Geen, req'[v].r \notin samen'
               PROVE  rij'[req'[v].r] = GelezenRij(req'[v])
    BY DEF Ongewijzigd, GelezenRij
  <2>1. CASE v = w
    BY <2>1
  <2>2. CASE v # w
    <3>1. req'[v] = req[v] /\ req[v].r \notin samen
      BY <2>2
    <3>2. req[v].r \in Relaties
      BY <3>1 DEF TypeInv, TypeOK, Verzoek
    <3>3. req[v].r # r
      BY <2>2, <3>1 DEF Bezig
    <3> QED BY <3>1, <3>2, <3>3 DEF RelatieInv, Ongewijzigd
  <2> QED BY <2>1, <2>2
<1>5. SpiegelInv'
  <2> SUFFICES ASSUME NEW x \in Relaties, x \notin geraakt' \cup samen'
               PROVE  /\ \A v \in Werkers : Bezig(v, x)' => Verwacht(v)'
                      /\ (\A v \in Werkers : ~Bezig(v, x)') => Gelijk(x)'
    BY DEF SpiegelInv
  <2>1. CASE x = r
    BY <2>1, <1>2 DEF Bezig
  <2>2. CASE x # r
    <3>1. \A naar, url : Spiegels(x, naar, url)' <=> Spiegels(x, naar, url)
      BY <2>2 DEF Spiegels
    <3>2. ASSUME NEW v \in Werkers, Bezig(v, x)' PROVE Verwacht(v)'
      <4>1. v # w /\ Bezig(v, x)
        BY <2>2, <3>2, <1>1 DEF Bezig
      <4>2. Verwacht(v)
        BY <4>1 DEF RelatieInv, SpiegelInv
      <4>3. req'[v] = req[v] /\ aanroep'[v] = aanroep[v] /\ req[v].r = x
        BY <4>1 DEF Bezig
      <4> QED BY <3>1, <4>2, <4>3 DEF Verwacht
    <3>3. ASSUME \A v \in Werkers : ~Bezig(v, x)' PROVE Gelijk(x)'
      <4>1. Gelijk(x)
        BY <2>2, <3>3, <1>1 DEF RelatieInv, SpiegelInv
      <4> QED BY <2>2, <4>1 DEF Gelijk
    <3> QED BY <3>2, <3>3
  <2> QED BY <2>1, <2>2
<1>6. BesluitHeeftZaakbesluit'
  <2> SUFFICES ASSUME NEW b \in Besluiten, b \notin samen', rij'[b] # Geen, rij'[b].naar \in Lokaal
               PROVE  spiegel'[<<b, rij'[b].naar>>] # 0
    BY DEF BesluitHeeftZaakbesluit
  <2>1. CASE b = r
    BY <2>1
  <2>2. CASE b # r
    BY <2>2, Buitenstaand DEF RelatieInv, BesluitHeeftZaakbesluit
  <2> QED BY <2>1, <2>2
<1> QED BY <1>3, <1>4, <1>5, <1>6 DEF RelatieInv

\* What is so while w is busy
LEMMA Bezet ==
  ASSUME TypeInv, RelatieInv, NEW w \in Werkers, req[w] # Geen
  PROVE  LET r == req[w].r IN
         /\ r \in Relaties /\ req[w] \in Verzoek /\ Passend(req[w], aanroep[w], geraakt)
         /\ r \notin samen =>
              /\ \A v \in Werkers \ {w} : ~Bezig(v, r)
              /\ rij[r] = GelezenRij(req[w])
              /\ r \notin geraakt => Verwacht(w)
              /\ r \in Besluiten /\ rij[r] # Geen /\ rij[r].naar \in Lokaal =>
                   spiegel[<<r, rij[r].naar>>] # 0
<1>1. req[w] \in Verzoek /\ Passend(req[w], aanroep[w], geraakt) /\ req[w].r \in Relaties
  BY DEF TypeInv, TypeOK, VerzoekenInv, Verzoek
<1>2. Bezig(w, req[w].r)
  BY DEF Bezig
<1> QED BY <1>1, <1>2 DEF RelatieInv, Enig, Ongewijzigd, SpiegelInv, BesluitHeeftZaakbesluit

\* What is so while nobody is busy
LEMMA Onbezet ==
  ASSUME TypeInv, RelatieInv, NEW r \in Relaties, r \notin samen, \A w \in Werkers : ~Bezig(w, r)
  PROVE  /\ r \notin geraakt =>
              IF rij[r] = Geen THEN Spiegels(r, Geen, 0) ELSE Spiegels(r, rij[r].naar, rij[r].url)
         /\ r \in Besluiten /\ rij[r] # Geen /\ rij[r].naar \in Lokaal =>
              spiegel[<<r, rij[r].naar>>] # 0
BY GelijkSpiegels DEF RelatieInv, SpiegelInv, BesluitHeeftZaakbesluit

LEMMA KoppelBeide ==
  ASSUME TypeInv, TypeInv', RelatieInv, NEW w \in Werkers, NEW r \in Koppelingen, Koppel(w, r)
  PROVE  RelatieInv'
<1> USE GeenAssumption
<1> DEFINE nieuw == [pk |-> rijen', naar |-> Document, url |-> 0]
<1> DEFINE q == [op |-> "koppel", r |-> r, rij |-> nieuw, naar |-> Document, fase |-> "post"]
<1> DEFINE c == [soort |-> "post", r |-> r, naar |-> Document, url |-> 0, stap |-> "uit"]
<1>1. /\ req' = [req EXCEPT ![w] = q] /\ aanroep' = [aanroep EXCEPT ![w] = c]
      /\ rij' = [rij EXCEPT ![r] = nieuw] /\ rij[r] = Geen
      /\ req[w] = Geen /\ aanroep[w] = Geen /\ UNCHANGED <<spiegel, geraakt>>
      /\ samen' = samen \cup {x \in {r} : \E v \in Werkers : Bezig(v, r)}
  BY DEF Koppel, Start, Aanroep
<1>2. /\ req'[w] = q /\ aanroep'[w] = c /\ rij'[r] = nieuw /\ r \in Relaties /\ r \notin Besluiten
      /\ \A v \in Werkers \ {w} : req'[v] = req[v] /\ aanroep'[v] = aanroep[v]
      /\ \A x \in Relaties \ {r} : rij'[x] = rij[x]
  BY <1>1, Buitenstaand DEF TypeInv, TypeOK
<1>3. c # Geen /\ q # Geen
  <2>1. rijen' \in 1..MaxRij /\ 0 \in 0..MaxUrl
    BY ExterneRelatiesAssumption DEF Koppel, TypeInv, TypeOK
  <2>2. q \in Verzoek /\ c \in Oproep
    BY <2>1 DEF Verzoek, Oproep, Rij, Relaties, Buiten
  <2> QED BY <2>2
<1>4. ASSUME r \notin samen'
      PROVE  /\ \A v \in Werkers \ {w} : ~Bezig(v, r)
             /\ r \notin geraakt' => Verwacht(w)'
  <2>1. r \notin samen /\ \A v \in Werkers : ~Bezig(v, r)
    BY <1>1, <1>4
  <2>2. ASSUME r \notin geraakt' PROVE Verwacht(w)'
    <3>1. Spiegels(r, Geen, 0)
      BY <1>1, <1>2, <2>1, <2>2, Onbezet
    <3>2. Spiegels(r, Geen, 0)'
      BY <3>1, <1>1 DEF Spiegels
    <3> QED BY <1>2, <1>3, <3>2 DEF Verwacht, Makend
  <2> QED BY <2>1, <2>2
<1>5. rij'[r] = GelezenRij(q)
  BY <1>2 DEF GelezenRij
<1> HIDE DEF c, nieuw
<1>6. q.r = r
  OBVIOUS
<1> HIDE DEF q
<1>7. samen \subseteq samen' /\ geraakt \subseteq geraakt'
      /\ \A x \in Relaties \ {r} : \A y : <<x, y>> \in Paren => spiegel'[<<x, y>>] = spiegel[<<x, y>>]
  BY <1>1
<1>8. r \in Relaties
  BY <1>2
<1>9. Plaatselijk(w, r)
  BY <1>1, <1>2, <1>6, <1>7 DEF Plaatselijk
<1>10. Resultaat(w, r)
  BY <1>2, <1>3, <1>4, <1>5 DEF Resultaat
<1> QED BY <1>8, <1>9, <1>10, PlaatselijkeStap

LEMMA LeesBeide ==
  ASSUME TypeInv, TypeInv', RelatieInv, NEW w \in Werkers,
         \/ \E r \in Koppelingen : OntkoppelLees(w, r)
         \/ \E b \in Besluiten, naar \in Extern \cup Lokaal \cup {Geen} : BesluitLees(w, "verplaats", b, naar)
         \/ \E b \in Besluiten : BesluitLees(w, "verwijder", b, Geen)
  PROVE  RelatieInv'
<1> USE GeenAssumption
<1>1. PICK op \in {"ontkoppel", "verplaats", "verwijder"}, r \in Relaties :
        /\ rij[r] # Geen /\ \E naar : Start(w, op, r, rij[r], naar, "gelezen")
        /\ UNCHANGED <<rij, spiegel, aanroep, geraakt>>
  BY DEF OntkoppelLees, BesluitLees, Relaties
<1>2. PICK naar : Start(w, op, r, rij[r], naar, "gelezen")
  BY <1>1
<1> DEFINE q == [op |-> op, r |-> r, rij |-> rij[r], naar |-> naar, fase |-> "gelezen"]
<1>3. /\ req' = [req EXCEPT ![w] = q] /\ req[w] = Geen /\ aanroep[w] = Geen
      /\ samen' = samen \cup {x \in {r} : \E v \in Werkers : Bezig(v, r)}
  BY <1>2 DEF Start
<1>4. /\ req'[w] = q /\ aanroep'[w] = Geen
      /\ \A v \in Werkers \ {w} : req'[v] = req[v] /\ aanroep'[v] = aanroep[v]
  BY <1>1, <1>3 DEF TypeInv, TypeOK
<1>5. Plaatselijk(w, r)
  BY <1>1, <1>3, <1>4 DEF Plaatselijk
<1>6. ASSUME r \notin samen'
      PROVE  /\ \A v \in Werkers \ {w} : ~Bezig(v, r)
             /\ r \notin geraakt' => Verwacht(w)' /\ Gelijk(r)'
             /\ r \in Besluiten /\ rij'[r] # Geen /\ rij'[r].naar \in Lokaal =>
                  spiegel'[<<r, rij'[r].naar>>] # 0
  <2>1. r \notin samen /\ \A v \in Werkers : ~Bezig(v, r)
    BY <1>3, <1>6
  <2>2. ASSUME r \notin geraakt PROVE Spiegels(r, rij[r].naar, rij[r].url)' /\ Gelijk(r)'
    <3>1. Spiegels(r, rij[r].naar, rij[r].url)
      BY <1>1, <2>1, <2>2, Onbezet
    <3>2. Gelijk(r)
      BY <1>1, <3>1, GelijkSpiegels
    <3> QED BY <3>1, <3>2, <1>1 DEF Spiegels, Gelijk
  <2>3. ASSUME r \notin geraakt' PROVE Verwacht(w)' /\ Gelijk(r)'
    BY <1>1, <1>4, <2>2, <2>3 DEF Verwacht
  <2> QED BY <1>1, <2>1, <2>3, Onbezet
<1>7. rij'[r] = GelezenRij(q)
  BY <1>1 DEF GelezenRij
<1>8. Resultaat(w, r)
  BY <1>4, <1>6, <1>7 DEF Resultaat
<1> QED BY <1>5, <1>8, PlaatselijkeStap

LEMMA GelijkNa ==
  ASSUME NEW r \in Relaties, NEW naar, NEW url,
         Spiegels(r, naar, url)',
         IF rij'[r] = Geen THEN naar = Geen ELSE naar = rij'[r].naar /\ url = rij'[r].url
  PROVE  Gelijk(r)'
BY Buitenstaand DEF Gelijk, Spiegels

\* The request of w, about r, ends.
Afloop(w, r) ==
  /\ req[w] # Geen /\ req[w].r = r /\ req' = [req EXCEPT ![w] = Geen]
  /\ aanroep' = [aanroep EXCEPT ![w] = Geen] \/ UNCHANGED aanroep
  /\ UNCHANGED samen /\ geraakt \subseteq geraakt'
  /\ \A x \in Relaties \ {r} : rij'[x] = rij[x]
  /\ \A x \in Relaties \ {r} : \A y : <<x, y>> \in Paren => spiegel'[<<x, y>>] = spiegel[<<x, y>>]
  /\ r \notin samen =>
       /\ r \notin geraakt' => Gelijk(r)'
       /\ r \in Besluiten /\ rij'[r] # Geen /\ rij'[r].naar \in Lokaal =>
            spiegel'[<<r, rij'[r].naar>>] # 0

LEMMA EindeBeide ==
  ASSUME TypeInv, TypeInv', RelatieInv, NEW w \in Werkers, NEW r \in Relaties, Afloop(w, r)
  PROVE  RelatieInv'
<1> USE DEF Afloop
<1>1. r \notin samen => \A v \in Werkers \ {w} : ~Bezig(v, r)
  BY Bezet
<1>2. /\ req'[w] = Geen
      /\ \A v \in Werkers \ {w} : req'[v] = req[v] /\ aanroep'[v] = aanroep[v]
  BY DEF TypeInv, TypeOK
<1>3. Plaatselijk(w, r)
  BY <1>2 DEF Plaatselijk
<1>4. Resultaat(w, r)
  BY <1>1, <1>2 DEF Resultaat
<1> QED BY <1>3, <1>4, PlaatselijkeStap

LEMMA JaBeide ==
  ASSUME TypeInv, TypeInv', RelatieInv, NEW w \in Werkers,
         KoppelJa(w) \/ OntkoppelJa(w) \/ BesluitJa(w) \/ VerwijderJa(w)
  PROVE  RelatieInv'
<1> USE GeenAssumption
<1> DEFINE q == req[w]
           c == aanroep[w]
<1>1. /\ q # Geen /\ c # Geen /\ c.stap = "ja" /\ UNCHANGED tellers
      /\ req' = [req EXCEPT ![w] = Geen] /\ aanroep' = [aanroep EXCEPT ![w] = Geen]
  BY DEF KoppelJa, OntkoppelJa, BesluitJa, VerwijderJa, Ja, Klaar, Einde
<1>2. PICK r \in Relaties : r = q.r
  BY <1>1, Bezet
<1>3. /\ q \in Verzoek /\ Passend(q, c, geraakt) /\ q.rij # Geen /\ q.rij \in Rij
      /\ r \notin samen => rij[r] = GelezenRij(q) /\ (r \notin geraakt => Verwacht(w))
      /\ r \notin samen /\ r \in Besluiten /\ rij[r] # Geen /\ rij[r].naar \in Lokaal =>
           spiegel[<<r, rij[r].naar>>] # 0
  BY <1>1, <1>2, Bezet DEF Verzoek
<1>4. UNCHANGED <<samen, geraakt>>
  BY <1>1 DEF tellers
<1>5. SUFFICES
        /\ \A x \in Relaties \ {r} : rij'[x] = rij[x]
        /\ \A x \in Relaties \ {r} : \A y : <<x, y>> \in Paren => spiegel'[<<x, y>>] = spiegel[<<x, y>>]
        /\ r \notin samen =>
             /\ r \notin geraakt' => Gelijk(r)'
             /\ r \in Besluiten /\ rij'[r] # Geen /\ rij'[r].naar \in Lokaal =>
                  spiegel'[<<r, rij'[r].naar>>] # 0
  BY <1>1, <1>2, <1>4, EindeBeide DEF Afloop
<1>6. CASE KoppelJa(w)
  <2>1. /\ r \in Koppelingen /\ q.op = "koppel" /\ q.fase = "post" /\ UNCHANGED spiegel
        /\ rij' = Gekoppeld(r, q.rij, c.url)
    BY <1>2, <1>3, <1>6 DEF KoppelJa, Passend, Fasen
  <2>2. \A x \in Relaties \ {r} : rij'[x] = rij[x]
    BY <2>1 DEF Gekoppeld, TypeInv, TypeOK
  <2>3. ASSUME r \notin samen, r \notin geraakt' PROVE Gelijk(r)'
    <3>1. rij[r] = q.rij
      BY <1>3, <2>1, <2>3 DEF GelezenRij
    <3>2. rij'[r] = [q.rij EXCEPT !.url = c.url]
      BY <1>3, <2>1, <3>1 DEF Gekoppeld, Opgeslagen, Zelfde, TypeInv, TypeOK
    <3>3. rij'[r] # Geen /\ rij'[r].naar = q.naar /\ rij'[r].url = c.url
      <4>1. q.naar = Document /\ q.rij.naar = Document
        BY <1>1, <1>2, <1>3, <2>1 DEF Passend, Naar
      <4>2. c.url \in 0..MaxUrl
        BY <1>1 DEF TypeInv, TypeOK, Oproep
      <4>3. rij'[r] \in Rij
        BY <1>3, <3>2, <4>2 DEF Rij
      <4> QED BY <1>3, <3>2, <4>1, <4>3 DEF Rij
    <3>4. PICK naar, url : naar = q.naar /\ url = c.url
      OBVIOUS
    <3>5. Spiegels(r, naar, url)
      BY <1>1, <1>2, <1>3, <1>4, <2>1, <2>3, <3>4 DEF Verwacht, Makend
    <3>6. Spiegels(r, naar, url)'
      BY <2>1, <3>5 DEF Spiegels
    <3> QED BY <3>3, <3>4, <3>6, GelijkNa
  <2> QED BY <2>1, <2>2, <2>3, Buitenstaand
<1>7. CASE OntkoppelJa(w)
  <2>1. r \in Koppelingen /\ q.op = "ontkoppel" /\ q.fase = "delete" /\ UNCHANGED <<rij, spiegel>>
    BY <1>1, <1>2, <1>3, <1>7 DEF OntkoppelJa, Passend, Fasen, Lezend
  <2>2. ASSUME r \notin samen, r \notin geraakt' PROVE Gelijk(r)'
    <3>1. rij'[r] = Geen
      BY <1>3, <2>1, <2>2 DEF GelezenRij
    <3>2. Spiegels(r, Geen, 0)
      BY <1>1, <1>2, <1>3, <1>4, <2>1, <2>2 DEF Verwacht, Makend
    <3>3. Spiegels(r, Geen, 0)'
      BY <2>1, <3>2 DEF Spiegels
    <3> QED BY <3>1, <3>3, GelijkNa
  <2> QED BY <2>1, <2>2, Buitenstaand
<1>8. CASE BesluitJa(w)
  <2>1. /\ q.fase = "post_in_transactie" /\ q.naar \in Extern /\ q.naar # q.rij.naar
        /\ LegVast(r, q.rij, q.naar, c.url)
    BY <1>1, <1>2, <1>3, <1>8 DEF BesluitJa, Passend
  <2>2. spiegel' = spiegel
    <3>1. spiegel' = [p \in Paren |-> spiegel[p]]
      BY <2>1, ExterneRelatiesAssumption DEF LegVast, Gelijkgetrokken
    <3> QED BY <3>1 DEF TypeInv, TypeOK
  <2>3. rij' = [rij EXCEPT ![r] = [q.rij EXCEPT !.naar = q.naar, !.url = c.url]]
    BY <2>1 DEF LegVast
  <2>4. rij'[r] # Geen /\ rij'[r].naar = q.naar /\ rij'[r].url = c.url
    <3>1. c.url \in 0..MaxUrl
      BY <1>1 DEF TypeInv, TypeOK, Oproep
    <3>2. rij'[r] = [q.rij EXCEPT !.naar = q.naar, !.url = c.url] /\ rij'[r] \in Rij
      BY <1>3, <2>1, <2>3, <3>1 DEF TypeInv, TypeOK, Rij
    <3> QED BY <1>3, <3>2 DEF Rij
  <2>5. ASSUME r \notin samen, r \notin geraakt' PROVE Gelijk(r)'
    <3>1. PICK naar, url : naar = q.naar /\ url = c.url
      OBVIOUS
    <3>2. Spiegels(r, naar, url)
      BY <1>1, <1>2, <1>3, <1>4, <2>1, <2>5, <3>1 DEF Verwacht, Makend
    <3>3. Spiegels(r, naar, url)'
      BY <2>2, <3>2 DEF Spiegels
    <3> QED BY <2>4, <3>1, <3>3, GelijkNa
  <2>6. \A x \in Relaties \ {r} : rij'[x] = rij[x]
    BY <2>3 DEF TypeInv, TypeOK
  <2>7. rij'[r].naar \notin Lokaal
    BY <2>1, <2>4, ExterneRelatiesAssumption
  <2> QED BY <2>2, <2>5, <2>6, <2>7
<1>9. CASE VerwijderJa(w)
  <2>1. /\ q.op = "verwijder" /\ q.fase = "delete_in_transactie"
        /\ Verwijderd(r, q.rij)
    BY <1>1, <1>2, <1>3, <1>9 DEF VerwijderJa, Passend, Fasen, Lezend
  <2>2. /\ \A x \in Relaties \ {r} : rij'[x] = rij[x]
        /\ \A x \in Relaties \ {r} : \A y : <<x, y>> \in Paren => spiegel'[<<x, y>>] = spiegel[<<x, y>>]
    BY <2>1 DEF Verwijderd, Teruggenomen, TypeInv, TypeOK
  <2>3. ASSUME r \notin samen PROVE rij'[r] = Geen
    <3>1. rij[r] = q.rij
      BY <1>3, <2>1, <2>3 DEF GelezenRij
    <3> QED BY <1>3, <2>1, <3>1 DEF Verwijderd, Teruggenomen, Zelfde, TypeInv, TypeOK
  <2>4. ASSUME r \notin samen, r \notin geraakt' PROVE Gelijk(r)'
    <3>1. Spiegels(r, Geen, 0)
      BY <1>1, <1>2, <1>3, <1>4, <2>1, <2>4 DEF Verwacht, Makend
    <3>2. Spiegels(r, Geen, 0)'
      BY <2>1, <3>1, Buitenstaand DEF Spiegels, Verwijderd
    <3> QED BY <2>3, <2>4, <3>2, GelijkNa
  <2> QED BY <2>2, <2>3, <2>4
<1> QED BY <1>6, <1>7, <1>8, <1>9

LEMMA NeeBeide ==
  ASSUME TypeInv, TypeInv', RelatieInv, NEW w \in Werkers,
         KoppelNee(w) \/ OntkoppelNee(w) \/ BesluitNee(w) \/ Crash(w)
  PROVE  RelatieInv'
<1> USE GeenAssumption
<1> DEFINE q == req[w]
           c == aanroep[w]
<1>1. /\ q # Geen /\ UNCHANGED <<spiegel, samen>> /\ geraakt \subseteq geraakt'
      /\ req' = [req EXCEPT ![w] = Geen]
      /\ aanroep' = [aanroep EXCEPT ![w] = Geen] \/ UNCHANGED aanroep
  BY DEF KoppelNee, OntkoppelNee, BesluitNee, Crash, Nee, Einde
<1>2. PICK r \in Relaties : r = q.r
  BY <1>1, Bezet
<1>3. /\ q \in Verzoek /\ Passend(q, c, geraakt) /\ q.rij # Geen /\ q.rij \in Rij
      /\ r \notin samen => rij[r] = GelezenRij(q) /\ (r \notin geraakt => Verwacht(w))
      /\ r \notin samen /\ r \in Besluiten /\ rij[r] # Geen /\ rij[r].naar \in Lokaal =>
           spiegel[<<r, rij[r].naar>>] # 0
  BY <1>1, <1>2, Bezet DEF Verzoek
<1>4. SUFFICES
        /\ \A x \in Relaties \ {r} : rij'[x] = rij[x]
        /\ r \notin samen =>
             /\ r \notin geraakt' => Gelijk(r)'
             /\ r \in Besluiten /\ rij'[r] # Geen /\ rij'[r].naar \in Lokaal =>
                  spiegel'[<<r, rij'[r].naar>>] # 0
  BY <1>1, <1>2, EindeBeide DEF Afloop
\* Without a failure that may have touched it, B refused.
<1>5. r \notin geraakt' =>
        \/ Crash(w) /\ c = Geen
        \/ /\ c # Geen /\ c.stap = "nee"
           /\ ~(q.fase = "post_in_transactie" /\ q.rij.naar \in Extern /\ q.rij.url # 0)
  BY <1>2 DEF KoppelNee, OntkoppelNee, BesluitNee, Crash, Nee
<1>6. CASE KoppelNee(w)
  <2>1. /\ r \in Koppelingen /\ q.op = "koppel" /\ q.fase = "post" /\ c # Geen
        /\ rij' = Teruggenomen(r, q.rij)
    BY <1>2, <1>3, <1>6 DEF KoppelNee, Nee, Passend, Fasen
  <2>2. \A x \in Relaties \ {r} : rij'[x] = rij[x]
    BY <2>1 DEF Teruggenomen, TypeInv, TypeOK
  <2>3. ASSUME r \notin samen, r \notin geraakt' PROVE Gelijk(r)'
    <3>1. rij'[r] = Geen
      BY <1>3, <2>1, <2>3 DEF GelezenRij, Teruggenomen, Zelfde, TypeInv, TypeOK
    <3>2. Spiegels(r, Geen, 0)
      BY <1>1, <1>2, <1>3, <1>5, <2>1, <2>3 DEF Verwacht, Makend
    <3>3. Spiegels(r, Geen, 0)'
      BY <1>1, <3>2 DEF Spiegels
    <3> QED BY <3>1, <3>3, GelijkNa
  <2> QED BY <2>1, <2>2, <2>3, Buitenstaand
<1>7. CASE OntkoppelNee(w)
  <2>1. /\ r \in Koppelingen /\ q.op = "ontkoppel" /\ q.fase = "delete" /\ c # Geen
        /\ rij' = Hersteld(r, q.rij) /\ rijen' = rijen + 1
    BY <1>2, <1>3, <1>7 DEF OntkoppelNee, Nee, Passend, Fasen, Lezend
  <2>2. \A x \in Relaties \ {r} : rij'[x] = rij[x]
    BY <2>1 DEF Hersteld, TypeInv, TypeOK
  <2>3. ASSUME r \notin samen, r \notin geraakt' PROVE Gelijk(r)'
    <3>1. PICK naar, url : naar = q.rij.naar /\ url = q.rij.url
      OBVIOUS
    <3>2. rij'[r] = [q.rij EXCEPT !.pk = rijen + 1]
      BY <1>3, <2>1, <2>3 DEF GelezenRij, Hersteld, TypeInv, TypeOK
    <3>3. rijen + 1 \in 1..MaxRij
      BY <2>1, ExterneRelatiesAssumption DEF TypeInv, TypeOK
    <3>4. rij'[r] # Geen /\ rij'[r].naar = naar /\ rij'[r].url = url
      BY <1>3, <3>1, <3>2, <3>3 DEF Rij
    <3>5. Spiegels(r, naar, url)
      BY <1>1, <1>2, <1>3, <1>5, <2>1, <2>3, <3>1 DEF Verwacht, Makend
    <3>6. Spiegels(r, naar, url)'
      BY <1>1, <3>5 DEF Spiegels
    <3> QED BY <3>4, <3>6, GelijkNa
  <2> QED BY <2>1, <2>2, <2>3, Buitenstaand
<1>8. CASE BesluitNee(w) \/ Crash(w)
  <2>1. UNCHANGED rij
    BY <1>8 DEF BesluitNee, Crash
  <2>2. ASSUME r \notin samen, r \notin geraakt' PROVE Gelijk(r)'
    <3>1. PICK naar, url : naar = q.rij.naar /\ url = q.rij.url
      OBVIOUS
    <3>2. CASE Crash(w) /\ c = Geen
      <4>1. q.fase \in Lezend /\ q.op # "besluit"
        BY <1>1, <1>3, <3>2 DEF Passend, Fasen, Lezend
      <4>2. rij'[r] = q.rij
        BY <1>3, <2>1, <2>2, <4>1 DEF GelezenRij, Lezend
      <4>3. Spiegels(r, naar, url)
        BY <1>1, <1>2, <1>3, <2>2, <3>1, <3>2 DEF Verwacht
      <4>4. Spiegels(r, naar, url)'
        BY <1>1, <4>3 DEF Spiegels
      <4> QED BY <1>3, <3>1, <4>2, <4>4, GelijkNa
    <3>3. CASE c # Geen /\ c.stap = "nee" /\ BesluitNee(w)
      <4>1. r \in Besluiten /\ q.fase \in {"post_in_transactie", "delete_in_transactie"}
        BY <1>1, <1>2, <1>3, <3>3, Buitenstaand DEF BesluitNee, Passend, Fasen, Lezend
      <4>2. CASE q.op = "besluit"
        <5>1. rij'[r] = Geen /\ q.fase = "post_in_transactie"
          BY <1>1, <1>3, <2>1, <2>2, <4>2 DEF GelezenRij, Passend, Fasen
        <5>2. Spiegels(r, Geen, 0)
          BY <1>1, <1>2, <1>3, <2>2, <3>3, <5>1 DEF Verwacht, Makend
        <5>3. Spiegels(r, Geen, 0)'
          BY <1>1, <5>2 DEF Spiegels
        <5> QED BY <5>1, <5>3, GelijkNa
      <4>3. CASE q.op # "besluit" /\ q.fase = "delete_in_transactie"
        <5>1. rij'[r] = q.rij
          BY <1>3, <2>1, <2>2, <4>3 DEF GelezenRij
        <5>2. Spiegels(r, naar, url)
          BY <1>1, <1>2, <1>3, <2>2, <3>1, <3>3, <4>3 DEF Verwacht, Makend
        <5>3. Spiegels(r, naar, url)'
          BY <1>1, <5>2 DEF Spiegels
        <5> QED BY <1>3, <3>1, <5>1, <5>3, GelijkNa
      <4>4. CASE q.op # "besluit" /\ q.fase = "post_in_transactie"
        <5>1. rij'[r] = q.rij
          BY <1>3, <2>1, <2>2, <4>4 DEF GelezenRij
        <5>2. Spiegels(r, Geen, 0)
          BY <1>1, <1>2, <1>3, <2>2, <3>3, <4>4 DEF Verwacht, Makend
        <5>3. naar \notin Extern \/ url = 0
          BY <1>5, <2>2, <3>1, <3>3, <4>4
        <5>4. \A x \in Buiten : <<r, x>> \in Paren => x \in Extern
          BY <4>1, Buitenstaand, ExterneRelatiesAssumption DEF Buiten, Paren
        <5>5. Spiegels(r, naar, url)'
          BY <1>1, <5>2, <5>3, <5>4, Buitenstaand DEF Spiegels
        <5> QED BY <1>3, <3>1, <5>1, <5>5, GelijkNa
      <4> QED BY <4>1, <4>2, <4>3, <4>4
    <3>4. CASE c # Geen /\ c.stap = "nee" /\ Crash(w)
      BY <1>2, <2>2, <3>4 DEF Crash
    <3> QED BY <1>5, <1>8, <2>2, <3>2, <3>3, <3>4
  <2> QED BY <1>1, <1>3, <2>1, <2>2
<1> QED BY <1>6, <1>7, <1>8

LEMMA OntkoppelBeide ==
  ASSUME TypeInv, TypeInv', RelatieInv, NEW w \in Werkers, req[w] # Geen, Ontkoppel(w, req[w].r)
  PROVE  RelatieInv'
<1> USE GeenAssumption
<1> DEFINE q == req[w]
<1>1. PICK r \in Relaties : r = q.r
  BY Bezet
<1>2. /\ q \in Verzoek /\ Passend(q, aanroep[w], geraakt) /\ q.rij # Geen /\ q.rij \in Rij
      /\ r \notin samen => rij[r] = GelezenRij(q) /\ (r \notin geraakt => Verwacht(w))
      /\ r \notin samen => \A v \in Werkers \ {w} : ~Bezig(v, r)
  BY <1>1, Bezet DEF Verzoek
<1>3. /\ q.op = "ontkoppel" /\ q.fase = "gelezen" /\ rij' = Teruggenomen(r, q.rij)
      /\ UNCHANGED <<spiegel, geraakt, samen>>
  BY <1>1 DEF Ontkoppel, tellers
<1>4. r \in Koppelingen /\ aanroep[w] = Geen
  BY <1>1, <1>2, <1>3 DEF Passend, Lezend
<1>5. /\ \A x \in Relaties \ {r} : rij'[x] = rij[x]
      /\ r \notin samen => rij'[r] = Geen
  BY <1>2, <1>3 DEF GelezenRij, Teruggenomen, Zelfde, TypeInv, TypeOK
<1>6. PICK naar, url : naar = q.rij.naar /\ url = q.rij.url
  OBVIOUS
<1>7. ASSUME r \notin samen, r \notin geraakt PROVE Spiegels(r, naar, url)'
  <2>1. Spiegels(r, naar, url)
    BY <1>1, <1>2, <1>4, <1>6, <1>7 DEF Verwacht
  <2> QED BY <1>3, <2>1 DEF Spiegels
<1>8. CASE q.rij.url = 0
  <2>1. ASSUME r \notin samen, r \notin geraakt PROVE Gelijk(r)'
    <3>1. Spiegels(r, Geen, 0)'
      BY <1>6, <1>7, <1>8, <2>1 DEF Spiegels
    <3> QED BY <1>5, <2>1, <3>1, GelijkNa
  <2>2. Afloop(w, r)
    BY <1>1, <1>3, <1>4, <1>5, <1>8, <2>1, Buitenstaand DEF Afloop, Ontkoppel, Einde
  <2> QED BY <2>2, EindeBeide
<1>9. CASE q.rij.url # 0
  <2>1. /\ req' = [req EXCEPT ![w].fase = "delete"]
        /\ aanroep' = [aanroep EXCEPT ![w] =
             [soort |-> "delete", r |-> r, naar |-> Document, url |-> q.rij.url, stap |-> "uit"]]
    BY <1>1, <1>9 DEF Ontkoppel, Fase, Aanroep
  <2>2. /\ req'[w] = [q EXCEPT !.fase = "delete"] /\ aanroep'[w].stap = "uit"
        /\ \A v \in Werkers \ {w} : req'[v] = req[v] /\ aanroep'[v] = aanroep[v]
    BY <2>1 DEF TypeInv, TypeOK
  <2>3. req'[w] # Geen /\ req'[w].r = r /\ req'[w].fase = "delete" /\ req'[w].rij = q.rij
    <3>1. req'[w] \in Verzoek
      BY <1>2, <2>2 DEF Verzoek
    <3> QED BY <1>1, <1>2, <2>2, <3>1 DEF Verzoek
  <2>4. Plaatselijk(w, r)
    BY <1>1, <1>3, <1>5, <2>2, <2>3 DEF Plaatselijk
  <2>5. ASSUME r \notin samen, r \notin geraakt PROVE Verwacht(w)'
    BY <1>6, <1>7, <2>2, <2>3, <2>5 DEF Verwacht, Makend
  <2>6. Resultaat(w, r)
    BY <1>2, <1>3, <1>4, <1>5, <2>3, <2>5, Buitenstaand DEF Resultaat, GelezenRij
  <2> QED BY <2>4, <2>6, PlaatselijkeStap
<1> QED BY <1>8, <1>9

\* Besluiten have mirrors in B at zaken only.
LEMMA GeenSpiegel ==
  ASSUME NEW b \in Besluiten, NEW naar, NEW url, naar \notin Extern \/ url = 0
  PROVE  Spiegels(b, naar, url) <=> Spiegels(b, Geen, 0)
<1>1. \A x \in Buiten : <<b, x>> \in Paren => x \in Extern
  BY Buitenstaand, ExterneRelatiesAssumption DEF Buiten, Paren
<1> QED BY <1>1, Buitenstaand DEF Spiegels

LEMMA SpiegelsNa ==
  ASSUME NEW b \in Relaties, NEW naar, NEW url,
         \A x \in Buiten : <<b, x>> \in Paren => spiegel'[<<b, x>>] = spiegel[<<b, x>>]
  PROVE  Spiegels(b, naar, url)' <=> Spiegels(b, naar, url)
BY DEF Spiegels

LEMMA GeenSpiegelNa ==
  ASSUME NEW b \in Besluiten, NEW naar, NEW url, naar \notin Extern \/ url = 0
  PROVE  Spiegels(b, naar, url)' <=> Spiegels(b, Geen, 0)'
<1>1. \A x \in Buiten : <<b, x>> \in Paren => x \in Extern
  BY Buitenstaand, ExterneRelatiesAssumption DEF Buiten, Paren
<1> QED BY <1>1, Buitenstaand DEF Spiegels

\* A commit of a besluit that does not go to a zaak of B
LEMMA VastgelegdNa ==
  ASSUME TypeInv, NEW b \in Besluiten, NEW oud \in Rij, NEW naar \in Lokaal \cup {Geen}, NEW url \in 0..MaxUrl,
         LegVast(b, oud, naar, url), naar = oud.naar \/ oud.naar \notin Extern
  PROVE  /\ \A x \in Relaties \ {b} : rij'[x] = rij[x]
         /\ \A x \in Relaties \ {b} : \A y : <<x, y>> \in Paren => spiegel'[<<x, y>>] = spiegel[<<x, y>>]
         /\ \A x \in Buiten : <<b, x>> \in Paren => spiegel'[<<b, x>>] = spiegel[<<b, x>>]
         /\ rij'[b] # Geen /\ rij'[b].naar = naar /\ rij'[b].url = url
         /\ naar \in Lokaal /\ naar # oud.naar => spiegel'[<<b, naar>>] = 1
<1> USE GeenAssumption
<1>1. rij' = [rij EXCEPT ![b] = [oud EXCEPT !.naar = naar, !.url = url]]
  BY DEF LegVast
<1>2. rij'[b] # Geen /\ rij'[b].naar = naar /\ rij'[b].url = url
  <2>1. rij'[b] = [oud EXCEPT !.naar = naar, !.url = url]
    BY <1>1, Buitenstaand DEF TypeInv, TypeOK
  <2>2. rij'[b] \in Rij
    BY <2>1 DEF Rij
  <2> QED BY <2>1, <2>2 DEF Rij
<1>3. \A x \in Relaties \ {b} : rij'[x] = rij[x]
  BY <1>1 DEF TypeInv, TypeOK
<1>4. spiegel' = IF naar = oud.naar THEN spiegel ELSE Gelijkgetrokken(b, oud.naar, naar)
  BY DEF LegVast
<1>5. /\ \A x \in Relaties \ {b} : \A y : <<x, y>> \in Paren => spiegel'[<<x, y>>] = spiegel[<<x, y>>]
      /\ \A x \in Buiten : <<b, x>> \in Paren => spiegel'[<<b, x>>] = spiegel[<<b, x>>]
  BY <1>4, Buitenstaand DEF Gelijkgetrokken
<1>6. naar \in Lokaal /\ naar # oud.naar => spiegel'[<<b, naar>>] = 1
  BY <1>4, Buitenstaand DEF Gelijkgetrokken
<1> QED BY <1>2, <1>3, <1>5, <1>6

\* A request goes on in its transaction.
LEMMA FaseBeide ==
  ASSUME TypeInv, TypeInv', RelatieInv, NEW w \in Werkers, req[w] # Geen,
         NEW r \in Besluiten, r = req[w].r, NEW fase \in {"wacht", "post_in_transactie", "delete_in_transactie"}, Fase(w, fase),
         \A v \in Werkers \ {w} : aanroep'[v] = aanroep[v],
         r \notin samen /\ r \notin geraakt => Verwacht(w)',
         UNCHANGED <<rij, spiegel, samen, geraakt>>
  PROVE  RelatieInv'
<1> USE GeenAssumption
<1> DEFINE q == req[w]
<1>1. /\ q \in Verzoek /\ Passend(q, aanroep[w], geraakt)
      /\ r \notin samen =>
           /\ \A v \in Werkers \ {w} : ~Bezig(v, r)
           /\ rij[r] = GelezenRij(q)
           /\ rij[r] # Geen /\ rij[r].naar \in Lokaal => spiegel[<<r, rij[r].naar>>] # 0
  BY Bezet
<1>2. /\ req'[w] = [q EXCEPT !.fase = fase]
      /\ \A v \in Werkers \ {w} : req'[v] = req[v]
  BY DEF Fase, TypeInv, TypeOK
<1>3. req'[w].r = r /\ req'[w].op = q.op /\ req'[w].rij = q.rij /\ req'[w].fase = fase
  BY <1>1, <1>2 DEF Verzoek
<1>4. q.fase # "delete"
  BY <1>1, Buitenstaand DEF Passend, Fasen
<1>5. GelezenRij(req'[w]) = GelezenRij(q)
  BY <1>3, <1>4 DEF GelezenRij
<1>6. Plaatselijk(w, r)
  BY <1>2, <1>3 DEF Plaatselijk
<1>7. req'[w] # Geen
  <2>1. req'[w] \in Verzoek
    BY <1>1, <1>2 DEF Verzoek
  <2> QED BY <2>1
<1>8. Resultaat(w, r)
  BY <1>1, <1>3, <1>5, <1>7 DEF Resultaat
<1> QED BY <1>6, <1>8, Buitenstaand, PlaatselijkeStap

\* A step of a transaction, before it ends
LEMMA TransactieBeide ==
  ASSUME TypeInv, TypeInv', RelatieInv, NEW w \in Werkers, req[w] # Geen,
         \/ Wacht(w, req[w].r) \/ VerplaatsVerder(w)
         \/ Verplaats(w, req[w].r) /\ req'[w] # Geen
         \/ Verwijder(w, req[w].r) /\ req'[w] # Geen
  PROVE  RelatieInv'
<1> USE GeenAssumption
<1> DEFINE q == req[w]
           i == q.rij
<1>1. /\ q \in Verzoek /\ Passend(q, aanroep[w], geraakt) /\ i # Geen /\ i \in Rij
      /\ q.r \in Relaties
      /\ q.r \notin samen /\ q.r \notin geraakt => Verwacht(w)
  BY Bezet DEF Verzoek
<1>2. UNCHANGED <<rij, spiegel, samen, geraakt>>
  BY DEF Wacht, VerplaatsVerder, Verplaats, Verwijder, Ja, tellers, Einde, TypeInv, TypeOK
<1>3. q.op \in {"verplaats", "verwijder"}
  BY DEF Wacht, VerplaatsVerder, Verplaats, Verwijder
<1>4. PICK r \in Besluiten : r = q.r
  BY <1>1, <1>3 DEF Passend, Relaties
<1>5. PICK oud, url : oud = i.naar /\ url = i.url
  OBVIOUS
<1>6. \A naar, u : Spiegels(r, naar, u) =>
        \A x \in Buiten : <<r, x>> \in Paren => spiegel'[<<r, x>>] = IF x = naar THEN u ELSE 0
  BY <1>2 DEF Spiegels
<1>7. CASE Wacht(w, r)
  <2>1. Fase(w, "wacht") /\ UNCHANGED aanroep /\ q.fase = "gelezen" /\ aanroep[w] = Geen
    BY <1>1, <1>7 DEF Wacht, Passend, Lezend
  <2>2. req'[w] = [q EXCEPT !.fase = "wacht"]
    BY <2>1 DEF Fase, TypeInv, TypeOK
  <2>3. ASSUME r \notin samen, r \notin geraakt PROVE Verwacht(w)'
    <3>1. Spiegels(r, oud, url)
      BY <1>1, <1>4, <1>5, <2>1, <2>3 DEF Verwacht
    <3>2. Spiegels(r, oud, url)'
      BY <1>2, <3>1 DEF Spiegels
    <3>3. req'[w].r = r /\ req'[w].rij.naar = oud /\ req'[w].rij.url = url /\ aanroep'[w] = Geen
      BY <1>1, <1>4, <1>5, <2>1, <2>2 DEF Verzoek
    <3> QED BY <3>2, <3>3 DEF Verwacht
  <2> QED BY <1>2, <1>4, <2>1, <2>3, FaseBeide
\* The first call: the mirror at the zaak of B that the besluit leaves
<1>8. ASSUME Fase(w, "delete_in_transactie"), q.fase \in Lezend,
             Aanroep(w, "delete", r, i.naar, i.url)
      PROVE  RelatieInv'
  <2>1. /\ req'[w] = [q EXCEPT !.fase = "delete_in_transactie"] /\ aanroep'[w].stap = "uit"
        /\ aanroep[w] = Geen /\ \A v \in Werkers \ {w} : aanroep'[v] = aanroep[v]
    BY <1>1, <1>8 DEF Fase, Aanroep, TypeInv, TypeOK, Passend
  <2>2. ASSUME r \notin samen, r \notin geraakt PROVE Verwacht(w)'
    <3>1. Spiegels(r, oud, url)
      BY <1>1, <1>4, <1>5, <2>1, <2>2 DEF Verwacht
    <3>2. Spiegels(r, oud, url)'
      BY <1>2, <3>1 DEF Spiegels
    <3>3. /\ req'[w].r = r /\ req'[w].rij.naar = oud /\ req'[w].rij.url = url
          /\ req'[w].fase = "delete_in_transactie"
      BY <1>1, <1>4, <1>5, <2>1 DEF Verzoek
    <3> QED BY <2>1, <3>2, <3>3 DEF Verwacht, Makend
  <2> QED BY <1>2, <1>4, <1>8, <2>1, <2>2, FaseBeide
\* The last call: the mirror at the next zaak
<1>9. ASSUME Fase(w, "post_in_transactie"), Aanroep(w, "post", r, q.naar, 0),
             r \notin samen /\ r \notin geraakt => Spiegels(r, Geen, 0)
      PROVE  RelatieInv'
  <2>1. /\ req'[w] = [q EXCEPT !.fase = "post_in_transactie"]
        /\ aanroep'[w] = [soort |-> "post", r |-> r, naar |-> q.naar, url |-> 0, stap |-> "uit"]
        /\ \A v \in Werkers \ {w} : aanroep'[v] = aanroep[v]
    BY <1>9 DEF Fase, Aanroep, TypeInv, TypeOK
  <2>2. ASSUME r \notin samen, r \notin geraakt PROVE Verwacht(w)'
    <3>1. Spiegels(r, Geen, 0)'
      BY <1>2, <1>9, <2>2 DEF Spiegels
    <3>2. req'[w].r = r /\ req'[w].fase = "post_in_transactie" /\ aanroep'[w].stap = "uit"
      BY <1>1, <1>4, <2>1 DEF Verzoek
    <3>3. req'[w] # Geen
      <4>1. req'[w] \in Verzoek
        BY <1>1, <2>1 DEF Verzoek
      <4> QED BY <4>1
    <3>4. aanroep'[w] # Geen
      BY <3>2, <3>3 DEF TypeInv, VerzoekenInv, Passend, Lezend
    <3> QED BY <3>1, <3>2, <3>4 DEF Verwacht, Makend
  <2> QED BY <1>2, <1>4, <1>9, <2>1, <2>2, FaseBeide
<1>10. CASE VerplaatsVerder(w)
  <2>1. /\ aanroep[w] # Geen /\ aanroep[w].stap = "ja" /\ q.fase = "delete_in_transactie"
        /\ Fase(w, "post_in_transactie") /\ Aanroep(w, "post", r, q.naar, 0)
    BY <1>4, <1>10 DEF VerplaatsVerder, Ja
  <2>2. r \notin samen /\ r \notin geraakt => Spiegels(r, Geen, 0)
    BY <1>1, <1>4, <2>1 DEF Verwacht, Makend
  <2> QED BY <1>9, <2>1, <2>2
<1>11. CASE Verplaats(w, r) /\ req'[w] # Geen
  <2>1. q.fase \in Lezend /\ aanroep[w] = Geen
    BY <1>1, <1>11 DEF Verplaats, Passend, Lezend
  <2>2. ~Einde(w)
    BY <1>11 DEF Einde, TypeInv, TypeOK
  <2>3. \/ Fase(w, "delete_in_transactie") /\ Aanroep(w, "delete", r, i.naar, i.url)
        \/ /\ ~(i.naar \in Extern /\ i.url # 0)
           /\ Fase(w, "post_in_transactie") /\ Aanroep(w, "post", r, q.naar, 0)
    BY <1>11, <2>2 DEF Verplaats
  <2>4. ASSUME ~(i.naar \in Extern /\ i.url # 0), r \notin samen, r \notin geraakt
        PROVE  Spiegels(r, Geen, 0)
    <3>1. Spiegels(r, oud, url)
      BY <1>1, <1>4, <1>5, <2>1, <2>4 DEF Verwacht
    <3> QED BY <1>5, <2>4, <3>1, GeenSpiegel
  <2> QED BY <1>8, <1>9, <2>1, <2>3, <2>4
<1>12. CASE Verwijder(w, r) /\ req'[w] # Geen
  <2>1. q.fase \in Lezend
    BY <1>12 DEF Verwijder, Lezend
  <2>2. ~Einde(w)
    BY <1>12 DEF Einde, TypeInv, TypeOK
  <2>3. Fase(w, "delete_in_transactie") /\ Aanroep(w, "delete", r, i.naar, i.url)
    BY <1>12, <2>2 DEF Verwijder
  <2> QED BY <1>8, <2>1, <2>3
<1> QED BY <1>4, <1>7, <1>10, <1>11, <1>12

\* A transaction that ends without a call
LEMMA CommitBeide ==
  ASSUME TypeInv, TypeInv', RelatieInv, NEW w \in Werkers, req[w] # Geen, req'[w] = Geen,
         Verplaats(w, req[w].r) \/ Verwijder(w, req[w].r)
  PROVE  RelatieInv'
<1> USE GeenAssumption
<1> DEFINE q == req[w]
           i == q.rij
<1>1. /\ q \in Verzoek /\ Passend(q, aanroep[w], geraakt) /\ i # Geen /\ i \in Rij
      /\ q.r \in Relaties
      /\ q.r \notin samen =>
           /\ rij[q.r] = GelezenRij(q)
           /\ q.r \notin geraakt => Verwacht(w)
           /\ q.r \in Besluiten /\ rij[q.r] # Geen /\ rij[q.r].naar \in Lokaal =>
                spiegel[<<q.r, rij[q.r].naar>>] # 0
  BY Bezet DEF Verzoek
<1>2. UNCHANGED <<samen, geraakt>>
  BY DEF Verplaats, Verwijder, tellers
<1>3. q.op \in {"verplaats", "verwijder"} /\ q.fase \in Lezend
  BY DEF Verplaats, Verwijder, Lezend
<1>4. PICK r \in Besluiten : r = q.r
  BY <1>1, <1>3 DEF Passend, Relaties
<1>5. PICK oud, url : oud = i.naar /\ url = i.url
  OBVIOUS
<1>6. aanroep[w] = Geen /\ (r \notin samen => rij[r] = i)
  BY <1>1, <1>3, <1>4 DEF Passend, Lezend, GelezenRij
<1>7. r \notin samen /\ r \notin geraakt => Spiegels(r, oud, url)
  BY <1>1, <1>4, <1>5, <1>6 DEF Verwacht
<1>8. ASSUME NEW f, Fase(w, f) PROVE f \notin {"delete_in_transactie", "post_in_transactie"}
  <2>1. ASSUME f \in {"delete_in_transactie", "post_in_transactie"} PROVE FALSE
    <3>1. req'[w] = [q EXCEPT !.fase = f]
      BY <1>8 DEF Fase, TypeInv, TypeOK
    <3>2. req'[w] \in Verzoek
      BY <1>1, <2>1, <3>1 DEF Verzoek
    <3> QED BY <3>2
  <2> QED BY <2>1
<1>9. Einde(w) /\ UNCHANGED aanroep
  BY <1>8 DEF Verplaats, Verwijder
<1>10. SUFFICES
        /\ \A x \in Relaties \ {r} : rij'[x] = rij[x]
        /\ \A x \in Relaties \ {r} : \A y : <<x, y>> \in Paren => spiegel'[<<x, y>>] = spiegel[<<x, y>>]
        /\ r \notin samen =>
             /\ r \notin geraakt' => Gelijk(r)'
             /\ r \in Besluiten /\ rij'[r] # Geen /\ rij'[r].naar \in Lokaal =>
                  spiegel'[<<r, rij'[r].naar>>] # 0
  BY <1>2, <1>4, <1>9, EindeBeide, Buitenstaand DEF Afloop, Einde
\* It fails.
<1>11. CASE UNCHANGED <<rij, spiegel>>
  <2>1. ASSUME r \notin samen, r \notin geraakt PROVE Gelijk(r)'
    <3>1. Spiegels(r, oud, url)'
      BY <1>7, <1>11, <2>1 DEF Spiegels
    <3> QED BY <1>1, <1>5, <1>6, <1>11, <2>1, <3>1, Buitenstaand, GelijkNa
  <2> QED BY <1>1, <1>2, <1>4, <1>11, <2>1
<1>12. CASE Verplaats(w, r) /\ ~UNCHANGED <<rij, spiegel>>
  <2>1. LegVast(r, i, q.naar, i.url) /\ ~(q.naar # i.naar /\ q.naar \in Extern)
        /\ ~(q.naar # i.naar /\ SignaalFaalt(r, i.naar, q.naar))
    BY <1>8, <1>12 DEF Verplaats
  <2>2. CASE q.naar = i.naar
    <3>1. rij' = [rij EXCEPT ![r] = i] /\ UNCHANGED spiegel
      BY <1>1, <2>1, <2>2 DEF LegVast, Rij
    <3>2. /\ \A x \in Relaties \ {r} : rij'[x] = rij[x]
          /\ r \notin samen => rij'[r] = rij[r]
      BY <1>6, <3>1 DEF TypeInv, TypeOK
    <3>3. ASSUME r \notin samen, r \notin geraakt PROVE Gelijk(r)'
      <4>1. Spiegels(r, oud, url)'
        BY <1>7, <3>1, <3>3 DEF Spiegels
      <4> QED BY <1>1, <1>5, <1>6, <3>2, <3>3, <4>1, Buitenstaand, GelijkNa
    <3> QED BY <1>1, <1>2, <1>4, <3>1, <3>2, <3>3
  <2>3. CASE q.naar # i.naar
    <3>1. q.naar \in Lokaal \cup {Geen} /\ i.naar \notin Extern /\ i.url \in 0..MaxUrl
      <4>1. q.naar \in Extern \cup Lokaal \cup {Geen}
        BY <1>1, <1>4, Buitenstaand DEF Passend, Naar
      <4>2. i.url \in 0..MaxUrl
        BY <1>1 DEF Rij
      <4> QED BY <2>1, <2>3, <4>1, <4>2 DEF SignaalFaalt
    <3>2. /\ \A x \in Relaties \ {r} : rij'[x] = rij[x]
          /\ \A x \in Relaties \ {r} : \A y : <<x, y>> \in Paren => spiegel'[<<x, y>>] = spiegel[<<x, y>>]
          /\ \A x \in Buiten : <<r, x>> \in Paren => spiegel'[<<r, x>>] = spiegel[<<r, x>>]
          /\ rij'[r] # Geen /\ rij'[r].naar = q.naar /\ rij'[r].url = i.url
          /\ q.naar \in Lokaal => spiegel'[<<r, q.naar>>] = 1
      BY <1>1, <2>1, <2>3, <3>1, VastgelegdNa
    <3>3. ASSUME r \notin samen, r \notin geraakt PROVE Gelijk(r)'
      <4>1. Spiegels(r, Geen, 0)
        BY <1>5, <1>7, <3>1, <3>3, GeenSpiegel
      <4>2. Spiegels(r, Geen, 0)'
        BY <3>2, <4>1 DEF Spiegels
      <4>3. PICK naar : naar = q.naar
        OBVIOUS
      <4>4. naar \notin Extern
        BY <3>1, <4>3, Buitenstaand, ExterneRelatiesAssumption
      <4>5. Spiegels(r, naar, url)'
        BY <4>2, <4>4, GeenSpiegelNa
      <4> QED BY <1>5, <3>2, <4>3, <4>5, Buitenstaand, GelijkNa
    <3> QED BY <1>2, <3>2, <3>3
  <2> QED BY <2>2, <2>3
<1>13. CASE Verwijder(w, r) /\ ~UNCHANGED <<rij, spiegel>>
  <2>1. Verwijderd(r, i) /\ ~(i.naar \in Extern /\ i.url # 0)
    BY <1>8, <1>13 DEF Verwijder
  <2>2. /\ \A x \in Relaties \ {r} : rij'[x] = rij[x]
        /\ \A x \in Relaties \ {r} : \A y : <<x, y>> \in Paren => spiegel'[<<x, y>>] = spiegel[<<x, y>>]
    BY <2>1 DEF Verwijderd, Teruggenomen, TypeInv, TypeOK
  <2>3. r \notin samen => rij'[r] = Geen
    BY <1>1, <1>4, <1>6, <2>1 DEF Verwijderd, Teruggenomen, Zelfde, TypeInv, TypeOK
  <2>4. ASSUME r \notin samen, r \notin geraakt PROVE Gelijk(r)'
    <3>1. Spiegels(r, Geen, 0)
      BY <1>5, <1>7, <2>1, <2>4, GeenSpiegel
    <3>2. Spiegels(r, Geen, 0)'
      BY <2>1, <3>1, Buitenstaand DEF Spiegels, Verwijderd
    <3> QED BY <1>4, <2>3, <2>4, <3>2, Buitenstaand, GelijkNa
  <2> QED BY <1>2, <2>2, <2>3, <2>4
<1> QED BY <1>4, <1>11, <1>12, <1>13

LEMMA BesluitMaakBeide ==
  ASSUME TypeInv, TypeInv', RelatieInv, NEW w \in Werkers, NEW b \in Besluiten,
         NEW naar \in Extern \cup Lokaal \cup {Geen}, BesluitMaak(w, b, naar)
  PROVE  RelatieInv'
<1> USE GeenAssumption
<1> DEFINE nieuw == [pk |-> rijen', naar |-> Geen, url |-> 0]
<1>1. /\ rij[b] = Geen /\ ~Vergrendeld(w, b) /\ req[w] = Geen /\ aanroep[w] = Geen
      /\ rijen' = rijen + 1 /\ UNCHANGED geraakt /\ b \in Relaties
  BY Buitenstaand DEF BesluitMaak, Start
<1>2. nieuw \in Rij
  <2>1. rijen' \in 1..MaxRij /\ 0 \in 0..MaxUrl
    BY <1>1, ExterneRelatiesAssumption DEF TypeInv, TypeOK
  <2> QED BY <2>1 DEF Rij
<1>3. CASE naar \in Extern
  <2> DEFINE q == [op |-> "besluit", r |-> b, rij |-> nieuw, naar |-> naar, fase |-> "post_in_transactie"]
             c == [soort |-> "post", r |-> b, naar |-> naar, url |-> 0, stap |-> "uit"]
  <2>1. /\ req' = [req EXCEPT ![w] = q] /\ aanroep' = [aanroep EXCEPT ![w] = c]
        /\ UNCHANGED <<rij, spiegel>>
        /\ samen' = samen \cup {x \in {b} : \E v \in Werkers : Bezig(v, b)}
    BY <1>3 DEF BesluitMaak, Start, Aanroep
  <2>2. /\ req'[w] = q /\ aanroep'[w] = c
        /\ \A v \in Werkers \ {w} : req'[v] = req[v] /\ aanroep'[v] = aanroep[v]
    BY <2>1 DEF TypeInv, TypeOK
  <2>3. q \in Verzoek /\ c \in Oproep
    <3>1. 0 \in 0..MaxUrl
      BY ExterneRelatiesAssumption
    <3> QED BY <1>1, <1>2, <1>3, <3>1 DEF Verzoek, Oproep, Buiten
  <2>4. Plaatselijk(w, b)
    BY <1>1, <2>1, <2>2 DEF Plaatselijk
  <2>5. ASSUME b \notin samen'
        PROVE  /\ \A v \in Werkers : ~Bezig(v, b)
               /\ b \notin geraakt => Verwacht(w)'
    <3>1. b \notin samen /\ \A v \in Werkers : ~Bezig(v, b)
      BY <2>1, <2>5
    <3>2. ASSUME b \notin geraakt PROVE Verwacht(w)'
      <4>1. Spiegels(b, Geen, 0)
        BY <1>1, <3>1, <3>2, Onbezet
      <4>2. Spiegels(b, Geen, 0)'
        BY <2>1, <4>1 DEF Spiegels
      <4> QED BY <2>2, <2>3, <4>2 DEF Verwacht, Makend
    <3> QED BY <3>1, <3>2
  <2>6. Resultaat(w, b)
    BY <1>1, <2>1, <2>2, <2>3, <2>5 DEF Resultaat, GelezenRij
  <2> QED BY <1>1, <2>4, <2>6, PlaatselijkeStap
\* A commit without a call: no other request about the besluit has gone further than reading.
<1>4. CASE naar \notin Extern
  <2>1. LegVast(b, nieuw, naar, 0) /\ UNCHANGED <<req, aanroep, samen>>
    BY <1>4 DEF BesluitMaak
  <2>2. nieuw.naar = Geen
    OBVIOUS
  <2> HIDE DEF nieuw
  <2>3. naar \in Lokaal \cup {Geen} /\ Geen \notin Extern /\ 0 \in 0..MaxUrl
    BY <1>4, ExterneRelatiesAssumption
  <2>4. /\ \A x \in Relaties \ {b} : rij'[x] = rij[x]
        /\ \A x \in Relaties \ {b} : \A y : <<x, y>> \in Paren => spiegel'[<<x, y>>] = spiegel[<<x, y>>]
        /\ \A x \in Buiten : <<b, x>> \in Paren => spiegel'[<<b, x>>] = spiegel[<<b, x>>]
        /\ rij'[b] # Geen /\ rij'[b].naar = naar /\ rij'[b].url = 0
        /\ naar \in Lokaal /\ naar # Geen => spiegel'[<<b, naar>>] = 1
    BY <1>2, <2>1, <2>2, <2>3, VastgelegdNa
  <2>5. ASSUME NEW v \in Werkers \ {w}, Bezig(v, b), b \notin samen PROVE FALSE
    <3>1. /\ req[v] \in Verzoek /\ Passend(req[v], aanroep[v], geraakt) /\ req[v].r = b
          /\ rij[b] = GelezenRij(req[v]) /\ req[v] # Geen
      BY <2>5, Bezet DEF Bezig
    <3>2. req[v].op = "besluit"
      BY <1>1, <3>1, Buitenstaand DEF GelezenRij, Passend, Fasen, Verzoek
    <3>3. req[v].fase = "post_in_transactie"
      BY <3>1, <3>2 DEF Passend, Fasen
    <3> QED BY <1>1, <2>5, <3>3 DEF Vergrendeld
  <2>6. ASSUME b \notin samen, b \notin geraakt PROVE Gelijk(b)'
    <3>1. \A v \in Werkers : ~Bezig(v, b)
      BY <1>1, <2>5, <2>6 DEF Bezig
    <3>2. Spiegels(b, Geen, 0)
      BY <1>1, <2>6, <3>1, Onbezet
    <3>3. Spiegels(b, Geen, 0)'
      BY <2>4, <3>2 DEF Spiegels
    <3>4. Spiegels(b, naar, 0)'
      BY <3>3, GeenSpiegelNa
    <3> QED BY <1>1, <2>4, <3>4, GelijkNa
  <2>7. Plaatselijk(w, b)
    BY <1>1, <2>1, <2>4 DEF Plaatselijk
  <2>8. naar \in Lokaal => naar # Geen
    BY ExterneRelatiesAssumption
  <2>9. Resultaat(w, b)
    BY <1>1, <2>1, <2>4, <2>5, <2>6, <2>8 DEF Resultaat
  <2> QED BY <1>1, <2>7, <2>9, PlaatselijkeStap
<1> QED BY <1>3, <1>4

\* Requests, rows and the mirrors of untouched relations stay; only calls that nobody waits
\* for go on.
LEMMA Ongemoeid ==
  ASSUME TypeInv, RelatieInv, UNCHANGED <<rij, req, samen, geraakt>>,
         \A v \in Werkers : req[v] # Geen => aanroep'[v] = aanroep[v],
         \A x \in Relaties \ geraakt : \A y \in Buiten :
           <<x, y>> \in Paren => spiegel'[<<x, y>>] = spiegel[<<x, y>>],
         BesluitHeeftZaakbesluit'
  PROVE  RelatieInv'
<1>1. Enig' /\ Ongewijzigd'
  BY DEF RelatieInv, Enig, Ongewijzigd, Bezig, GelezenRij
<1>2. ASSUME NEW r \in Relaties, r \notin geraakt \cup samen, NEW w \in Werkers, Bezig(w, r)
      PROVE  Verwacht(w)'
  <2>1. \A naar, url : Spiegels(r, naar, url)' <=> Spiegels(r, naar, url)
    BY <1>2 DEF Spiegels
  <2>2. Verwacht(w) /\ req[w].r = r
    BY <1>2 DEF RelatieInv, SpiegelInv, Bezig
  <2> QED BY <1>2, <2>1, <2>2 DEF Verwacht, Bezig
<1>3. ASSUME NEW r \in Relaties, r \notin geraakt \cup samen, \A w \in Werkers : ~Bezig(w, r)
      PROVE  Gelijk(r)'
  <2>1. Gelijk(r)
    BY <1>3 DEF RelatieInv, SpiegelInv
  <2> QED BY <1>3, <2>1 DEF Gelijk
<1>4. SpiegelInv'
  BY <1>2, <1>3 DEF SpiegelInv, Bezig
<1> QED BY <1>1, <1>4 DEF RelatieInv

LEMMA ZaakbesluitBeide ==
  ASSUME TypeInv, RelatieInv, NEW b \in Besluiten, NEW z \in Lokaal, ZaakbesluitWis(b, z)
  PROVE  RelatieInv'
<1>1. /\ UNCHANGED <<rij, req, aanroep, samen, geraakt>>
      /\ rij[b].naar # z /\ spiegel' = [spiegel EXCEPT ![<<b, z>>] = 0]
  BY DEF ZaakbesluitWis, tellers
<1>2. \A p \in Paren : p # <<b, z>> => spiegel'[p] = spiegel[p]
  BY <1>1 DEF TypeInv, TypeOK
<1>3. \A x \in Relaties, y \in Buiten : <<x, y>> \in Paren => spiegel'[<<x, y>>] = spiegel[<<x, y>>]
  BY <1>2, Buitenstaand
<1>4. BesluitHeeftZaakbesluit'
  BY <1>1, <1>2, Buitenstaand DEF RelatieInv, BesluitHeeftZaakbesluit
<1> QED BY <1>1, <1>3, <1>4, Ongemoeid

LEMMA BBeide ==
  ASSUME TypeInv, TypeInv', RelatieInv, NEW w \in Werkers, BNext(w)
  PROVE  RelatieInv'
<1> USE GeenAssumption
<1> DEFINE q == req[w]
           c == aanroep[w]
<1>1. /\ c # Geen /\ c \in Oproep /\ Passend(q, c, geraakt)
      /\ UNCHANGED <<rij, req, samen, geraakt>>
      /\ \A v \in Werkers \ {w} : aanroep'[v] = aanroep[v]
  BY DEF BNext, Controle, Weiger, Maak, Wis, Vervalt, Stap, tellers, TypeInv, TypeOK, VerzoekenInv
<1>2. PICK r \in Relaties, naar \in Buiten : r = c.r /\ naar = c.naar
  BY <1>1 DEF Oproep
<1>3. \A p \in Paren : p # <<r, naar>> => spiegel'[p] = spiegel[p]
  BY <1>2 DEF BNext, Controle, Weiger, Maak, Wis, Vervalt, TypeInv, TypeOK
<1>4. BesluitHeeftZaakbesluit'
  BY <1>1, <1>2, <1>3, Buitenstaand DEF RelatieInv, BesluitHeeftZaakbesluit
<1>5. CASE q = Geen
  <2>1. r \in geraakt
    BY <1>1, <1>2, <1>5 DEF Passend
  <2>2. \A x \in Relaties \ geraakt : \A y \in Buiten :
           <<x, y>> \in Paren => spiegel'[<<x, y>>] = spiegel[<<x, y>>]
    BY <1>3, <2>1
  <2> QED BY <1>1, <1>4, <1>5, <2>2, Ongemoeid
<1>6. CASE q # Geen
  <2>1. /\ q \in Verzoek /\ q.r = r /\ q.fase \notin Lezend
        /\ r \notin samen =>
             /\ \A v \in Werkers \ {w} : ~Bezig(v, r)
             /\ rij[r] = GelezenRij(q)
             /\ r \notin geraakt => Verwacht(w)
    BY <1>1, <1>2, <1>6, Bezet DEF Passend
  <2>2. Plaatselijk(w, r)
    BY <1>1, <1>3, <2>1 DEF Plaatselijk
  <2>3. ~Vervalt(w)
    BY <1>6 DEF Vervalt
  <2>4. PICK oud, url : oud = q.rij.naar /\ url = c.url
    OBVIOUS
  <2>5. ASSUME r \notin samen, r \notin geraakt PROVE Verwacht(w)'
    \* Before B made or deleted the mirror
    <3>1. CASE UNCHANGED spiegel /\ \E stap \in {"nagegaan", "nee"} : c.stap # "ja" /\ Stap(w, stap)
      <4>1. PICK stap \in {"nagegaan", "nee"} : c.stap # "ja" /\ Stap(w, stap)
        BY <3>1
      <4>2. aanroep'[w] = [c EXCEPT !.stap = stap]
        BY <4>1 DEF Stap, TypeInv, TypeOK
      <4>3. aanroep'[w] # Geen /\ aanroep'[w].stap # "ja"
        <5>1. aanroep'[w] \in Oproep /\ aanroep'[w].stap = stap
          BY <1>1, <4>2 DEF Oproep
        <5> QED BY <5>1
      <4>4. PICK n, u : n = q.rij.naar /\ u = q.rij.url
        OBVIOUS
      <4>5. \/ q.fase \in Makend /\ Spiegels(r, Geen, 0)
            \/ q.fase \notin Makend /\ Spiegels(r, n, u)
        BY <1>1, <2>1, <2>5, <4>1, <4>4 DEF Verwacht
      <4>6. \/ q.fase \in Makend /\ Spiegels(r, Geen, 0)'
            \/ q.fase \notin Makend /\ Spiegels(r, n, u)'
        BY <3>1, <4>5 DEF Spiegels
      <4>7. req'[w] = q
        BY <1>1
      <4> QED BY <2>1, <4>3, <4>4, <4>6, <4>7 DEF Verwacht
    <3>2. CASE Maak(w) /\ spiegel[<<r, naar>>] = 0
      <4>1. /\ q.fase \in Makend /\ q.naar = naar /\ c.stap = "nagegaan"
            /\ spiegel' = [spiegel EXCEPT ![<<r, naar>>] = urls']
            /\ aanroep' = [aanroep EXCEPT ![w].stap = "ja", ![w].url = urls']
        BY <1>1, <1>2, <1>6, <3>2 DEF Maak, Passend
      <4>2. aanroep'[w] = [c EXCEPT !.stap = "ja", !.url = urls']
        BY <4>1 DEF TypeInv, TypeOK
      <4>3. aanroep'[w] # Geen /\ aanroep'[w].stap = "ja" /\ aanroep'[w].url = urls'
        <5>1. urls' \in 0..MaxUrl
          BY DEF TypeInv, TypeOK
        <5>2. aanroep'[w] \in Oproep /\ aanroep'[w].stap = "ja" /\ aanroep'[w].url = urls'
          BY <1>1, <4>2, <5>1 DEF Oproep
        <5> QED BY <5>2
      <4>4. Spiegels(r, Geen, 0)
        BY <1>1, <2>1, <2>5, <4>1 DEF Verwacht
      <4>5. PICK u : u = urls'
        OBVIOUS
      <4>6. Spiegels(r, naar, u)'
        BY <4>1, <4>4, <4>5, Buitenstaand DEF Spiegels, TypeInv, TypeOK
      <4>7. req'[w] = q
        BY <1>1
      <4> QED BY <2>1, <4>1, <4>3, <4>5, <4>6, <4>7 DEF Verwacht
    <3>3. CASE Wis(w)
      <4>1. /\ q.fase \notin Makend /\ oud = naar /\ url = q.rij.url /\ c.stap = "nagegaan"
            /\ spiegel' = [spiegel EXCEPT ![<<r, naar>>] = IF @ = url THEN 0 ELSE @]
            /\ Stap(w, "ja")
        BY <1>1, <1>2, <1>6, <2>4, <3>3 DEF Wis, Passend
      <4>2. aanroep'[w] = [c EXCEPT !.stap = "ja"]
        BY <4>1 DEF Stap, TypeInv, TypeOK
      <4>3. aanroep'[w] # Geen /\ aanroep'[w].stap = "ja"
        <5>1. aanroep'[w] \in Oproep /\ aanroep'[w].stap = "ja"
          BY <1>1, <4>2 DEF Oproep
        <5> QED BY <5>1
      <4>4. Spiegels(r, naar, url)
        BY <1>1, <2>1, <2>4, <2>5, <4>1 DEF Verwacht
      <4>5. Spiegels(r, Geen, 0)'
        BY <4>1, <4>4, Buitenstaand DEF Spiegels, TypeInv, TypeOK
      <4>6. req'[w] = q
        BY <1>1
      <4> QED BY <2>1, <4>1, <4>3, <4>5, <4>6 DEF Verwacht
    <3>4. CASE Maak(w) /\ spiegel[<<r, naar>>] # 0
      BY <1>2, <3>1, <3>4 DEF Maak
    <3>5. CASE Controle(w) \/ Weiger(w)
      BY <3>1, <3>5 DEF Controle, Weiger
    <3> QED BY <2>3, <3>2, <3>3, <3>4, <3>5 DEF BNext
  <2>6. Resultaat(w, r)
    BY <1>1, <1>4, <1>6, <2>1, <2>5 DEF Resultaat, BesluitHeeftZaakbesluit
  <2> QED BY <2>2, <2>6, PlaatselijkeStap
<1> QED BY <1>5, <1>6

LEMMA RelatieStap ==
  ASSUME TypeInv, TypeInv', RelatieInv, [Next]_vars
  PROVE  RelatieInv'
<1>1. ASSUME NEW w \in Werkers, KoppelNext(w) PROVE RelatieInv'
  BY <1>1, KoppelBeide, LeesBeide, OntkoppelBeide, JaBeide, NeeBeide DEF KoppelNext
<1>2. ASSUME NEW w \in Werkers, BesluitNext(w) PROVE RelatieInv'
  BY <1>2, BesluitMaakBeide, LeesBeide, TransactieBeide, CommitBeide, JaBeide, NeeBeide DEF BesluitNext
<1>3. ASSUME NEW w \in Werkers, BNext(w) \/ Crash(w) PROVE RelatieInv'
  BY <1>3, BBeide, NeeBeide
<1>4. CASE UNCHANGED vars
  <2>1. BesluitHeeftZaakbesluit'
    BY <1>4 DEF vars, tellers, RelatieInv, BesluitHeeftZaakbesluit
  <2> QED BY <1>4, <2>1, Ongemoeid DEF vars, tellers
<1> QED BY <1>1, <1>2, <1>3, <1>4, ZaakbesluitBeide DEF Next

\* When no request is busy with a relation, both installations have it or neither does, unless
\* a call about it was lost, the second call of a move was refused, or two requests about it
\* ran at the same time; and a besluit about a zaak of A has its zaakbesluit.
THEOREM BeideZijden == Spec => []RelatiesKloppen
<1>1. Init => TypeInv /\ RelatieInv
  <2> SUFFICES ASSUME Init PROVE RelatieInv
    BY TypeBegin
  <2>1. \A w \in Werkers : req[w] = Geen
    BY DEF Init
  <2>2. Enig /\ Ongewijzigd
    BY <2>1 DEF Enig, Ongewijzigd, Bezig
  <2>3. \A r \in Relaties : rij[r] = Geen /\ Gelijk(r)
    BY DEF Init, Gelijk
  <2>4. SpiegelInv
    BY <2>1, <2>3 DEF SpiegelInv, Bezig
  <2>5. BesluitHeeftZaakbesluit
    BY <2>3, Buitenstaand DEF BesluitHeeftZaakbesluit
  <2> QED BY <2>2, <2>4, <2>5 DEF RelatieInv
<1>2. TypeInv /\ RelatieInv /\ [Next]_vars => (TypeInv /\ RelatieInv)'
  BY TypeStap, RelatieStap
<1>3. RelatieInv => RelatiesKloppen
  BY DEF RelatieInv, SpiegelInv, RelatiesKloppen, Gespiegeld, Rustig
<1> QED BY <1>1, <1>2, <1>3, PTL DEF Spec

=============================================================================
