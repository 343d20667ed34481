----------------------------- MODULE MCZaakDossier -----------------------------
(* ZaakDossier for TLC. *)
EXTENDS ZaakDossier, TLC

Symmetrie == Permutations(Werkers) \cup Permutations(Zaken)

CONSTANT MaxRollen    \* bound: roles made, when a behaviour is about roles

VARIABLE onderwerp    \* of one behaviour: relations of zaken with others, with themselves, or roles

\* Bounds for the behaviours about roles: two requests at a time are about the same zaak,
\* and there is a zaak left about which EenRol says something.
RolGrens ==
  /\ \A w \in Werkers :
       pks + (IF tx[w] = Geen THEN 0
              ELSE Cardinality({i \in DOMAIN tx[w].rollen : tx[w].rollen[i].pk = 0})) <= MaxRollen
  /\ samen \cup verplaatst # Zaken
  /\ \A v, w \in Werkers : v # w /\ tx[v] # Geen /\ tx[w] # Geen =>
       tx[v].zaak = tx[w].zaak /\ {tx[v].op, tx[w].op} # {"rol"}

DeelInit == Init /\ onderwerp \in {"relaties", "zelf", "rollen"}

\* What a request on the relations of a zaak names: others, or the zaak itself
LijstGrens(t) ==
  IF onderwerp = "zelf" THEN t.lijst \subseteq {t.zaak} ELSE t.zaak \notin t.lijst

DeelNext ==
  /\ Next
  /\ \A w \in Werkers : tx'[w] # Geen =>
       \/ tx'[w].op = "delete"
       \/ /\ tx'[w].op \in {"post", "patch"} <=> onderwerp # "rollen"
          /\ LijstGrens(tx'[w])
  /\ onderwerp = "rollen" => RolGrens'
  /\ UNCHANGED onderwerp

DeelSpec == DeelInit /\ [][DeelNext]_<<vars, onderwerp>>

=============================================================================
