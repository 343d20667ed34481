------------------------- MODULE MCZaakAfhandeling -------------------------
(* ZaakAfhandeling for TLC. *)
EXTENDS ZaakAfhandeling, TLC

VARIABLE onderwerp    \* of one behaviour

\* What a behaviour is about: two zaken, a hoofdzaak and a deelzaak or related, and the archiving
\* that follows from closing them; one zaak and archiving from a date of its own; or one with a
\* document.
Statussen == {"vrij", "status", "samen", "samen_save"}
Over ==
  [deelzaken    |-> [zaken |-> Zaken, wijzen |-> {"afgehandeld", "hoofdzaak"}, fasen |-> Statussen],
   gerelateerd  |-> [zaken |-> Zaken, wijzen |-> {"gerelateerde_zaak"}, fasen |-> {"vrij", "status"}],
   eigenschap   |-> [zaken |-> Hoofdzaken, wijzen |-> {"eigenschap", "termijn"},
                     fasen |-> Statussen \cup {"zaak", "zaak_save"}],
   documenten   |-> [zaken |-> Hoofdzaken, wijzen |-> {"afgehandeld"},
                     fasen |-> Statussen \cup {"zaak", "zaak_save"}],
   besluit      |-> [zaken |-> Hoofdzaken, wijzen |-> {"ingangsdatum_besluit", "vervaldatum_besluit"},
                     fasen |-> Statussen],
   object       |-> [zaken |-> Hoofdzaken, wijzen |-> {"zaakobject"}, fasen |-> Statussen]]

\* What of the origins of archiving a behaviour may change.
Velden(k) ==
  CASE onderwerp = "eigenschap" -> <<k.ingang, k.verval, k.object>>
    [] onderwerp = "besluit" -> <<k.eigenschap, k.object>>
    [] onderwerp = "object" -> <<k.eigenschap, k.ingang, k.verval>>
    [] OTHER -> k

DeelInit ==
  /\ Init
  /\ onderwerp \in DOMAIN Over
  /\ onderwerp # "deelzaken" => \A z \in Zaken : zaak[z].hoofdzaak = None
  /\ \A z \in Zaken : kenmerk[z].relevant =
       IF onderwerp = "gerelateerd" THEN Relevant \ {z} ELSE {}

DeelNext ==
  LET over == Over[onderwerp]
  IN /\ Next
     /\ UNCHANGED onderwerp
     /\ \A r \in Requests : /\ req'[r].fase \in over.fasen
                            /\ req'[r] # Idle => req'[r].zaak \in over.zaken
     /\ \A z \in Zaken : resultaat'[z] # None => z \in over.zaken /\ resultaat'[z].wijze \in over.wijzen
     /\ \A z \in Zaken : Velden(kenmerk'[z]) = Velden(kenmerk[z])
     /\ onderwerp = "deelzaken" => \A z \in Zaken : resultaat[z] # None => resultaat'[z] # None
     /\ onderwerp # "documenten" => UNCHANGED <<docs, zios>>
     /\ \A z \in Zaken \ over.zaken : kenmerk'[z] = kenmerk[z] /\ zios'[z] = zios[z]

DeelSpec == DeelInit /\ [][DeelNext]_<<vars, onderwerp>>

=============================================================================
