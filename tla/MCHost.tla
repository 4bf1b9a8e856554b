-------------------------------- MODULE MCHost --------------------------------
(***************************************************************************)
(* The governor and the parts of the host on small instances: three calls  *)
(* of two processes; two shells; two discovery processes over a board of   *)
(* two postings; forms of one or two fields, inspected twice; one job, two task   *)
(* slots and two profiles; a remote stop over two boots of the runner.     *)
(***************************************************************************)
EXTENDS Host, TLC

\* Two workers, and what runs in them or beside them, are alike: exchanging them,
\* everywhere, changes nothing.
Alike == Permutations(Workers)

\* Two slots in one process, one in another.
Placement == [c \in Calls |-> IF c \in Workers THEN "p1" ELSE "p2"]

\* A row of every task; and intents that change from one posting to the other.
RowOfEach == <<1, 1, 1, 1>>
Intents == <<{"p1"}, {"p2"}>>

\* Fields of one form: an identity, a fact, a sensitive question, a mislabelled
\* one, an unnamed essay, the CV, one the page declares sensitive, a consent and a control nobody knows.
Field(type, name, label, category, protected, required) ==
    [type |-> type, name |-> name, label |-> label, category |-> category,
     protected |-> protected, required |-> required]
EmailField   == Field("text", "email", "email", "", FALSE, TRUE)
MarkedEmail  == Field("text", "email", "email", "demographic", FALSE, FALSE)
CloudField   == Field("select", "cloud_platform", "cloud_platform", "", FALSE, TRUE)
PermitField  == Field("select", "work_permit", "work_permit", "authorization", FALSE, TRUE)
Mislabelled  == Field("text", "hobby", "religion", "", FALSE, TRUE)
EssayField   == Field("text", "", "essay", "", FALSE, FALSE)
SecondEssay  == Field("text", "", "essay", "", FALSE, TRUE)
ResumeField  == Field("file", "resume", "resume", "", FALSE, TRUE)
MarkedResume == Field("file", "resume", "resume", "demographic", FALSE, FALSE)
ConsentField == Field("consent", "", "consent", "consent", FALSE, TRUE)
UnknownField == Field("unknown", "", "essay", "", TRUE, FALSE)
FormsShown == {<<EmailField, PermitField>>, <<MarkedEmail, CloudField>>,
               <<EssayField, SecondEssay>>, <<ResumeField, Mislabelled>>,
               <<ConsentField, UnknownField>>, <<MarkedResume>>}

\* What a profile and a CV may say of what a form asks.
EvidenceHeld ==
    {[identity |-> "none", confirmed |-> c, cvProfile |-> "none", cvCatalog |-> "fit"] :
        c \in {"none", "private"}}
    \cup {[identity |-> "fit", confirmed |-> "fit", cvProfile |-> "none", cvCatalog |-> "none"],
          [identity |-> "odd", confirmed |-> "hostile", cvProfile |-> "fit", cvCatalog |-> "odd"]}

=============================================================================
