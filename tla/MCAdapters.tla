----------------------------- MODULE MCAdapters -----------------------------
(***************************************************************************)
(* The adapters for TLC.  Besides changes of the page a behaviour has one  *)
(* kind of trouble: a second commit call, or a page whose scripts post by  *)
(* themselves.  In the second case nothing expires and the page shows none *)
(* of the looks that stop an adapter anyway.                               *)
(***************************************************************************)
EXTENDS Adapters

\* "more" is what "base" becomes once its last answer is given.
ControlsOf == [f \in {"base", "more"} |->
                 IF f = "base" THEN {"cv", "name"} ELSE {"cv", "name", "detail"}]

CalmLooks == {{}, {"form"}, {"form", "submit"}, {"resume_upload"}, {"review"}, {"confirmation"}}

Bounded ==
    /\ trouble = "page_posts" => window' /\ page'.marks \in CalmLooks
    /\ \A c \in Callers \ {TheWorker} :
          adapter # "workday" /\ commit'[c] # commit[c] => trouble = "second_commit"

MCSpec == Init /\ [][Next /\ Bounded]_vars

=============================================================================
