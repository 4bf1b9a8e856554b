---------------------------- MODULE CandidatePage ----------------------------
(***************************************************************************)
(* The employer's candidate page as the Lever, SmartRecruiters, Ashby and  *)
(* Workday adapters meet it: a document that shows markers, carries one    *)
(* version of the application form and holds answers and a file, and that  *)
(* may change whenever the adapter awaits.                                 *)
(*                                                                         *)
(* A field set stands for the fields with their labels, options and        *)
(* constraints, an action for the form's target, method and submitter: the *)
(* adapters only ever compare two of them.                                 *)
(***************************************************************************)
EXTENDS Naturals, Sequences, FiniteSets

CONSTANTS
    Looks,         \* marker sets the page may show
    FieldSets,     \* versions of the form's fields
    Actions,       \* versions of the form's final action
    MaxChanges,    \* bound: changes the page makes by itself
    MaxPosts       \* bound: requests the page's own scripts issue

VARIABLES
    page,      \* the page of the open session
    changes,   \* changes so far
    posts,     \* requests of the page's scripts so far
    requests,  \* requests inside the route handler
    sent       \* payloads that left the browser, in order

pageVars == <<page, changes, posts, requests, sent>>

Answers == {"blank", "planned", "other"}
Files == {"none", "routed", "other"}

Page == [marks : Looks \cup {{}}, fields : FieldSets \cup {"none"},
         action : Actions \cup {"none"}, answers : Answers, file : Files, bound : BOOLEAN]

BlankPage == [marks |-> {}, fields |-> "none", action |-> "none", answers |-> "blank",
              file |-> "none", bound |-> FALSE]

\* What a submission of the page would carry.
Payload(p) == [fields |-> p.fields, action |-> p.action, answers |-> p.answers, file |-> p.file]

\* The submission an operator reviewed: this form, the planned answers and
\* the routed CV.
Reviewed(form) == [fields |-> form[1], action |-> form[2], answers |-> "planned", file |-> "routed"]

NoPayload == Payload(BlankPage)

\* A navigation: whatever the site serves for the reviewed address today.
Served ==
    \E m \in Looks, f \in FieldSets, a \in Actions :
        page' = [marks |-> m, fields |-> f, action |-> a, answers |-> "blank",
                 file |-> "none", bound |-> TRUE]

\* The apply link was followed.
FormOpened == \E m \in Looks : page' = [page EXCEPT !.marks = m]

PageChange ==
    /\ changes < MaxChanges
    /\ changes' = changes + 1
    /\ \/ \E m \in Looks : page' = [page EXCEPT !.marks = m]
       \/ \E f \in FieldSets : page' = [page EXCEPT !.fields = f]
       \/ \E a \in Actions : page' = [page EXCEPT !.action = a]
       \/ \E a \in Answers : page' = [page EXCEPT !.answers = a]
       \/ \E f \in Files : page' = [page EXCEPT !.file = f]
       \/ page' = [page EXCEPT !.bound = FALSE]
    /\ UNCHANGED <<posts, requests, sent>>

----------------------------------------------------------------------------
(* Requests that mutate something, on their way through the route handler. *)

RequestIds(callers) == 1 .. Cardinality(callers) + MaxPosts
NoRequest == [stage |-> "none", native |-> FALSE, payload |-> NoPayload]
Stages == {"none", "new", "checked", "released", "aborted"}

\* native: the main-frame form submission the adapter expects, as opposed to
\* a fetch, a frame or another target.
Issue(native) ==
    \E r \in DOMAIN requests :
        /\ requests[r].stage = "none"
        /\ \A q \in DOMAIN requests : q < r => requests[q].stage # "none"
        /\ requests' = [requests EXCEPT ![r] =
                           [stage |-> "new", native |-> native, payload |-> Payload(page)]]

PagePosts ==
    /\ posts < MaxPosts
    /\ posts' = posts + 1
    /\ \E native \in BOOLEAN : Issue(native)
    /\ UNCHANGED <<page, changes, sent>>

Moved(r, stage) == requests' = [requests EXCEPT ![r].stage = stage]
Abort(r) == Moved(r, "aborted") /\ UNCHANGED sent
Release(r) == Moved(r, "released") /\ sent' = Append(sent, requests[r].payload)

PageInit(callers) ==
    /\ page = BlankPage /\ changes = 0 /\ posts = 0 /\ sent = <<>>
    /\ requests = [r \in RequestIds(callers) |-> NoRequest]

PageTypeOK ==
    /\ page \in Page
    /\ changes \in 0 .. MaxChanges /\ posts \in 0 .. MaxPosts
    /\ \A r \in DOMAIN requests : requests[r].stage \in Stages

=============================================================================
