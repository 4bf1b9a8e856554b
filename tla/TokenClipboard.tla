--------------------------- MODULE TokenClipboard ---------------------------
(***************************************************************************)
(* copy_operator_token of scripts/control_plane_identity.py: the operator  *)
(* token is put on the Windows clipboard for a while and taken off again,  *)
(* unless the clipboard was used in between.  Two shells may run it, the   *)
(* user copies what they like (the token itself too), another program may  *)
(* hold the clipboard open, and any wait may be interrupted.               *)
(***************************************************************************)
EXTENDS Naturals

CONSTANTS
    Shells,
    Attempts,      \* _CLIPBOARD_CLEAR_ATTEMPTS
    MaxCopies      \* bound: what the user copies

VARIABLES
    clip,          \* text, who put it there, and the sequence number
    copier,        \* each shell: where it is, its ClipboardLease, attempts, how it ended
    copies

vars == <<clip, copier, copies>>

Fresh == [at |-> "idle", lease |-> 0, tries |-> 0, ended |-> "not"]

Init ==
    /\ clip = [text |-> "empty", owner |-> "nobody", seq |-> 1]
    /\ copier = [s \in Shells |-> Fresh]
    /\ copies = 0

Place(text, owner) == [text |-> text, owner |-> owner, seq |-> clip.seq + 1]
End(s, how) == copier' = [copier EXCEPT ![s].at = "ended", ![s].ended = how]

\* set_text: empty, set, read the sequence number, in one opening of the
\* clipboard; without a sequence number the token is taken off at once, if it can be.
SetText(s) ==
    /\ copier[s].at = "idle"
    /\ \/ /\ clip' = Place("token", s)
          /\ copier' = [copier EXCEPT ![s].at = "shown", ![s].lease = clip.seq + 1]
       \/ clip' \in {clip, Place("empty", "nobody"), Place("token", s)} /\ End(s, "failed")
    /\ UNCHANGED copies

\* The sleep ends, or is interrupted, which does not skip the cleanup.
Wake(s) ==
    /\ copier[s].at = "shown"
    /\ copier' = [copier EXCEPT ![s].at = "clear"]
    /\ UNCHANGED <<clip, copies>>

\* clear_if_unchanged: the sequence number and the text are still those of
\* the lease.
Fault_Unchanged(s) == clip.text = "token"
Unchanged(s) == clip.seq = copier[s].lease /\ clip.text = "token"

Clear(s) ==
    /\ copier[s].at = "clear"
    /\ IF Unchanged(s)
       THEN clip' = Place("empty", "nobody") /\ End(s, "cleared")
       ELSE End(s, "left") /\ UNCHANGED clip
    /\ UNCHANGED copies

\* clear_if_unchanged cannot read the text although the sequence number is the lease's
\* (the format, the handle, the size or the encoding is not as expected): it returns
\* False as if the clipboard had been used, and the command ends without an error.
ClearUnread(s) ==
    /\ copier[s].at = "clear" /\ clip.seq = copier[s].lease
    /\ End(s, "unread") /\ UNCHANGED <<clip, copies>>

\* CLIPBOARD_UNAVAILABLE: again, even if the pause is interrupted, up to the
\* last attempt; any other error ends with a warning and an error.
Fault_GiveUp == "left"
GiveUp == "failed"
Unavailable(s) ==
    /\ copier[s].at = "clear"
    /\ \/ /\ copier[s].tries + 1 < Attempts
          /\ copier' = [copier EXCEPT ![s].tries = @ + 1]
       \/ End(s, GiveUp)
    /\ UNCHANGED <<clip, copies>>

Kill(s) ==
    /\ copier[s].at \in {"shown", "clear"} /\ End(s, "killed")
    /\ UNCHANGED <<clip, copies>>

UserCopies(text) ==
    /\ copies < MaxCopies /\ copies' = copies + 1
    /\ clip' = Place(text, "user")
    /\ UNCHANGED copier

Next ==
    \/ \E s \in Shells :
          SetText(s) \/ Wake(s) \/ Clear(s) \/ ClearUnread(s) \/ Unavailable(s) \/ Kill(s)
    \/ \E text \in {"token", "other"} : UserCopies(text)

Spec == Init /\ [][Next]_vars

----------------------------------------------------------------------------
\* A copy that ended without an error and was not killed has left no token of its own
\* behind, unless it could not read its own text back: then it says that the content
\* changed, which it did not, and returns as after a change.
NoTokenLeft ==
    \A s \in Shells : clip.owner = s => copier[s].ended \in {"not", "failed", "killed", "unread"}

\* The cleanup takes off what its own command put there and nothing else, not
\* even the same token copied by the user or by another shell.
ForeignClipboardKept ==
    \A s \in Shells :
        copier[s].ended = "not" /\ copier'[s].ended = "cleared" => clip.owner = s

\* Both, at every step: the clipboard is given back as it should be.
ClipboardGivenBack == [][NoTokenLeft' /\ ForeignClipboardKept]_vars

\* The shape of the state.
Endings == {"not", "failed", "killed", "cleared", "left", "unread"}
ClipboardTypeOK ==
    /\ clip \in [text : {"empty", "token", "other"}, owner : Shells \cup {"user", "nobody"},
                 seq : Nat]
    /\ copier \in [Shells -> [at : {"idle", "shown", "clear", "ended"}, lease : Nat, tries : Nat,
                             ended : Endings]]

\* While a command has its token to take off, the clipboard is its own exactly when
\* the sequence number is that of its lease; the token is the text then.
LeaseTells ==
    \A s \in Shells : copier[s].at \in {"shown", "clear"} =>
        /\ copier[s].ended = "not" /\ copier[s].lease <= clip.seq
        /\ clip.seq = copier[s].lease <=> clip.owner = s
        /\ clip.owner = s => clip.text = "token"

\* Nothing on the clipboard is of a command that has not begun or has taken it off.
ClipboardInv ==
    /\ ClipboardTypeOK /\ LeaseTells /\ NoTokenLeft
    /\ \A s \in Shells : copier[s].at = "idle" => clip.owner # s /\ copier[s].ended = "not"

=============================================================================
