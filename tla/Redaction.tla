------------------------------ MODULE Redaction ------------------------------
(***************************************************************************)
(* What becomes of a replay body at the storage boundary: the custom hook, *)
(* then the regex floor, and a hook that raises, or returns something that *)
(* is not a mapping, loses the content.  A body is told by what a hook can *)
(* do to it: it has a secret of a shape that the floor knows, has it       *)
(* masked, or has none.                                                    *)
(***************************************************************************)
EXTENDS SequencesExt

CustomHooks == {"none", "identity", "masks", "restores", "raises", "shapeless", "drops"}

\* resolve_redaction_hook: the hooks a body goes through, the floor last.
ResolveHook(mode, custom) ==
  IF mode # "replay" THEN <<>>
  ELSE IF custom = "none" THEN <<"floor">> ELSE <<custom, "floor">>

\* RegexRedactor: the secret is masked, wherever it is nested.
Floor(body) == IF body = "secret" THEN "masked" ELSE body

\* The body a hook returns; what raises, or returns something else, drops it.
Hook(body, name) ==
  CASE name \in {"raises", "shapeless"} \/ body = "dropped" -> "dropped"
    [] name = "restores" /\ body # "dropped" -> "secret"
    [] name = "drops" /\ body # "dropped" -> "null"
    [] OTHER -> IF name \in {"floor", "masks"} THEN Floor(body) ELSE body

\* compose and apply_to_content.
Redact(hooks, body) == FoldLeft(Hook, body, hooks)
=============================================================================
