----------------------------- MODULE StateSchema -----------------------------
(***************************************************************************)
(* The versions of a run's state (src/workflow/state.py) and the           *)
(* migrations between them.  A state is its version and, for each field,   *)
(* whether it is missing, holds the default, or holds something a run or   *)
(* an operator put there.  One field stands for the fields one migration   *)
(* adds; repo_drift for those that came without a version of their own.    *)
(***************************************************************************)
EXTENDS Naturals

CURRENT_STATE_SCHEMA_VERSION == 8

(* The version that brought a field; 9: none did.                          *)
Introduced ==
  [cancel_requested |-> 2, run_manifest |-> 3, retry_counts |-> 4,
   run_id |-> 5, run_lifecycle_status |-> 6, operator_guidance |-> 7,
   reconciled_recovery_count |-> 8, repo_drift |-> 9]

Field == DOMAIN Introduced

Content == {"missing", "default", "set"}

(* Nine stands for every version this program does not know.               *)
Version == 0..(CURRENT_STATE_SCHEMA_VERSION + 1)

Values == [version : Version, finished : BOOLEAN, fields : [Field -> Content]]

(* dict.setdefault                                                         *)
SetDefault(content) == IF content = "missing" THEN "default" ELSE content

SetDefaults(values, names) ==
  [values EXCEPT !.fields =
     [f \in Field |-> IF f \in names THEN SetDefault(@[f]) ELSE @[f]]]

(* _migrate_v<v>_to_v<v + 1>, for a state of version v.                     *)
Migration(v, values) ==
  IF values.version = v
    THEN [SetDefaults(values, {f \in Field : Introduced[f] = v + 1})
            EXCEPT !.version = v + 1]
    ELSE values

(* The defaults migrate_state adds whatever the version: those of version  *)
(* two are not among them.                                                 *)
AlwaysDefaulted == Field \ {"cancel_requested"}

(* migrate_state raises StateSchemaError for a state of a newer program.   *)
Readable(values) == values.version <= CURRENT_STATE_SCHEMA_VERSION

(* migrate_state: one version after the other, then the late defaults.     *)
migrate_state(values) ==
  LET v2 == Migration(1, Migration(0, values))
      v4 == Migration(3, Migration(2, v2))
      v6 == Migration(5, Migration(4, v4))
      v8 == Migration(7, Migration(6, v6))
  IN  SetDefaults(v8, AlwaysDefaulted)

(* What migrate_state leaves missing: a field its state's version already  *)
(* knows is only added where it is one of the late defaults.               *)
LeftMissing(values) ==
  {f \in Field \ AlwaysDefaulted :
     values.fields[f] = "missing" /\ Introduced[f] <= values.version}
=============================================================================
