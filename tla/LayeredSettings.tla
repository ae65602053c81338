-------------------------- MODULE LayeredSettings --------------------------
(***************************************************************************)
(* config.py: the settings of a process, merged from five tiers, and the    *)
(* singleton that get_settings hands out.  Every tier is a function of the  *)
(* dotted keys ("probe.timeout"); the keys of one sub-model are a section.  *)
(* Settings() itself reads the environment, wherever the code calls it.     *)
(***************************************************************************)
EXTENDS Naturals

CONSTANTS
    Keys,       \* dotted keys
    Sections,   \* sub-models
    SectionOf,  \* the sub-model of a key
    Values,     \* values a key may be given
    Valid,      \* those that the field validators accept
    Default,    \* field defaults
    Unset,      \* what a tier says of a key that it does not mention
    Lost,       \* what a file says of the keys of a section it leaves empty,
                \* and what settings hold once the sub-model is gone
    None,       \* no settings loaded
    Environments, Files, CommandLines,  \* what the tiers may say
    MaxEdits    \* bound: edits while the process runs

ASSUME SettingsAssumption ==
    /\ SectionOf \in [Keys -> Sections]
    /\ Valid \subseteq Values
    /\ Default \in [Keys -> Valid]
    /\ Unset \notin Values /\ Lost \notin Values /\ Unset # Lost
    /\ None \notin [Keys -> Values \cup {Lost}]
    /\ MaxEdits \in Nat

VARIABLES
    env,       \* RW_BLUEPRINT_* variables and .env
    project,   \* config/defaults.yaml
    user,      \* ~/.rw_blueprint/config.yaml
    settings,  \* _settings, the singleton
    loaded,    \* ghost: the tiers that the settings in force were loaded from
    edits      \* edits so far

vars == <<env, project, user, settings, loaded, edits>>

Overrides == [Keys -> Values \cup {Unset}]
Settings == [Keys -> Values \cup {Lost}]

Siblings(k) == {j \in Keys : SectionOf[j] = SectionOf[k]}

(* A YAML file: a section is a mapping or left empty, which YAML reads as  *)
(* null.  A file that is missing or malformed says nothing of any key.     *)
Document ==
    {doc \in [Keys -> Values \cup {Unset, Lost}] :
        \A k \in Keys : doc[k] = Lost => \A j \in Siblings(k) : doc[j] = Lost}

Tiers == [env : Overrides, project : Document, user : Document, cli : Overrides]

ASSUME InputAssumption ==
    /\ Environments \subseteq Overrides
    /\ CommandLines \subseteq Overrides
    /\ Files \subseteq Document

TypeOK ==
    /\ env \in Overrides
    /\ project \in Document
    /\ user \in Document
    /\ settings \in Settings \cup {None}
    /\ settings # None => loaded \in Tiers
    /\ edits \in 0..MaxEdits

---------------------------------------------------------------------------
(* Settings.load                                                           *)

(* Settings(): the environment over the field defaults.                    *)
EnvSettings(e) == [k \in Keys |-> IF e[k] # Unset THEN e[k] ELSE Default[k]]

(* Mutant of FromYaml: only what the file says.                            *)
FromYamlAlone(e, doc) == doc

(* from_yaml: the file over Settings(), values unvalidated.                *)
FromYaml(e, doc) == [k \in Keys |-> IF doc[k] # Unset THEN doc[k] ELSE EnvSettings(e)[k]]

(* Mutant of Merge: what the lower tier says stays.                        *)
MergeUnder(e, base, overlay) ==
    [k \in Keys |-> IF base[k] # Default[k] THEN base[k] ELSE overlay[k]]

(* _merge.  Key by key, an overlay wins where it differs from the field    *)
(* default.  Where a side has lost the sub-model the section goes as a     *)
(* whole, and the overlay wins where it differs from Settings().           *)
Merge(e, base, overlay) ==
    [k \in Keys |->
        IF base[k] # Lost /\ overlay[k] # Lost
        THEN IF overlay[k] # Default[k] THEN overlay[k] ELSE base[k]
        ELSE IF \E j \in Siblings(k) : overlay[j] # EnvSettings(e)[j]
             THEN overlay[k] ELSE base[k]]

Layered(t) ==
    Merge(t.env,
          Merge(t.env, FromYaml(t.env, t.project), FromYaml(t.env, t.user)),
          EnvSettings(t.env))

(* _apply_cli                                                              *)
Load(t) == [k \in Keys |-> IF t.cli[k] # Unset THEN t.cli[k] ELSE Layered(t)[k]]

(* load raises when a variable of the environment is invalid, or when an   *)
(* override addresses a sub-model that is gone.                            *)
Raises(t) ==
    \/ \E k \in Keys : t.env[k] \notin Valid \cup {Unset}
    \/ \E k \in Keys : t.cli[k] # Unset /\ Layered(t)[k] = Lost

---------------------------------------------------------------------------
(* The singleton.                                                          *)

Init ==
    /\ env \in Environments
    /\ project \in Files
    /\ user \in Files
    /\ settings = None
    /\ loaded = None
    /\ edits = 0

(* get_settings loads on the first call, and again whenever a caller gives *)
(* overrides, be they empty; any other call returns what is in force and   *)
(* changes nothing.  A load that raises leaves the singleton alone.        *)
GetSettings(cli) ==
    LET tiers == [env |-> env, project |-> project, user |-> user, cli |-> cli] IN
    /\ ~Raises(tiers)
    /\ settings' = Load(tiers)
    /\ loaded' = tiers
    /\ UNCHANGED <<env, project, user, edits>>

ResetSettings ==
    /\ settings' = None
    /\ loaded' = None
    /\ UNCHANGED <<env, project, user, edits>>

(* Somebody edits a file or the environment.                               *)
Edit ==
    /\ edits < MaxEdits
    /\ edits' = edits + 1
    /\ \/ env' \in Environments /\ UNCHANGED <<project, user>>
       \/ project' \in Files /\ UNCHANGED <<env, user>>
       \/ user' \in Files /\ UNCHANGED <<env, project>>
    /\ UNCHANGED <<settings, loaded>>

Next == (\E cli \in CommandLines : GetSettings(cli)) \/ ResetSettings \/ Edit

Spec == Init /\ [][Next]_vars

---------------------------------------------------------------------------
(* Properties.                                                             *)

(* What the docstring of config.py promises for a key: the highest tier    *)
(* that states it, the field default if none does.                         *)
Promised(t, k) ==
    IF t.cli[k] # Unset THEN t.cli[k]
    ELSE IF t.env[k] # Unset THEN t.env[k]
    ELSE IF t.user[k] \in Values THEN t.user[k]
    ELSE IF t.project[k] \in Values THEN t.project[k]
    ELSE Default[k]

(* The five tiers take precedence as documented, whatever they say of      *)
(* other keys, with two exceptions: a variable or a user file that sets a  *)
(* key back to its default does not override a lower tier, and a section   *)
(* that a file leaves empty may be lost.                                   *)
PrecedenceUnlessReset ==
    settings # None =>
        \A k \in Keys :
            \/ settings[k] = Promised(loaded, k)
            \/ /\ loaded.cli[k] = Unset
               /\ Promised(loaded, k) = Default[k]
               /\ settings[k] \in {loaded.user[k], loaded.project[k]}
            \/ settings[k] = Lost

(* A value in force that no validator would accept, or a section that is   *)
(* gone, was put there by a file or by an override: neither the merges nor *)
(* the environment make one up.                                            *)
UnsoundWasStated ==
    settings # None =>
        \A k \in Keys :
            settings[k] \notin Valid =>
                settings[k] \in {loaded.cli[k], loaded.user[k], loaded.project[k]}

===========================================================================
