----------------------- MODULE LayeredSettingsProofs -----------------------
(***************************************************************************)
(* What the merge of the five tiers guarantees, for any keys, sections and  *)
(* values.                                                                 *)
(***************************************************************************)
EXTENDS LayeredSettings, TLAPS

(* The environment as load reads it: only values that the validators pass. *)
Checked(e) == \A k \in Keys : e[k] \in Valid \cup {Unset}

(* Settings() has a valid value for every key.                             *)
LEMMA EnvSettingsTyped ==
    ASSUME NEW e \in Overrides, Checked(e), NEW k \in Keys
    PROVE  /\ EnvSettings(e)[k] \in Valid
           /\ EnvSettings(e)[k] # Lost
           /\ e[k] # Unset => EnvSettings(e)[k] = e[k]
           /\ e[k] = Unset => EnvSettings(e)[k] = Default[k]
BY SettingsAssumption DEF EnvSettings, Checked, Overrides

(* from_yaml keeps what the file says, and falls back on Settings().       *)
LEMMA FromYamlSays ==
    ASSUME NEW e, NEW doc \in Document, NEW k \in Keys
    PROVE  FromYaml(e, doc)[k] = IF doc[k] # Unset THEN doc[k] ELSE EnvSettings(e)[k]
BY DEF FromYaml

(* A merge takes each key from one of its sides.                           *)
LEMMA MergePicks ==
    ASSUME NEW e, NEW base, NEW overlay, NEW k \in Keys
    PROVE  /\ Merge(e, base, overlay)[k] \in {base[k], overlay[k]}
           /\ (base[k] # Lost /\ overlay[k] # Lost) =>
                 Merge(e, base, overlay)[k] =
                     IF overlay[k] # Default[k] THEN overlay[k] ELSE base[k]
BY DEF Merge

(* Merging Settings() itself never brings a lost section back: the         *)
(* overlay does not differ from what the code compares it with.            *)
LEMMA EnvMerge ==
    ASSUME NEW e \in Overrides, Checked(e), NEW base, NEW k \in Keys
    PROVE  Merge(e, base, EnvSettings(e))[k] =
               IF base[k] = Lost THEN Lost
               ELSE IF EnvSettings(e)[k] # Default[k] THEN EnvSettings(e)[k]
               ELSE base[k]
<1>1. EnvSettings(e)[k] # Lost
      BY EnvSettingsTyped
<1>2. ~ \E j \in Siblings(k) : EnvSettings(e)[j] # EnvSettings(e)[j]
      OBVIOUS
<1>3. QED
      BY <1>1, <1>2 DEF Merge

(* What load makes of one key before the command line: either a tier's     *)
(* value by precedence, or the value a file gave it against a tier that    *)
(* asked for the default, or nothing.                                      *)
LEMMA LayeredKey ==
    ASSUME NEW t \in Tiers, Checked(t.env), NEW k \in Keys, t.cli[k] = Unset
    PROVE  \/ Layered(t)[k] = Promised(t, k)
           \/ /\ Promised(t, k) = Default[k]
              /\ Layered(t)[k] \in {t.user[k], t.project[k]}
           \/ Layered(t)[k] = Lost
<1> DEFINE own == EnvSettings(t.env)
           low == FromYaml(t.env, t.project)
           high == FromYaml(t.env, t.user)
           mid == Merge(t.env, low, high)
<1>1. /\ t.env \in Overrides /\ t.user \in Document /\ t.project \in Document
      BY DEF Tiers
<1>2. /\ t.user[k] \in Values \cup {Unset, Lost}
      /\ t.project[k] \in Values \cup {Unset, Lost}
      /\ Default[k] \in Values
      BY <1>1, SettingsAssumption DEF Document
<1>3. Layered(t)[k] = IF mid[k] = Lost THEN Lost
                      ELSE IF own[k] # Default[k] THEN own[k] ELSE mid[k]
      BY <1>1, EnvMerge DEF Layered
<1>4. /\ low[k] = IF t.project[k] # Unset THEN t.project[k] ELSE own[k]
      /\ high[k] = IF t.user[k] # Unset THEN t.user[k] ELSE own[k]
      BY <1>1, FromYamlSays
<1>5. /\ mid[k] \in {low[k], high[k]}
      /\ (low[k] # Lost /\ high[k] # Lost) =>
            mid[k] = IF high[k] # Default[k] THEN high[k] ELSE low[k]
      BY MergePicks
<1>6. /\ own[k] # Lost
      /\ t.env[k] # Unset => own[k] = t.env[k]
      /\ t.env[k] = Unset => own[k] = Default[k]
      BY <1>1, EnvSettingsTyped
<1>7. Promised(t, k) = IF t.env[k] # Unset THEN t.env[k]
                       ELSE IF t.user[k] \in Values THEN t.user[k]
                       ELSE IF t.project[k] \in Values THEN t.project[k]
                       ELSE Default[k]
      BY DEF Promised
<1> HIDE DEF own, low, high, mid
<1>8. QED
      BY <1>2, <1>3, <1>4, <1>5, <1>6, <1>7, SettingsAssumption

(* What load makes of a key is valid, or a file said it.                   *)
LEMMA LayeredSound ==
    ASSUME NEW t \in Tiers, Checked(t.env), NEW k \in Keys
    PROVE  /\ Layered(t)[k] \in Values \cup {Lost}
           /\ Layered(t)[k] \in Valid \cup {t.user[k], t.project[k]}
<1> DEFINE own == EnvSettings(t.env)
           low == FromYaml(t.env, t.project)
           high == FromYaml(t.env, t.user)
           mid == Merge(t.env, low, high)
<1>1. /\ t.env \in Overrides /\ t.user \in Document /\ t.project \in Document
      BY DEF Tiers
<1>2. /\ t.user[k] \in Values \cup {Unset, Lost}
      /\ t.project[k] \in Values \cup {Unset, Lost}
      BY <1>1 DEF Document
<1>3. Layered(t)[k] \in {own[k], mid[k]}
      BY MergePicks DEF Layered
<1>4. /\ low[k] = IF t.project[k] # Unset THEN t.project[k] ELSE own[k]
      /\ high[k] = IF t.user[k] # Unset THEN t.user[k] ELSE own[k]
      BY <1>1, FromYamlSays
<1>5. mid[k] \in {low[k], high[k]}
      BY MergePicks
<1>6. own[k] \in Valid
      BY <1>1, EnvSettingsTyped
<1> HIDE DEF own, low, high, mid
<1>7. QED
      BY <1>2, <1>3, <1>4, <1>5, <1>6, SettingsAssumption

(* A load that does not raise yields settings.                             *)
LEMMA LoadTyped ==
    ASSUME NEW t \in Tiers, Checked(t.env)
    PROVE  Load(t) \in Settings
<1>1. \A k \in Keys : Layered(t)[k] \in Values \cup {Lost}
      BY LayeredSound
<1>2. \A k \in Keys : t.cli[k] \in Values \cup {Unset}
      BY DEF Tiers, Overrides
<1>3. QED
      BY <1>1, <1>2 DEF Load, Settings

---------------------------------------------------------------------------
(* The settings in force are those of the last load that did not raise.    *)

InForce == settings # None =>
    /\ loaded \in Tiers
    /\ Checked(loaded.env)
    /\ settings = Load(loaded)

SettingsInv == TypeOK /\ InForce

LEMMA InitSettingsInv == Init => SettingsInv
BY InputAssumption, SettingsAssumption DEF Init, SettingsInv, TypeOK, InForce

LEMMA NextSettingsInv == SettingsInv /\ [Next]_vars => SettingsInv'
<1> SUFFICES ASSUME SettingsInv, [Next]_vars PROVE SettingsInv'
    OBVIOUS
<1> USE DEF SettingsInv, InForce
<1>1. ASSUME NEW cli \in CommandLines, GetSettings(cli) PROVE SettingsInv'
  <2> DEFINE t == [env |-> env, project |-> project, user |-> user, cli |-> cli]
  <2>1. t \in Tiers
        BY InputAssumption DEF TypeOK, Tiers
  <2>2. Checked(t.env)
        BY <1>1 DEF GetSettings, Raises, Checked
  <2>3. Load(t) \in Settings
        BY <2>1, <2>2, LoadTyped
  <2>4. /\ settings' = Load(t) /\ loaded' = t
        /\ UNCHANGED <<env, project, user, edits>>
        BY <1>1 DEF GetSettings
  <2> HIDE DEF t
  <2>5. QED
        BY <2>1, <2>2, <2>3, <2>4 DEF TypeOK
<1>2. CASE ResetSettings
      BY <1>2 DEF ResetSettings, TypeOK
<1>3. CASE Edit
      BY <1>3, InputAssumption, SettingsAssumption DEF Edit, TypeOK
<1>4. CASE UNCHANGED vars
      BY <1>4 DEF vars, TypeOK
<1>5. QED
      BY <1>1, <1>2, <1>3, <1>4 DEF Next

LEMMA SettingsInvHolds == Spec => []SettingsInv
BY InitSettingsInv, NextSettingsInv, PTL DEF Spec

(* The types of the tiers, the settings and what they were loaded from.    *)
THEOREM SettingsTypeCorrect == Spec => []TypeOK
BY SettingsInvHolds, PTL DEF SettingsInv

(* In every process, whatever the files, the environment and the overrides *)
(* say: the highest tier that states a key has its way, except for a       *)
(* default that environment or user file state, and for empty sections.    *)
THEOREM PrecedenceHolds == Spec => []PrecedenceUnlessReset
<1>1. SettingsInv => PrecedenceUnlessReset
  <2> SUFFICES ASSUME SettingsInv, settings # None, NEW k \in Keys
               PROVE  \/ settings[k] = Promised(loaded, k)
                      \/ /\ loaded.cli[k] = Unset
                         /\ Promised(loaded, k) = Default[k]
                         /\ settings[k] \in {loaded.user[k], loaded.project[k]}
                      \/ settings[k] = Lost
      BY DEF PrecedenceUnlessReset
  <2>1. /\ loaded \in Tiers /\ Checked(loaded.env)
        /\ settings[k] = IF loaded.cli[k] # Unset THEN loaded.cli[k] ELSE Layered(loaded)[k]
        BY DEF SettingsInv, InForce, Load
  <2>2. CASE loaded.cli[k] # Unset
        BY <2>1, <2>2 DEF Promised
  <2>3. CASE loaded.cli[k] = Unset
        BY <2>1, <2>3, LayeredKey
  <2>4. QED
        BY <2>2, <2>3
<1>2. QED
      BY <1>1, SettingsInvHolds, PTL

(* No invalid value and no lost section that a file or an override did not *)
(* ask for, in every process.                                              *)
THEOREM UnsoundStated == Spec => []UnsoundWasStated
<1>1. SettingsInv => UnsoundWasStated
  <2> SUFFICES ASSUME SettingsInv, settings # None, NEW k \in Keys, settings[k] \notin Valid
               PROVE  settings[k] \in {loaded.cli[k], loaded.user[k], loaded.project[k]}
      BY DEF UnsoundWasStated
  <2>1. /\ loaded \in Tiers /\ Checked(loaded.env)
        /\ settings[k] = IF loaded.cli[k] # Unset THEN loaded.cli[k] ELSE Layered(loaded)[k]
        BY DEF SettingsInv, InForce, Load
  <2>2. Layered(loaded)[k] \in Valid \cup {loaded.user[k], loaded.project[k]}
        BY <2>1, LayeredSound
  <2>3. QED
        BY <2>1, <2>2
<1>2. QED
      BY <1>1, SettingsInvHolds, PTL

===========================================================================
