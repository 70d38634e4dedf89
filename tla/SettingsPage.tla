---------------------------- MODULE SettingsPage ----------------------------
(***************************************************************************)
(* The page of the wallboard's settings (wallboard/src/app/(dashboard)/    *)
(* admin/settings/page.tsx) with the procedures it calls (server/routers/  *)
(* admin.ts): two cards with a form, saved each by its own button through  *)
(* one mutation, and the dialog in which a key for the relay is generated. *)
(*                                                                         *)
(* The form is filled anew whenever the settings have been fetched: they   *)
(* hold dates, which the query cache never takes for unchanged.  Another   *)
(* administrator may change the settings and the key meanwhile.            *)
(***************************************************************************)
EXTENDS Naturals

CONSTANTS
    Setting,      \* the fields of the form but the password
    PbxSetting,   \* those of the first card
    Setpoint,     \* the values they may have
    NotFetched, NothingSent,
    MaxEdits      \* bound on what the administrators do

VARIABLES
    row,          \* the settings in the database
    settings,     \* data of the query
    form,
    password,     \* one has been typed
    dirty,        \* the cards whose button is enabled
    saving,       \* the mutation under way
    query,        \* getSettings: "none", "asked" or "answered", and its answer
    isError,      \* the last getSettings failed
    relayKey,     \* the key the database has
    dialog,       \* showKeyDialog
    generatedKey, \* 0 for none
    generating,   \* generateRelayKey under way: keys the server made, 0 before that
    edits,
    wishes,       \* the settings as somebody has last set them (history)
    typed,        \* fields typed into since the form was filled (history)
    overlaid,     \* fields typed into while a save or a fetch was under way, before the
                  \* other card was saved, or set by another as well (history)
    otherKey      \* another administrator made the last key (history)

formVars     == <<row, settings, form, password, dirty, saving, query, isError, wishes, typed, overlaid>>
keyVars      == <<relayKey, dialog, generatedKey, generating, otherKey>>
settingsVars == <<formVars, keyVars, edits>>

Cards == {"pbx", "polling"}
Card(f) == IF f \in PbxSetting THEN "pbx" ELSE "polling"
Form == [Setting -> Setpoint]
SentSave == [card : Cards, data : UNION {[fields -> Setpoint] : fields \in SUBSET Setting}, served : BOOLEAN]

ASSUME SettingsPageAssumption ==
    /\ PbxSetting \subseteq Setting
    /\ MaxEdits \in Nat
    /\ NotFetched \notin Form /\ NothingSent \notin SentSave

SettingsTypeOK ==
    /\ {row, wishes} \subseteq Form
    /\ {settings, form} \subseteq Form \cup {NotFetched}
    /\ dirty \subseteq Cards /\ {password, isError} \subseteq BOOLEAN
    /\ saving \in SentSave \cup {NothingSent}
    /\ edits \in 0..MaxEdits
    /\ {relayKey, generatedKey} \subseteq 0..MaxEdits
    /\ generating \subseteq 0..MaxEdits
    /\ query \in [stage : {"none", "asked", "answered"}, data : Form \cup {NotFetched}]
    /\ typed \cup overlaid \subseteq Setting

\* The cards are there, also while the settings are fetched again.
CardsShown == settings # NotFetched /\ ~isError

AtRest == saving = NothingSent /\ query.stage = "none"

Query(stage) == [stage |-> stage, data |-> NotFetched]

Edit == edits < MaxEdits /\ edits' = edits + 1

-----------------------------------------------------------------------------
(* The cards.                                                              *)

\* onChange of a field.
Type(f, value) ==
    /\ CardsShown /\ Edit
    /\ form' = [form EXCEPT ![f] = value]
    /\ dirty' = dirty \cup {Card(f)}
    /\ wishes' = [wishes EXCEPT ![f] = value]
    /\ typed' = typed \cup {f}
    /\ overlaid' = IF ~AtRest \/ settings[f] # row[f]
                   THEN overlaid \cup {f} ELSE overlaid
    /\ UNCHANGED <<row, settings, password, saving, query, isError, keyVars>>

\* onChange of the password, which is not fetched.
TypePassword(some) ==
    /\ CardsShown /\ Edit
    /\ password' = some
    /\ dirty' = dirty \cup {"pbx"}
    /\ UNCHANGED <<row, settings, form, saving, query, isError, wishes, typed, overlaid, keyVars>>

SendWholeForm(card) ==   \* fault: every field is sent
    /\ CardsShown /\ saving = NothingSent /\ card \in dirty
    /\ saving' = [card |-> card, data |-> form, served |-> FALSE]
    /\ UNCHANGED <<row, settings, form, password, dirty, query, isError, wishes, typed, overlaid, keyVars, edits>>

\* handleSavePbx() and handleSavePolling() send the fields of their card that differ
\* from the settings as they were fetched, and the password if there is one.
Save(card) ==
    /\ CardsShown /\ saving = NothingSent /\ card \in dirty
    /\ LET differ == {f \in Setting : Card(f) = card /\ form[f] # settings[f]} IN
       /\ differ # {} \/ (card = "pbx" /\ password)
       /\ saving' = [card |-> card, data |-> [f \in differ |-> form[f]], served |-> FALSE]
    /\ UNCHANGED <<row, settings, form, password, dirty, query, isError, wishes, typed, overlaid, keyVars, edits>>

\* updateSettings
SaveServed ==
    /\ saving # NothingSent /\ ~saving.served
    /\ row' = [f \in Setting |-> IF f \in DOMAIN saving.data THEN saving.data[f] ELSE row[f]]
    /\ saving' = [saving EXCEPT !.served = TRUE]
    /\ UNCHANGED <<settings, form, password, dirty, query, isError, wishes, typed, overlaid, keyVars, edits>>

\* onSuccess: the settings are fetched again, and neither card is dirty; the password is
\* forgotten.
SaveSucceeds ==
    /\ saving # NothingSent /\ saving.served
    /\ saving' = NothingSent
    /\ dirty' = {} /\ password' = FALSE
    /\ query' = Query("asked")
    /\ overlaid' = overlaid \cup {f \in typed : Card(f) # saving.card}
    /\ UNCHANGED <<row, settings, form, isError, wishes, typed, keyVars, edits>>

\* onError, before the server has it or after.
SaveFails ==
    /\ saving # NothingSent
    /\ saving' = NothingSent
    /\ UNCHANGED <<row, settings, form, password, dirty, query, isError, wishes, typed, overlaid, keyVars, edits>>

\* getSettings
QueryReads ==
    /\ query.stage = "asked"
    /\ query' = [stage |-> "answered", data |-> row]
    /\ UNCHANGED <<row, settings, form, password, dirty, saving, isError, wishes, typed, overlaid, keyVars, edits>>

\* The settings have come, and the effect fills the form; an edit that undoes is
\* forgotten, unless it has been sent.
QueryArrives ==
    /\ query.stage = "answered"
    /\ settings' = query.data /\ form' = query.data
    /\ query' = Query("none") /\ isError' = FALSE
    /\ typed' = {}
    /\ IF saving = NothingSent
       THEN /\ wishes' = [f \in Setting |-> IF f \in overlaid THEN row[f] ELSE wishes[f]]
            /\ overlaid' = {}
       ELSE UNCHANGED <<wishes, overlaid>>
    /\ UNCHANGED <<row, password, dirty, saving, keyVars, edits>>

QueryFails ==
    /\ query.stage \in {"asked", "answered"}
    /\ query' = Query("none") /\ isError' = TRUE
    /\ UNCHANGED <<row, settings, form, password, dirty, saving, wishes, typed, overlaid, keyVars, edits>>

\* The network is back: the settings are fetched again, and an error is shown until
\* they have come.
Reconnected ==
    /\ query.stage = "none"
    /\ query' = Query("asked")
    /\ overlaid' = overlaid \cup typed
    /\ UNCHANGED <<row, settings, form, password, dirty, saving, isError, wishes, typed, keyVars, edits>>

\* Another administrator saves a setting.
SetByAnother(f, value) ==
    /\ Edit
    /\ row' = [row EXCEPT ![f] = value]
    /\ wishes' = [wishes EXCEPT ![f] = value]
    /\ overlaid' = IF f \in typed \/ (saving # NothingSent /\ f \in DOMAIN saving.data)
                   THEN overlaid \cup {f} ELSE overlaid
    /\ UNCHANGED <<settings, form, password, dirty, saving, query, isError, typed, keyVars>>

-----------------------------------------------------------------------------
(* The dialog of the relay's key.                                          *)

OpenDialog ==
    /\ CardsShown /\ ~dialog
    /\ dialog' = TRUE /\ generatedKey' = 0
    /\ UNCHANGED <<formVars, relayKey, generating, otherKey, edits>>

CloseDialog ==
    /\ dialog
    /\ dialog' = FALSE
    /\ UNCHANGED <<formVars, relayKey, generatedKey, generating, otherKey, edits>>

\* handleGenerateKey(): the button is disabled while a key is generated.
GenerateKey ==
    /\ CardsShown /\ dialog /\ generatedKey = 0
    /\ generating = {}
    /\ generating' = {0}
    /\ UNCHANGED <<formVars, relayKey, dialog, generatedKey, otherKey, edits>>

\* generateRelayKey makes a key nobody has.
KeyStored ==
    /\ 0 \in generating /\ Edit
    /\ generating' = (generating \ {0}) \cup {edits'}
    /\ relayKey' = edits' /\ otherKey' = FALSE
    /\ UNCHANGED <<formVars, dialog, generatedKey>>

\* onSuccess; the dialog may be closed by then, and forgets the key when it is opened.
KeyArrives(k) ==
    /\ k \in generating \ {0}
    /\ generating' = generating \ {k}
    /\ generatedKey' = k
    /\ UNCHANGED <<formVars, relayKey, dialog, otherKey, edits>>

KeyLost(k) ==
    /\ k \in generating
    /\ generating' = generating \ {k}
    /\ UNCHANGED <<formVars, relayKey, dialog, generatedKey, otherKey, edits>>

KeyOfAnother ==
    /\ Edit
    /\ relayKey' = edits' /\ otherKey' = TRUE
    /\ UNCHANGED <<formVars, dialog, generatedKey, generating>>

SettingsInit ==
    /\ row \in Form /\ wishes = row
    /\ settings = NotFetched /\ form = NotFetched /\ dirty = {} /\ password = FALSE
    /\ saving = NothingSent /\ query = Query("asked") /\ isError = FALSE
    /\ relayKey = 0 /\ dialog = FALSE /\ generatedKey = 0 /\ generating = {} /\ otherKey = FALSE
    /\ edits = 0 /\ typed = {} /\ overlaid = {}

SettingsNext ==
    \/ \E f \in Setting, value \in Setpoint : Type(f, value) \/ SetByAnother(f, value)
    \/ \E some \in BOOLEAN : TypePassword(some)
    \/ \E card \in Cards : Save(card)
    \/ SaveServed \/ SaveSucceeds \/ SaveFails
    \/ QueryReads \/ QueryArrives \/ QueryFails \/ Reconnected
    \/ OpenDialog \/ CloseDialog \/ GenerateKey \/ KeyStored \/ KeyOfAnother
    \/ \E k \in generating : KeyArrives(k) \/ KeyLost(k)

SettingsSpec == SettingsInit /\ [][SettingsNext]_settingsVars

-----------------------------------------------------------------------------
(* What should hold.                                                       *)

\* When the page is at rest, every field is stored as it was last set, by whomever, or
\* its card is still to be saved and shows it as it was typed, also after a save that
\* failed; and a clean card shows the settings.  (Typing during a save, or before the
\* other card is saved, is undone, which is excepted; so is a field two administrators
\* set at once.)  And a key the dialog shows is the one the relay needs.
SettingsAreSaved ==
    /\ AtRest /\ ~isError =>
          \A f \in Setting :
             /\ f \notin overlaid => IF Card(f) \in dirty THEN f \in typed => form[f] = wishes[f]
                                                          ELSE row[f] = wishes[f]
             /\ Card(f) \notin dirty => form[f] = settings[f]
    /\ dialog /\ generatedKey # 0 /\ generating = {} /\ ~otherKey => generatedKey = relayKey

=============================================================================
