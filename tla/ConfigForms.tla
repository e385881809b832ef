---------------------------- MODULE ConfigForms ----------------------------
(***************************************************************************)
(* The settings form and the bots panel of a bot's page, in the browsers   *)
(* of several people, over the one versioned configuration of the bot.     *)
(* A form edits a draft taken from its page's copy of the configuration    *)
(* and saves it against the version it was taken from; the server composes *)
(* the draft with the other half of what is stored.  Saving writes to the  *)
(* host under the configuration claim, so it takes time and may fail, and  *)
(* an answer may never reach the form.                                     *)
(***************************************************************************)
EXTENDS Naturals, Sequences, FiniteSets

CONSTANTS
    Viewers,            \* the pages open on the bot
    Tabs,               \* the forms on them, a page and "settings" or "bots"
    SettingsFields,     \* what the settings form edits
    BotFields,          \* what the bots panel edits
    MaxConfigs, MaxEdits, MaxPresses, MaxFormFaults     \* bounds

ASSUME FormsAssumption ==
    /\ {MaxConfigs, MaxEdits, MaxPresses, MaxFormFaults} \subseteq Nat
    /\ SettingsFields \cap BotFields = {}
    /\ Tabs \subseteq Viewers \X {"settings", "bots"}

VARIABLES
    configs,    \* the rows of instanceConfig, by version: the document and the fields its author edited
    configClaim,    \* the form whose save holds the configuration claim
    cached,     \* the version each page's query last read
    forms,      \* each form
    saves,      \* each form's save under way
    edits, presses, formFaults

formVars == <<configs, configClaim, cached, forms, saves, edits, presses, formFaults>>

ConfigFields == SettingsFields \cup BotFields
Own(tab) == IF tab[2] = "settings" THEN SettingsFields ELSE BotFields

Unset == "unset"        \* a bot setting left to the client's default
Unfit == "unfit"        \* one its schema or a rule across keys refuses
FieldValues(field) == IF field \in BotFields THEN {Unset, "a", Unfit} ELSE {"a", "b"}

NoSave == [at |-> "none"]
NoSaver == <<>>
Latest == Len(configs)

-----------------------------------------------------------------------------
(* The page: useState of either form, discard, onChange, and the query of the configuration. *)

\* scalarsFrom, draftFrom: a form's half of a document, with the version it came with.
DraftFrom(tab, version) ==
    [draft |-> [field \in Own(tab) |-> configs[version].document[field]],
     savedVersion |-> version, edited |-> {}, refreshing |-> FALSE]

\* storeValue, clearValue, and the fields of the settings form
Edit(tab, field) ==
    /\ edits < MaxEdits
    /\ \E choice \in FieldValues(field) \ {forms[tab].draft[field]} :
         forms' = [forms EXCEPT ![tab].draft[field] = choice, ![tab].edited = @ \cup {field}]
    /\ edits' = edits + 1
    /\ UNCHANGED <<configs, configClaim, cached, saves, presses, formFaults>>

\* Discard changes, also while a save is under way, or another tab and back again: the form starts
\* anew from what the page has.  To leave during a save is to lose its answer first.
Restarted(tab) ==
    LET anew == [DraftFrom(tab, cached[tab[1]]) EXCEPT !.refreshing = forms[tab].refreshing] IN
    /\ forms[tab] # anew
    /\ forms' = [forms EXCEPT ![tab] = anew]
    /\ UNCHANGED <<configs, configClaim, cached, saves, edits, presses, formFaults>>

Refetch(viewer) ==
    /\ cached[viewer] # Latest
    /\ cached' = [cached EXCEPT ![viewer] = Latest]
    /\ UNCHANGED <<configs, configClaim, forms, saves, edits, presses, formFaults>>

\* validateBotConfig: the panel does not save a draft it finds a fault in.
Blocked(tab) == \E field \in Own(tab) : forms[tab].draft[field] = Unfit

PressSave(tab) ==
    /\ presses < MaxPresses /\ presses' = presses + 1
    /\ saves[tab] = NoSave /\ ~Blocked(tab)
    /\ saves' = [saves EXCEPT ![tab] = [at |-> "sent", draft |-> forms[tab].draft,
                                        expectedVersion |-> forms[tab].savedVersion, edited |-> forms[tab].edited]]
    /\ UNCHANGED <<configs, configClaim, cached, forms, edits, formFaults>>

-----------------------------------------------------------------------------
(* The server: saveConfig, with updateSettings or updateBotConfig. *)

\* The answer is an error: the draft is still the person's own.
SaveFailed(tab) == saves' = [saves EXCEPT ![tab] = NoSave]

VersionHolds(tab) == saves[tab].expectedVersion = Latest

TakeClaim(tab) ==
    /\ saves[tab].at = "sent"
    /\ \/ configClaim # NoSaver /\ SaveFailed(tab) /\ UNCHANGED configClaim
       \/ /\ configClaim = NoSaver
          /\ IF VersionHolds(tab)
             THEN configClaim' = tab /\ saves' = [saves EXCEPT ![tab].at = "writing"]
             ELSE saves' = [saves EXCEPT ![tab].at = "conflict"] /\ UNCHANGED configClaim
    /\ UNCHANGED <<configs, cached, forms, edits, presses, formFaults>>

\* compose: the draft over its own half, and the other half as it is stored.
Composed(tab) ==
    [field \in ConfigFields |->
        IF field \in Own(tab) THEN saves[tab].draft[field] ELSE configs[Latest].document[field]]

InsertVersion(tab) ==
    /\ saves[tab].at = "writing" /\ Latest < MaxConfigs
    /\ configs' = Append(configs, [document |-> Composed(tab), edited |-> saves[tab].edited])
    /\ configClaim' = NoSaver
    /\ saves' = [saves EXCEPT ![tab].at = "saved", ![tab].expectedVersion = Latest + 1]
    /\ UNCHANGED <<cached, forms, edits, presses, formFaults>>

HostRefuses(tab) ==
    /\ saves[tab].at = "writing" /\ formFaults < MaxFormFaults
    /\ formFaults' = formFaults + 1
    /\ configClaim' = NoSaver
    /\ SaveFailed(tab)
    /\ UNCHANGED <<configs, cached, forms, edits, presses>>

-----------------------------------------------------------------------------
(* The answer: onSuccess and onError. *)

\* The version is the form's before the page reads the configuration again.
SaveSucceeded(tab) ==
    /\ saves[tab].at = "saved"
    /\ forms' = [forms EXCEPT ![tab].savedVersion = saves[tab].expectedVersion,
                   ![tab].edited = {field \in Own(tab) : forms[tab].draft[field] # saves[tab].draft[field]}]
    /\ saves' = [saves EXCEPT ![tab] = NoSave]
    /\ UNCHANGED <<configs, configClaim, cached, edits, presses, formFaults>>

\* Someone else saved first; while the page reads again, the form can still be used.
SaveConflicts(tab) ==
    /\ saves[tab].at = "conflict"
    /\ forms' = [forms EXCEPT ![tab].refreshing = TRUE]
    /\ saves' = [saves EXCEPT ![tab] = NoSave]
    /\ UNCHANGED <<configs, configClaim, cached, edits, presses, formFaults>>

AnswerIsLost(tab) ==
    /\ saves[tab].at \in {"saved", "conflict"} /\ formFaults < MaxFormFaults
    /\ formFaults' = formFaults + 1
    /\ SaveFailed(tab)
    /\ UNCHANGED <<configs, configClaim, cached, forms, edits, presses>>

\* Mutation of ShowTheirs: the draft is kept, and only the version is moved on.
ShowTheirsKeepingDraft(tab, version) == [forms[tab] EXCEPT !.savedVersion = version, !.refreshing = FALSE]

ShowTheirs(tab, version) == DraftFrom(tab, version)

\* A read that fails hands back what the page had.
Refreshed(tab) ==
    /\ forms[tab].refreshing
    /\ \E version \in {Latest, cached[tab[1]]} :
         /\ version # Latest => formFaults < MaxFormFaults
         /\ formFaults' = formFaults + (IF version = Latest THEN 0 ELSE 1)
         /\ cached' = [cached EXCEPT ![tab[1]] = version]
         /\ forms' = [forms EXCEPT ![tab] = ShowTheirs(tab, version)]
    /\ UNCHANGED <<configs, configClaim, saves, edits, presses>>

FormsInit ==
    /\ configs = <<[document |-> [field \in ConfigFields |-> IF field \in BotFields THEN Unset ELSE "a"], edited |-> {}]>>
    /\ configClaim = NoSaver
    /\ cached = [viewer \in Viewers |-> 1]
    /\ forms = [tab \in Tabs |-> DraftFrom(tab, 1)]
    /\ saves = [tab \in Tabs |-> NoSave]
    /\ edits = 0 /\ presses = 0 /\ formFaults = 0

FormsNext ==
    \/ \E tab \in Tabs :
         \/ Restarted(tab) \/ PressSave(tab)
         \/ \E field \in Own(tab) : Edit(tab, field)
         \/ TakeClaim(tab) \/ InsertVersion(tab) \/ HostRefuses(tab)
         \/ SaveSucceeded(tab) \/ SaveConflicts(tab) \/ AnswerIsLost(tab) \/ Refreshed(tab)
    \/ \E viewer \in Viewers : Refetch(viewer)

FormsSpec == FormsInit /\ [][FormsNext]_formVars

-----------------------------------------------------------------------------
(* Properties. *)

\* A saved configuration differs from the one before it only in what its author edited on the form
\* that saved it, and holds nothing the panel found a fault in: nobody's change is undone by someone
\* who had not seen it (InstanceSettingsForm, BotConfigPanel, saveConfig).
OnlyEditsAreSaved ==
    \A k \in 2..Latest : \A field \in ConfigFields :
        /\ configs[k].document[field] # Unfit
        /\ configs[k].document[field] # configs[k - 1].document[field] => field \in configs[k].edited
=============================================================================
