----------------------------- MODULE AgentSettings -----------------------------
(***************************************************************************)
(* Agents' configurations, skills and bindings: the JSON stores of the      *)
(* server (agent_config.py, skill.py, agent_kb.py and their handlers), and  *)
(* the dialog of a client that edits an agent (App.jsx).                   *)
(*                                                                         *)
(* A handler of the server runs without giving up the event loop; only a    *)
(* crash can cut it short.  The client's save is three requests, one after  *)
(* the other, and then three refreshes, any of which may fail; its dialog   *)
(* shows what the client knew of the bindings when it was opened.          *)
(***************************************************************************)
EXTENDS Naturals, FiniteSets

CONSTANTS
  Agents, Subs,  \* every agent; those that have bindings
  Skills,        \* ids of skills; none is given twice
  KBs,           \* knowledge bases, which are never deleted
  Prompts,       \* the prompts a user may write
  Turns,         \* the context turns a user may choose
  Saves,         \* bound: the saves of a client under way at a time
  None

DEFAULT_CONTEXT_TURNS == 3

ASSUME SubsAssumption == Subs \subseteq Agents
ASSUME PromptsAssumption == "default" \notin Prompts
ASSUME TurnsAssumption == Turns \subseteq Nat
ASSUME NoneAssumption == None \notin Agents /\ None \notin Nat

VARIABLES
  skills,     \* "new", "enabled", "disabled" or "deleted"
  config,     \* the overrides of each agent
  kbBinding, skillBinding,
  registry,   \* what the client knows of the bindings
  skillList,  \* the skills the dialog offers: the enabled ones the client knows of
  opening,    \* the dialog the client is fetching, or None
  dialog,
  save,       \* the client's saves under way
  orphans,    \* history: skills whose deletion was cut short
  astray,     \* history: something came between a dialog and what it knows
  saved       \* history: the form of each agent saved last, or None

server == <<skills, config, kbBinding, skillBinding>>
client == <<registry, skillList, opening, dialog, save>>
history == <<orphans, astray, saved>>
vars == <<server, client, history>>

Enabled == {s \in Skills : skills[s] = "enabled"}
Existing == Enabled \cup {s \in Skills : skills[s] = "disabled"}

----------------------------------------------------------------------------
(* The stores.                                                             *)

Bindings(kbs, ss) == [kbs |-> kbs, skills |-> ss]
NoBindings == Bindings({}, {})

\* GET /registry shows the bindings to what exists.
GetRegistry == [a \in Agents |-> Bindings(kbBinding[a], skillBinding[a] \cap Existing)]

\* Mutant: zero turns count as not set.
get_effective_config_Or(a) ==
  [system_prompt |-> IF config[a].system_prompt = "" THEN "default" ELSE config[a].system_prompt,
   context_turns |-> IF config[a].context_turns \in {None, 0} THEN DEFAULT_CONTEXT_TURNS
                     ELSE config[a].context_turns]

get_effective_config(a) ==
  [system_prompt |-> IF config[a].system_prompt = "" THEN "default" ELSE config[a].system_prompt,
   context_turns |-> IF config[a].context_turns = None THEN DEFAULT_CONTEXT_TURNS
                     ELSE config[a].context_turns]

\* Mutant: a text equal to the default is stored.
Entry_StoresDefault(form) ==
  [system_prompt |-> form.system_prompt, context_turns |-> form.context_turns]

\* set_config: a text equal to the default is stored as empty.
Entry(form) ==
  [system_prompt |-> IF form.system_prompt = "default" THEN "" ELSE form.system_prompt,
   context_turns |-> form.context_turns]

\* Mutant: the ids are taken as they are.
Cleaned_AsGiven(ids) == ids

\* PUT /agent-skill-bindings keeps the ids that exist.
Cleaned(ids) == ids \cap Existing

\* inject_skills_into_prompt.
ActiveSkills(a) == skillBinding[a] \cap Enabled

CreateSkill(s) ==
  /\ skills[s] = "new"
  /\ skills' = [skills EXCEPT ![s] = "enabled"]
  /\ UNCHANGED <<config, kbBinding, skillBinding, client, history>>

\* update_skill; its other fields are content.
ToggleSkill(s) ==
  /\ s \in Existing
  /\ skills' = [skills EXCEPT ![s] = IF @ = "enabled" THEN "disabled" ELSE "enabled"]
  /\ UNCHANGED <<config, kbBinding, skillBinding, client, history>>

\* Mutant: no cascade.
remove_skill_from_all_Nothing(s) == skillBinding

remove_skill_from_all(s) == [a \in Agents |-> skillBinding[a] \ {s}]

\* delete_skill writes the skills, then the bindings; or the server crashes in between.
DeleteSkill(s) ==
  /\ s \in Existing
  /\ skills' = [skills EXCEPT ![s] = "deleted"]
  /\ \/ skillBinding' = remove_skill_from_all(s) /\ UNCHANGED orphans
     \/ orphans' = orphans \cup {s} /\ UNCHANGED skillBinding
  /\ UNCHANGED <<config, kbBinding, client, astray, saved>>

----------------------------------------------------------------------------
(* The client.                                                             *)

Closed == [agent |-> None, form |-> None, base |-> None, saving |-> FALSE]
Form(prompt, turns, bindings) ==
  [system_prompt |-> prompt, context_turns |-> turns, bindings |-> bindings]
NoSave == [step |-> "none", agent |-> None, form |-> None, base |-> None]

Init ==
  /\ skills = [s \in Skills |-> "new"]
  /\ config = [a \in Agents |-> [system_prompt |-> "", context_turns |-> None]]
  /\ kbBinding = [a \in Agents |-> {}] /\ skillBinding = [a \in Agents |-> {}]
  /\ registry = GetRegistry
  /\ skillList = {}
  /\ opening = None /\ dialog = Closed
  /\ save = [p \in Saves |-> NoSave]
  /\ orphans = {} /\ astray = FALSE /\ saved = [a \in Agents |-> None]

Underway(p) == save[p] # NoSave

\* refreshSkills, of the skill page or at the end of a save.
RefreshSkills ==
  /\ skillList' = Enabled
  /\ UNCHANGED <<server, registry, opening, dialog, save, history>>

\* openAgentEditConfig: the bindings are those of the registry at the click.  Bound: one
\* dialog is fetched at a time.
OpenDialog(a) ==
  /\ dialog.agent = None /\ opening = None
  /\ opening' = [agent |-> a,
                 known |-> IF a \in Subs THEN registry[a] ELSE NoBindings]
  /\ UNCHANGED <<server, registry, skillList, dialog, save, history>>

\* GET /agent-configs answers.
ConfigArrives ==
  /\ opening # None
  /\ LET now == get_effective_config(opening.agent) IN
     dialog' = [agent |-> opening.agent,
                form |-> Form(now.system_prompt, now.context_turns, opening.known),
                base |-> opening.known, saving |-> FALSE]
  /\ opening' = None
  /\ UNCHANGED <<server, registry, skillList, save, history>>

\* It fails: the dialog opens empty.
ConfigFails ==
  /\ opening # None
  /\ dialog' = [agent |-> opening.agent,
                form |-> Form("", DEFAULT_CONTEXT_TURNS, NoBindings),
                base |-> NoBindings, saving |-> FALSE]
  /\ opening' = None /\ astray' = TRUE
  /\ UNCHANGED <<server, registry, skillList, save, orphans, saved>>

Flipped(ids, id) == IF id \in ids THEN ids \ {id} ELSE ids \cup {id}

\* The user changes a field.
Edit ==
  /\ dialog.agent # None
  /\ \/ \E prompt \in Prompts : dialog' = [dialog EXCEPT !.form.system_prompt = prompt]
     \/ \E turns \in Turns : dialog' = [dialog EXCEPT !.form.context_turns = turns]
     \/ /\ dialog.agent \in Subs
        /\ \/ \E k \in KBs :
                dialog' = [dialog EXCEPT !.form.bindings.kbs = Flipped(@, k)]
           \/ \E s \in skillList :
                dialog' = [dialog EXCEPT !.form.bindings.skills = Flipped(@, s)]
  /\ UNCHANGED <<server, registry, skillList, opening, save, history>>

\* The user closes the dialog, even while it is being saved.
CloseDialog ==
  /\ dialog.agent # None
  /\ dialog' = Closed
  /\ astray' = (astray \/ \E p \in Saves : Underway(p))
  /\ UNCHANGED <<server, registry, skillList, opening, save, orphans, saved>>

\* saveAgentEditConfig sends the form it was called with.
StartSave(p) ==
  /\ dialog.agent # None /\ ~dialog.saving /\ save[p] = NoSave
  /\ dialog' = [dialog EXCEPT !.saving = TRUE]
  /\ save' = [save EXCEPT ![p] = [step |-> "config", agent |-> dialog.agent,
                                  form |-> dialog.form, base |-> dialog.base]]
  /\ saved' = [saved EXCEPT ![dialog.agent] = None]
  /\ UNCHANGED <<server, registry, skillList, opening, orphans, astray>>

GoesTo(p, step) == save' = [save EXCEPT ![p].step = step]

PutConfig(p) ==
  /\ save[p].step = "config"
  /\ config' = [config EXCEPT ![save[p].agent] = Entry(save[p].form)]
  /\ GoesTo(p, IF save[p].agent \in Subs THEN "kbs" ELSE "registry")
  /\ UNCHANGED <<skills, kbBinding, skillBinding, registry, skillList, opening, dialog, history>>

PutKbBinding(p) ==
  /\ save[p].step = "kbs"
  /\ kbBinding' = [kbBinding EXCEPT ![save[p].agent] = save[p].form.bindings.kbs]
  /\ GoesTo(p, "skills")
  /\ UNCHANGED <<skills, config, skillBinding, registry, skillList, opening, dialog, history>>

PutSkillBinding(p) ==
  /\ save[p].step = "skills"
  /\ skillBinding' = [skillBinding EXCEPT ![save[p].agent] = Cleaned(save[p].form.bindings.skills)]
  /\ GoesTo(p, "registry")
  /\ UNCHANGED <<skills, config, kbBinding, registry, skillList, opening, dialog, history>>

\* Mutant: the client trusts what it knows.
RefreshRegistry_Not(p) ==
  /\ save[p].step = "registry"
  /\ GoesTo(p, "close")
  /\ UNCHANGED <<server, registry, skillList, opening, dialog, history>>

RefreshRegistry(p) ==
  /\ save[p].step = "registry"
  /\ registry' = GetRegistry
  /\ GoesTo(p, "close")
  /\ UNCHANGED <<server, skillList, opening, dialog, history>>

\* The client knows the bindings, as far as their skills still exist.
IsUpToDate ==
  \A a \in Agents : /\ registry[a].kbs = kbBinding[a]
                    /\ registry[a].skills \cap Existing = skillBinding[a] \cap Existing

\* After the knowledge bases and the skills, the dialog is closed, whichever it is.
EndSave(p) ==
  /\ save[p].step = "close"
  /\ skillList' = Enabled
  /\ dialog' = Closed
  /\ save' = [save EXCEPT ![p] = NoSave]
  /\ saved' = [saved EXCEPT ![save[p].agent] = IF astray THEN None ELSE save[p].form]
  /\ astray' = (astray /\ ~(IsUpToDate /\ opening = None /\ \A q \in Saves \ {p} : ~Underway(q)))
  /\ UNCHANGED <<server, registry, opening, orphans>>

\* A request is lost or refused; that its answer is lost is the same, one step later.
SaveFails(p) ==
  /\ Underway(p)
  /\ save' = [save EXCEPT ![p] = NoSave]
  /\ dialog' = [dialog EXCEPT !.saving = FALSE]
  /\ astray' = TRUE
  /\ UNCHANGED <<server, registry, skillList, opening, orphans, saved>>

SaveStep(p) ==
  \/ PutConfig(p) \/ PutKbBinding(p) \/ PutSkillBinding(p)
  \/ RefreshRegistry(p) \/ EndSave(p) \/ SaveFails(p)

Next ==
  \/ \E s \in Skills : CreateSkill(s) \/ ToggleSkill(s) \/ DeleteSkill(s)
  \/ RefreshSkills \/ ConfigArrives \/ ConfigFails \/ Edit \/ CloseDialog
  \/ \E a \in Agents : OpenDialog(a)
  \/ \E p \in Saves : StartSave(p) \/ SaveStep(p)

Spec == Init /\ [][Next]_vars

----------------------------------------------------------------------------
FORM == [system_prompt : {"", "default"} \cup Prompts, context_turns : Nat,
          bindings : [kbs : SUBSET KBs, skills : SUBSET Skills]]

\* The stores keep their form; an override is never the default itself.
SettingsTypeOK ==
  /\ skills \in [Skills -> {"new", "enabled", "disabled", "deleted"}]
  /\ config \in [Agents -> [system_prompt : {""} \cup Prompts, context_turns : Nat \cup {None}]]
  /\ kbBinding \in [Agents -> SUBSET KBs]
  /\ skillBinding \in [Agents -> SUBSET Skills]

\* However stale the registry and the dialogs of a client are, a deleted skill is bound
\* again to nobody: a binding leads nowhere only where a deletion was cut short.
BindingsExist ==
  \A a \in Agents : skillBinding[a] \subseteq Existing \cup orphans

\* While nothing came between, a save changes the bindings the user has changed and no
\* other, wherever the registry and the skills stood when the dialog was opened.
Asked(old, base, new) == (old \ (base \ new)) \cup (new \ base)
UntouchedIsKept ==
  [][~astray => \A p \in Saves :
       LET a == save[p].agent
           base == save[p].base
           new == save[p].form.bindings
           Puts(from, to) == save[p].step = from /\ save'[p].step = to
       IN /\ Puts("kbs", "skills") =>
               kbBinding'[a] = Asked(kbBinding[a], base.kbs, new.kbs)
          /\ Puts("skills", "registry") =>
               Cleaned(skillBinding'[a])
                 = Cleaned(Asked(skillBinding[a], base.skills, new.skills))]_vars

\* "Changes take effect at once": after a save that ended well an agent works with what
\* the dialog showed, as far as the skills still exist and are enabled; an empty prompt
\* stands for the default, and no turns for none.
SavedIsUsed ==
  \A a \in Agents : saved[a] # None =>
    /\ get_effective_config(a).context_turns = saved[a].context_turns
    /\ get_effective_config(a).system_prompt
         = IF saved[a].system_prompt = "" THEN "default" ELSE saved[a].system_prompt
    /\ kbBinding[a] = saved[a].bindings.kbs
    /\ ActiveSkills(a) = saved[a].bindings.skills \cap Enabled

=============================================================================
