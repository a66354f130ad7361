-------------------------- MODULE AgentSettingsProofs --------------------------
(***************************************************************************)
(* Theorems of AgentSettings, for any agents, skills and knowledge bases,   *)
(* and any number of saves that overlap and fail: deleted skills are bound  *)
(* to nobody, a save changes what the user changed, and what was saved last *)
(* is what the agent uses.                                                 *)
(***************************************************************************)
EXTENDS AgentSettings, TLAPS

\* The ids that were given to skills.
Given == {s \in Skills : skills[s] # "new"}

BINDING == [kbs : SUBSET KBs, skills : SUBSET Skills]
DIALOG == [agent : Agents, form : FORM, base : BINDING, saving : BOOLEAN]
SAVE == [step : {"config", "kbs", "skills", "registry", "close"},
         agent : Agents, form : FORM, base : BINDING]

\* Bindings the client may believe agent a has, or want it to have.
BaseOK(a, b) == b \in BINDING /\ b.skills \subseteq Given /\ (a \notin Subs => b = NoBindings)
FormOK(a, form) == form \in FORM /\ BaseOK(a, form.bindings)

\* They are those it has, as far as the skills exist.
Agree(a, b) ==
  b.kbs = kbBinding[a] /\ b.skills \cap Existing = skillBinding[a] \cap Existing

----------------------------------------------------------------------------
(* The inductive invariant.                                                *)

ServerInv ==
  /\ SettingsTypeOK /\ BindingsExist
  /\ orphans \subseteq Given
  /\ \A a \in Agents \ Subs : kbBinding[a] = {} /\ skillBinding[a] = {}

DialogOK ==
  \/ dialog = Closed
  \/ dialog \in DIALOG /\ FormOK(dialog.agent, dialog.form) /\ BaseOK(dialog.agent, dialog.base)

OpeningOK ==
  opening # None => /\ opening.agent \in Agents /\ BaseOK(opening.agent, opening.known)
                    /\ dialog = Closed

\* A save that is under way has taken back what was known as saved.
SaveOK(p) ==
  \/ save[p] = NoSave
  \/ /\ save[p] \in SAVE
     /\ FormOK(save[p].agent, save[p].form) /\ BaseOK(save[p].agent, save[p].base)
     /\ save[p].step \in {"kbs", "skills"} => save[p].agent \in Subs
     /\ saved[save[p].agent] = None

ClientInv ==
  /\ DOMAIN registry = Agents /\ \A a \in Agents : BaseOK(a, registry[a])
  /\ skillList \subseteq Given
  /\ DialogOK /\ OpeningOK
  /\ DOMAIN save = Saves /\ \A p \in Saves : SaveOK(p)
  /\ astray \in BOOLEAN /\ DOMAIN saved = Agents

\* What was saved last is in the stores.
UsedInv ==
  \A a \in Agents : saved[a] # None =>
    /\ FormOK(a, saved[a])
    /\ config[a] = Entry(saved[a]) /\ Agree(a, saved[a].bindings)

\* How far a save has come: before each step the stores are as the client knows them,
\* after it they are as the form says.
Progress(p) ==
  LET a == save[p].agent
      step == save[p].step
      form == save[p].form
  IN /\ step \in {"config", "kbs"} => save[p].base.kbs = kbBinding[a]
     /\ step \in {"config", "kbs", "skills"} =>
          save[p].base.skills \cap Existing = skillBinding[a] \cap Existing
     /\ step # "config" => config[a] = Entry(form)
     /\ step \in {"skills", "registry", "close"} => form.bindings.kbs = kbBinding[a]
     /\ step \in {"registry", "close"} =>
          form.bindings.skills \cap Existing = skillBinding[a] \cap Existing

\* While nothing came between there is one save, that of the dialog, and whatever the
\* client knows of the bindings is so.
OneSave ==
  /\ \A p, q \in Saves : Underway(p) /\ Underway(q) => p = q
  /\ \A p \in Saves : Underway(p) =>
       opening = None /\ dialog.agent = save[p].agent /\ dialog.saving
KnowsBindings ==
  /\ (\A p \in Saves : Underway(p) => save[p].step = "close") =>
       \A a \in Agents : Agree(a, registry[a])
  /\ opening # None => Agree(opening.agent, opening.known)
  /\ dialog.agent # None /\ ~dialog.saving => Agree(dialog.agent, dialog.base)
Coherent ==
  ~astray => /\ OneSave /\ KnowsBindings
             /\ \A p \in Saves : Underway(p) => Progress(p)

Inv == ServerInv /\ ClientInv /\ UsedInv /\ Coherent

----------------------------------------------------------------------------
LEMMA InitEstablishes == Init => Inv
<1> SUFFICES ASSUME Init  PROVE Inv
  OBVIOUS
<1>1. ServerInv
  BY DEF Init, ServerInv, SettingsTypeOK, BindingsExist, Given
<1>2. ClientInv
  BY SubsAssumption
  DEF Init, ClientInv, GetRegistry, Bindings, BaseOK, BINDING, DialogOK, OpeningOK, SaveOK, NoBindings
<1>3. UsedInv
  BY DEF Init, UsedInv
<1>4. Coherent
  BY DEF Init, Coherent, OneSave, KnowsBindings, Progress, Underway, Agree, GetRegistry, Bindings, Closed
<1> QED
  BY <1>1, <1>2, <1>3, <1>4 DEF Inv

----------------------------------------------------------------------------
(* Frames.                                                                 *)

\* As long as no skill is made or deleted, what was well-formed stays so.
LEMMA FormsStay ==
  ASSUME UNCHANGED skills
  PROVE  /\ Given' = Given /\ Existing' = Existing /\ Enabled' = Enabled
         /\ \A a, b : BaseOK(a, b)' <=> BaseOK(a, b)
         /\ \A a, f : FormOK(a, f)' <=> FormOK(a, f)
<1>1. Given' = Given /\ Existing' = Existing /\ Enabled' = Enabled
  BY DEF Given, Existing, Enabled
<1>2. \A a, b : BaseOK(a, b)' <=> BaseOK(a, b)
  BY <1>1 DEF BaseOK
<1> QED
  BY <1>1, <1>2 DEF FormOK

LEMMA ServerStays ==
  ASSUME ServerInv, UNCHANGED server, UNCHANGED orphans
  PROVE  ServerInv'
<1>1. UNCHANGED <<skills, config, kbBinding, skillBinding, orphans>>
  BY DEF server
<1>2. Given' = Given /\ Existing' = Existing
  BY <1>1, FormsStay
<1> QED
  BY <1>1, <1>2 DEF ServerInv, SettingsTypeOK, BindingsExist

LEMMA AgreementStays ==
  ASSUME UNCHANGED <<skills, kbBinding, skillBinding>>
  PROVE  \A a, b : Agree(a, b)' <=> Agree(a, b)
<1>1. Existing' = Existing
  BY FormsStay
<1> QED
  BY <1>1 DEF Agree

LEMMA UsedStays ==
  ASSUME UsedInv, UNCHANGED <<skills, config, kbBinding, skillBinding, saved>>
  PROVE  UsedInv'
<1>1. \A a, f : FormOK(a, f)' <=> FormOK(a, f)
  BY FormsStay
<1>2. \A a, b : Agree(a, b)' <=> Agree(a, b)
  BY AgreementStays
<1> QED
  BY <1>1, <1>2 DEF UsedInv

LEMMA ProgressStays ==
  ASSUME NEW p \in Saves, Progress(p), save'[p] = save[p],
         UNCHANGED <<skills, config, kbBinding, skillBinding>>
  PROVE  Progress(p)'
<1>1. Existing' = Existing
  BY FormsStay
<1> QED
  BY <1>1 DEF Progress

LEMMA Stuttering ==
  ASSUME Inv, UNCHANGED vars
  PROVE  Inv'
<1>1. /\ UNCHANGED server /\ UNCHANGED orphans
      /\ UNCHANGED <<skills, config, kbBinding, skillBinding, saved>>
      /\ UNCHANGED <<registry, skillList, opening, dialog, save, astray>>
  BY DEF vars, server, client, history
<1>2. /\ Given' = Given
      /\ \A a, b : BaseOK(a, b)' <=> BaseOK(a, b)
      /\ \A a, f : FormOK(a, f)' <=> FormOK(a, f)
      /\ \A a, b : Agree(a, b)' <=> Agree(a, b)
  BY <1>1, FormsStay, AgreementStays
<1>3. ClientInv'
  <2>1. DialogOK' /\ OpeningOK'
    BY <1>1, <1>2 DEF Inv, ClientInv, DialogOK, OpeningOK
  <2>2. \A p \in Saves : SaveOK(p)'
    BY <1>1, <1>2 DEF Inv, ClientInv, SaveOK
  <2> QED  BY <1>1, <1>2, <2>1, <2>2 DEF Inv, ClientInv
<1>4. Coherent'
  <2> SUFFICES ASSUME ~astray  PROVE Coherent'
    BY <1>1 DEF Coherent
  <2>1. OneSave' /\ KnowsBindings'
    BY <1>1, <1>2 DEF Inv, Coherent, OneSave, KnowsBindings, Underway
  <2>2. \A p \in Saves : Underway(p)' => Progress(p)'
    BY <1>1, ProgressStays DEF Inv, Coherent, Underway
  <2> QED  BY <2>1, <2>2 DEF Coherent
<1> QED
  BY <1>1, <1>3, <1>4, ServerStays, UsedStays DEF Inv

----------------------------------------------------------------------------
(* Skills are made, toggled and deleted.                                   *)

\* What a step keeps of any set of known skills: that it agrees with the bindings of a.
SetsAgree(a, ids) == ids \cap Existing = skillBinding[a] \cap Existing

LEMMA SkillsStep ==
  ASSUME Inv, ServerInv', Given \subseteq Given',
         \A a \in Agents : \A ids \in SUBSET Given : SetsAgree(a, ids) => SetsAgree(a, ids)',
         UNCHANGED <<config, kbBinding, client, astray, saved>>
  PROVE  Inv'
<1>1. UNCHANGED <<config, kbBinding, registry, skillList, opening, dialog, save, astray, saved>>
  BY DEF client
<1>2. /\ \A a, b : BaseOK(a, b) => BaseOK(a, b)'
      /\ \A a, f : FormOK(a, f) => FormOK(a, f)'
  BY DEF BaseOK, FormOK
<1>3. ASSUME NEW a \in Agents, NEW b, BaseOK(a, b), Agree(a, b)
      PROVE  Agree(a, b)'
  <2>1. b.skills \in SUBSET Given /\ SetsAgree(a, b.skills)
    BY <1>3 DEF BaseOK, Agree, SetsAgree
  <2>2. SetsAgree(a, b.skills)'
    BY <2>1
  <2> QED  BY <1>1, <1>3, <2>2 DEF Agree, SetsAgree
<1>4. ClientInv'
  <2>1. DialogOK' /\ OpeningOK'
    BY <1>1, <1>2 DEF Inv, ClientInv, DialogOK, OpeningOK
  <2>2. \A p \in Saves : SaveOK(p)'
    BY <1>1, <1>2 DEF Inv, ClientInv, SaveOK
  <2> QED  BY <1>1, <1>2, <2>1, <2>2 DEF Inv, ClientInv
<1>5. UsedInv'
  <2> SUFFICES ASSUME NEW a \in Agents, saved[a] # None
               PROVE  /\ FormOK(a, saved[a])' /\ config[a] = Entry(saved[a])
                      /\ Agree(a, saved[a].bindings)'
    BY <1>1 DEF UsedInv
  <2>1. FormOK(a, saved[a]) /\ config[a] = Entry(saved[a]) /\ Agree(a, saved[a].bindings)
    BY DEF Inv, UsedInv
  <2>2. BaseOK(a, saved[a].bindings)
    BY <2>1 DEF FormOK
  <2> QED  BY <1>1, <1>2, <1>3, <2>1, <2>2
<1>6. Coherent'
  <2> SUFFICES ASSUME ~astray  PROVE Coherent'
    BY <1>1 DEF Coherent
  <2>1. OneSave'
    BY <1>1 DEF Inv, Coherent, OneSave, Underway
  <2>2. KnowsBindings'
    <3>1. ASSUME \A p \in Saves : Underway(p) => save[p].step = "close", NEW a \in Agents
          PROVE  Agree(a, registry[a])'
      BY <1>1, <1>3, <3>1 DEF Inv, Coherent, KnowsBindings, ClientInv
    <3>2. ASSUME opening # None  PROVE Agree(opening.agent, opening.known)'
      BY <1>1, <1>3, <3>2 DEF Inv, Coherent, KnowsBindings, ClientInv, OpeningOK
    <3>3. ASSUME dialog.agent # None, ~dialog.saving  PROVE Agree(dialog.agent, dialog.base)'
      <4>1. dialog # Closed /\ dialog.agent \in Agents /\ BaseOK(dialog.agent, dialog.base)
        BY <3>3 DEF Inv, ClientInv, DialogOK, Closed, DIALOG
      <4> QED  BY <1>1, <1>3, <3>3, <4>1 DEF Inv, Coherent, KnowsBindings
    <3> QED  BY <1>1, <3>1, <3>2, <3>3 DEF KnowsBindings, Underway
  <2>3. ASSUME NEW p \in Saves, Underway(p)  PROVE Progress(p)'
    <3>1. /\ Progress(p) /\ save[p].agent \in Agents
          /\ save[p].base.skills \in SUBSET Given /\ save[p].form.bindings.skills \in SUBSET Given
      BY <2>3 DEF Inv, Coherent, ClientInv, SaveOK, Underway, SAVE, FormOK, BaseOK
    <3>2. /\ SetsAgree(save[p].agent, save[p].base.skills)
               => SetsAgree(save[p].agent, save[p].base.skills)'
          /\ SetsAgree(save[p].agent, save[p].form.bindings.skills)
               => SetsAgree(save[p].agent, save[p].form.bindings.skills)'
      BY <3>1, <1>1
    <3> QED  BY <1>1, <3>1, <3>2 DEF Progress, SetsAgree
  <2> QED  BY <1>1, <2>1, <2>2, <2>3 DEF Coherent, Underway
<1> QED
  BY <1>4, <1>5, <1>6 DEF Inv

\* What is bound is known.
LEMMA BoundIsGiven ==
  ASSUME ServerInv
  PROVE  \A a \in Agents : skillBinding[a] \subseteq Given
BY DEF ServerInv, BindingsExist, Existing, Enabled, Given

LEMMA CreateKeeps ==
  ASSUME Inv, NEW s \in Skills, CreateSkill(s)
  PROVE  Inv'
<1>1. /\ s \notin Given /\ Given' = Given \cup {s} /\ Existing' = Existing \cup {s}
      /\ UNCHANGED <<config, kbBinding, skillBinding, client, orphans, astray, saved>>
  BY DEF CreateSkill, Inv, ServerInv, SettingsTypeOK, Given, Existing, Enabled, history
<1>2. ServerInv'
  <2>1. SettingsTypeOK'
    BY <1>1 DEF CreateSkill, Inv, ServerInv, SettingsTypeOK
  <2> QED  BY <1>1, <2>1 DEF Inv, ServerInv, BindingsExist
<1>3. ASSUME NEW a \in Agents, NEW ids \in SUBSET Given, SetsAgree(a, ids)
      PROVE  SetsAgree(a, ids)'
  BY <1>1, <1>3, BoundIsGiven DEF SetsAgree, Inv
<1> QED
  BY <1>1, <1>2, <1>3, SkillsStep

LEMMA ToggleKeeps ==
  ASSUME Inv, NEW s \in Skills, ToggleSkill(s)
  PROVE  Inv'
<1>1. /\ Given' = Given /\ Existing' = Existing
      /\ UNCHANGED <<config, kbBinding, skillBinding, client, orphans, astray, saved>>
  BY DEF ToggleSkill, Inv, ServerInv, SettingsTypeOK, Given, Existing, Enabled, history
<1>2. ServerInv'
  <2>1. SettingsTypeOK'
    BY <1>1 DEF ToggleSkill, Inv, ServerInv, SettingsTypeOK
  <2> QED  BY <1>1, <2>1 DEF Inv, ServerInv, BindingsExist
<1>3. \A a, ids : SetsAgree(a, ids) => SetsAgree(a, ids)'
  BY <1>1 DEF SetsAgree
<1> QED
  BY <1>1, <1>2, <1>3, SkillsStep

\* The skill is taken from every binding, or it is an orphan.
LEMMA DeleteKeeps ==
  ASSUME Inv, NEW s \in Skills, DeleteSkill(s)
  PROVE  Inv'
<1>1. /\ s \in Given /\ Given' = Given /\ Existing' = Existing \ {s}
      /\ UNCHANGED <<config, kbBinding, client, astray, saved>>
  BY DEF DeleteSkill, Inv, ServerInv, SettingsTypeOK, Given, Existing, Enabled
<1>2. \/ skillBinding' = [a \in Agents |-> skillBinding[a] \ {s}] /\ orphans' = orphans
      \/ skillBinding' = skillBinding /\ orphans' = orphans \cup {s}
  BY DEF DeleteSkill, remove_skill_from_all
<1>3. ServerInv'
  <2>1. SettingsTypeOK'
    BY <1>1, <1>2 DEF DeleteSkill, Inv, ServerInv, SettingsTypeOK
  <2>2. BindingsExist'
    BY <1>1, <1>2 DEF Inv, ServerInv, BindingsExist
  <2>3. orphans' \subseteq Given' /\ \A a \in Agents \ Subs : kbBinding'[a] = {} /\ skillBinding'[a] = {}
    BY <1>1, <1>2 DEF Inv, ServerInv
  <2> QED  BY <2>1, <2>2, <2>3 DEF ServerInv
<1>4. ASSUME NEW a \in Agents, NEW ids \in SUBSET Given, SetsAgree(a, ids)
      PROVE  SetsAgree(a, ids)'
  BY <1>1, <1>2, <1>4 DEF SetsAgree
<1> QED
  BY <1>1, <1>3, <1>4, SkillsStep

----------------------------------------------------------------------------
(* The dialog.                                                             *)

\* A step of the client leaves the stores and what was saved last alone.
LEMMA ClientStep ==
  ASSUME Inv, UNCHANGED <<server, orphans, saved>>
  PROVE  /\ ServerInv' /\ UsedInv'
         /\ UNCHANGED <<skills, config, kbBinding, skillBinding, orphans, saved>>
         /\ Given' = Given /\ Existing' = Existing
         /\ \A a, b : BaseOK(a, b)' <=> BaseOK(a, b)
         /\ \A a, f : FormOK(a, f)' <=> FormOK(a, f)
         /\ \A a, b : Agree(a, b)' <=> Agree(a, b)
<1>1. UNCHANGED <<skills, config, kbBinding, skillBinding, orphans, saved>>
  BY DEF server
<1> QED
  BY <1>1, ServerStays, UsedStays, FormsStay, AgreementStays DEF Inv

\* The saves go on, one as another.
LEMMA SavesStay ==
  ASSUME Inv, UNCHANGED <<server, orphans, saved, save>>
  PROVE  /\ DOMAIN save' = Saves /\ \A p \in Saves : SaveOK(p)'
         /\ \A p \in Saves : Underway(p)' <=> Underway(p)
         /\ \A p \in Saves : Progress(p) => Progress(p)'
<1>1. \A p \in Saves : SaveOK(p)'
  BY ClientStep DEF Inv, ClientInv, SaveOK
<1>2. \A p \in Saves : Progress(p) => Progress(p)'
  BY ClientStep, ProgressStays
<1> QED
  BY <1>1, <1>2 DEF Inv, ClientInv, Underway

LEMMA RefreshSkillsKeeps ==
  ASSUME Inv, RefreshSkills
  PROVE  Inv'
<1>1. /\ UNCHANGED <<server, orphans, saved, save>> /\ UNCHANGED <<registry, opening, dialog, astray>>
      /\ skillList' \subseteq Given
  BY DEF RefreshSkills, history, Enabled, Given
<1>2. ClientInv'
  BY <1>1, ClientStep, SavesStay DEF Inv, ClientInv, DialogOK, OpeningOK
<1>3. Coherent'
  <2> SUFFICES ASSUME ~astray  PROVE Coherent'
    BY <1>1 DEF Coherent
  <2>1. OneSave' /\ KnowsBindings'
    BY <1>1, ClientStep, SavesStay DEF Inv, Coherent, OneSave, KnowsBindings
  <2> QED  BY <1>1, <2>1, SavesStay DEF Inv, Coherent
<1> QED
  BY <1>1, <1>2, <1>3, ClientStep DEF Inv

\* A dialog that is open belongs to an agent; one that is closed to none.
LEMMA DialogFacts ==
  ASSUME Inv
  PROVE  /\ dialog.agent = None <=> dialog = Closed
         /\ dialog.agent # None =>
              /\ dialog \in DIALOG /\ dialog.agent \in Agents
              /\ FormOK(dialog.agent, dialog.form) /\ BaseOK(dialog.agent, dialog.base)
         /\ Closed.agent = None /\ Closed.saving = FALSE
BY NoneAssumption DEF Inv, ClientInv, DialogOK, DIALOG, Closed

LEMMA OpenKeeps ==
  ASSUME Inv, NEW a \in Agents, OpenDialog(a)
  PROVE  Inv'
<1> DEFINE known == IF a \in Subs THEN registry[a] ELSE NoBindings
<1>1. /\ UNCHANGED <<server, orphans, saved, save>> /\ UNCHANGED <<registry, skillList, dialog, astray>>
      /\ opening' = [agent |-> a, known |-> known]
      /\ dialog = Closed
  BY DialogFacts DEF OpenDialog, history
<1>2. BaseOK(a, known)
  BY DEF Inv, ClientInv, BaseOK, NoBindings, Bindings, BINDING
<1>3. ClientInv'
  <2>1. OpeningOK'
    BY <1>1, <1>2, ClientStep DEF OpeningOK
  <2> QED
    BY <1>1, <2>1, ClientStep, SavesStay DEF Inv, ClientInv, DialogOK
<1>4. Coherent'
  <2> SUFFICES ASSUME ~astray  PROVE Coherent'
    BY <1>1 DEF Coherent
  <2>1. \A p \in Saves : ~Underway(p)
    BY <1>1, DialogFacts DEF Inv, Coherent, OneSave
  <2>2. OneSave'
    BY <2>1, <1>1, SavesStay DEF OneSave
  <2>3. Agree(a, known)
    <3>1. CASE a \in Subs
      BY <2>1, <3>1 DEF Inv, Coherent, KnowsBindings
    <3>2. CASE a \notin Subs
      BY <3>2 DEF Inv, ServerInv, Agree, NoBindings, Bindings
    <3> QED  BY <3>1, <3>2
  <2>4. KnowsBindings'
    BY <1>1, <2>1, <2>3, ClientStep, SavesStay, DialogFacts DEF Inv, Coherent, KnowsBindings
  <2> QED  BY <1>1, <2>1, <2>2, <2>4, SavesStay DEF Coherent
<1> QED
  BY <1>1, <1>3, <1>4, ClientStep DEF Inv

\* What GET /agent-configs answers.
LEMMA EffectiveType ==
  ASSUME Inv, NEW a \in Agents
  PROVE  /\ get_effective_config(a).system_prompt \in {"", "default"} \cup Prompts
         /\ get_effective_config(a).context_turns \in Nat
BY DEF Inv, ServerInv, SettingsTypeOK, get_effective_config, DEFAULT_CONTEXT_TURNS

\* A form with these bindings is one of the agent.
LEMMA FormType ==
  ASSUME NEW a \in Agents, NEW b, BaseOK(a, b),
         NEW prompt \in {"", "default"} \cup Prompts, NEW turns \in Nat
  PROVE  FormOK(a, Form(prompt, turns, b)) /\ Form(prompt, turns, b).bindings = b
BY DEF FormOK, BaseOK, Form, FORM, BINDING

LEMMA ConfigArrivesKeeps ==
  ASSUME Inv, ConfigArrives
  PROVE  Inv'
<1> DEFINE a == opening.agent
           now == get_effective_config(a)
           form == Form(now.system_prompt, now.context_turns, opening.known)
<1>1. /\ UNCHANGED <<server, orphans, saved, save>> /\ UNCHANGED <<registry, skillList, astray>>
      /\ opening # None /\ opening' = None /\ dialog = Closed
      /\ dialog' = [agent |-> a, form |-> form, base |-> opening.known, saving |-> FALSE]
  BY DEF ConfigArrives, history, Inv, ClientInv, OpeningOK
<1>2. a \in Agents /\ BaseOK(a, opening.known) /\ opening.known \in BINDING
  BY <1>1 DEF Inv, ClientInv, OpeningOK, BaseOK
<1>3. FormOK(a, form) /\ form \in FORM
  <2>1. FormOK(a, form)
    BY <1>2, EffectiveType, FormType
  <2> QED  BY <2>1 DEF FormOK
<1> HIDE DEF a, form
<1>4. ClientInv'
  <2>1. DialogOK'
    BY <1>1, <1>2, <1>3, ClientStep DEF DialogOK, DIALOG
  <2> QED
    BY <1>1, <2>1, ClientStep, SavesStay DEF Inv, ClientInv, OpeningOK
<1>5. Coherent'
  <2> SUFFICES ASSUME ~astray  PROVE Coherent'
    BY <1>1 DEF Coherent
  <2>1. \A p \in Saves : ~Underway(p)
    BY <1>1 DEF Inv, Coherent, OneSave
  <2>2. OneSave'
    BY <2>1, <1>1, SavesStay DEF OneSave
  <2>3. Agree(a, opening.known)
    BY <1>1 DEF a, Inv, Coherent, KnowsBindings
  <2>4. KnowsBindings'
    BY <1>1, <2>1, <2>3, ClientStep, SavesStay DEF Inv, Coherent, KnowsBindings
  <2> QED  BY <1>1, <2>1, <2>2, <2>4, SavesStay DEF Coherent
<1> QED
  BY <1>1, <1>4, <1>5, ClientStep DEF Inv

LEMMA ConfigFailsKeeps ==
  ASSUME Inv, ConfigFails
  PROVE  Inv'
<1> DEFINE a == opening.agent
           form == Form("", DEFAULT_CONTEXT_TURNS, NoBindings)
<1>1. /\ UNCHANGED <<server, orphans, saved, save>> /\ UNCHANGED <<registry, skillList>>
      /\ opening # None /\ opening' = None /\ dialog = Closed /\ astray'
      /\ dialog' = [agent |-> a, form |-> form, base |-> NoBindings, saving |-> FALSE]
      /\ astray' \in BOOLEAN
  BY DEF ConfigFails, Inv, ClientInv, OpeningOK
<1>2. a \in Agents /\ BaseOK(a, NoBindings) /\ NoBindings \in BINDING
  BY <1>1 DEF Inv, ClientInv, OpeningOK, BaseOK, NoBindings, Bindings, BINDING
<1>3. FormOK(a, form) /\ form \in FORM
  <2>1. FormOK(a, form)
    BY <1>2, FormType DEF DEFAULT_CONTEXT_TURNS
  <2> QED  BY <2>1 DEF FormOK
<1> HIDE DEF a, form
<1>4. ClientInv'
  <2>1. DialogOK'
    BY <1>1, <1>2, <1>3, ClientStep DEF DialogOK, DIALOG
  <2> QED
    BY <1>1, <2>1, ClientStep, SavesStay DEF Inv, ClientInv, OpeningOK
<1>5. Coherent'
  BY <1>1 DEF Coherent
<1> QED
  BY <1>1, <1>4, <1>5, ClientStep DEF Inv

\* Whatever field is changed, the form stays one of the agent.
LEMMA EditedForm ==
  ASSUME Inv, Edit
  PROVE  \E form : /\ dialog' = [dialog EXCEPT !.form = form]
                   /\ FormOK(dialog.agent, form)
<1> DEFINE form == dialog.form
           b == form.bindings
           a == dialog.agent
<1>1. /\ a \in Agents /\ dialog \in DIALOG /\ FormOK(a, form) /\ form \in FORM
      /\ b \in BINDING /\ b.skills \subseteq Given /\ skillList \subseteq Given
  BY DialogFacts DEF Edit, Inv, ClientInv, FormOK, BaseOK
<1>2. ASSUME NEW prompt \in Prompts, dialog' = [dialog EXCEPT !.form.system_prompt = prompt]
      PROVE  \E f : dialog' = [dialog EXCEPT !.form = f] /\ FormOK(a, f)
  <2> DEFINE f == [form EXCEPT !.system_prompt = prompt]
  <2>1. f \in FORM /\ f.bindings = b
    BY <1>1 DEF FORM
  <2>2. FormOK(a, f)
    BY <1>1, <2>1 DEF FormOK
  <2>3. dialog' = [dialog EXCEPT !.form = f]
    BY <1>2
  <2> QED  BY <2>2, <2>3
<1>3. ASSUME NEW turns \in Turns, dialog' = [dialog EXCEPT !.form.context_turns = turns]
      PROVE  \E f : dialog' = [dialog EXCEPT !.form = f] /\ FormOK(a, f)
  <2> DEFINE f == [form EXCEPT !.context_turns = turns]
  <2>1. f \in FORM /\ f.bindings = b
    BY <1>1, TurnsAssumption DEF FORM
  <2>2. FormOK(a, f)
    BY <1>1, <2>1 DEF FormOK
  <2>3. dialog' = [dialog EXCEPT !.form = f]
    BY <1>3
  <2> QED  BY <2>2, <2>3
<1>4. ASSUME NEW c \in BINDING, c.skills \subseteq Given, a \in Subs
      PROVE  FormOK(a, [form EXCEPT !.bindings = c])
  <2>1. [form EXCEPT !.bindings = c] \in FORM /\ [form EXCEPT !.bindings = c].bindings = c
    BY <1>1, <1>4 DEF FORM, BINDING
  <2> QED  BY <1>1, <1>4, <2>1 DEF FormOK, BaseOK
<1>5. ASSUME NEW k \in KBs, a \in Subs,
             dialog' = [dialog EXCEPT !.form.bindings.kbs = Flipped(@, k)]
      PROVE  \E f : dialog' = [dialog EXCEPT !.form = f] /\ FormOK(a, f)
  <2> DEFINE c == [b EXCEPT !.kbs = Flipped(b.kbs, k)]
  <2>1. c \in BINDING /\ c.skills \subseteq Given
    BY <1>1 DEF BINDING, Flipped
  <2>2. dialog' = [dialog EXCEPT !.form = [form EXCEPT !.bindings = c]]
    BY <1>5
  <2> QED  BY <1>4, <1>5, <2>1, <2>2
<1>6. ASSUME NEW t \in skillList, a \in Subs,
             dialog' = [dialog EXCEPT !.form.bindings.skills = Flipped(@, t)]
      PROVE  \E f : dialog' = [dialog EXCEPT !.form = f] /\ FormOK(a, f)
  <2> DEFINE c == [b EXCEPT !.skills = Flipped(b.skills, t)]
  <2>1. c \in BINDING /\ c.skills \subseteq Given
    BY <1>1 DEF BINDING, Flipped, Given
  <2>2. dialog' = [dialog EXCEPT !.form = [form EXCEPT !.bindings = c]]
    BY <1>6
  <2> QED  BY <1>4, <1>6, <2>1, <2>2
<1> QED
  BY <1>2, <1>3, <1>5, <1>6 DEF Edit

LEMMA EditKeeps ==
  ASSUME Inv, Edit
  PROVE  Inv'
<1>1. /\ UNCHANGED <<server, orphans, saved, save>>
      /\ UNCHANGED <<registry, skillList, opening, astray>>
  BY DEF Edit, history
<1>2. PICK form : dialog' = [dialog EXCEPT !.form = form] /\ FormOK(dialog.agent, form)
  BY EditedForm
<1>3. /\ dialog' \in DIALOG /\ dialog'.agent = dialog.agent /\ dialog'.base = dialog.base
      /\ dialog'.saving = dialog.saving /\ dialog'.form = form /\ dialog # Closed
  BY <1>2, DialogFacts DEF Edit, DIALOG, FormOK
<1>4. ClientInv'
  <2>1. DialogOK'
    BY <1>2, <1>3, ClientStep, <1>1 DEF Inv, ClientInv, DialogOK
  <2> QED
    BY <1>1, <1>3, <2>1, ClientStep, SavesStay DEF Inv, ClientInv, OpeningOK
<1>5. Coherent'
  <2> SUFFICES ASSUME ~astray  PROVE Coherent'
    BY <1>1 DEF Coherent
  <2>1. OneSave' /\ KnowsBindings'
    BY <1>1, <1>3, ClientStep, SavesStay DEF Inv, Coherent, OneSave, KnowsBindings
  <2> QED  BY <1>1, <2>1, SavesStay DEF Inv, Coherent
<1> QED
  BY <1>1, <1>4, <1>5, ClientStep DEF Inv

LEMMA CloseKeeps ==
  ASSUME Inv, CloseDialog
  PROVE  Inv'
<1>1. /\ UNCHANGED <<server, orphans, saved, save>> /\ UNCHANGED <<registry, skillList, opening>>
      /\ dialog' = Closed
      /\ astray' = (astray \/ \E p \in Saves : Underway(p)) /\ astray' \in BOOLEAN
  BY DEF CloseDialog, Inv, ClientInv
<1>2. ClientInv'
  BY <1>1, ClientStep, SavesStay DEF Inv, ClientInv, DialogOK, OpeningOK
<1>3. Coherent'
  <2> SUFFICES ASSUME ~astray, \A p \in Saves : ~Underway(p)  PROVE Coherent'
    BY <1>1 DEF Coherent
  <2>1. OneSave' /\ KnowsBindings'
    BY <1>1, ClientStep, SavesStay, DialogFacts DEF Inv, Coherent, OneSave, KnowsBindings
  <2> QED  BY <1>1, <2>1, SavesStay DEF Inv, Coherent
<1> QED
  BY <1>1, <1>2, <1>3, ClientStep DEF Inv

----------------------------------------------------------------------------
(* A save.                                                                 *)

LEMMA StartKeeps ==
  ASSUME Inv, NEW p \in Saves, StartSave(p)
  PROVE  Inv'
<1> DEFINE a == dialog.agent
           started == [step |-> "config", agent |-> a, form |-> dialog.form, base |-> dialog.base]
<1>1. /\ a \in Agents /\ dialog \in DIALOG /\ FormOK(a, dialog.form) /\ BaseOK(a, dialog.base)
      /\ ~dialog.saving /\ dialog # Closed /\ save[p] = NoSave
      /\ dialog' = [dialog EXCEPT !.saving = TRUE]
      /\ save' = [save EXCEPT ![p] = started]
      /\ saved' = [saved EXCEPT ![a] = None]
      /\ UNCHANGED <<skills, config, kbBinding, skillBinding>>
      /\ UNCHANGED <<registry, skillList, opening, orphans, astray>>
      /\ UNCHANGED server /\ UNCHANGED orphans
  BY DialogFacts DEF StartSave, server
<1>2. /\ started \in SAVE /\ started.agent = a /\ started.step = "config"
      /\ started.form = dialog.form /\ started.base = dialog.base
  BY <1>1 DEF SAVE, DIALOG
<1>3. /\ dialog' \in DIALOG /\ dialog'.agent = a /\ dialog'.form = dialog.form
      /\ dialog'.base = dialog.base /\ dialog'.saving = TRUE
  BY <1>1 DEF DIALOG
<1> HIDE DEF started, a
<1>4. /\ save'[p] = started /\ \A q \in Saves \ {p} : save'[q] = save[q]
      /\ DOMAIN save' = Saves /\ DOMAIN saved' = Agents
      /\ saved'[a] = None /\ \A b \in Agents \ {a} : saved'[b] = saved[b]
  BY <1>1 DEF Inv, ClientInv
<1>5. ServerInv' /\ Given' = Given /\ Existing' = Existing
      /\ (\A c, b : BaseOK(c, b)' <=> BaseOK(c, b))
      /\ (\A c, f : FormOK(c, f)' <=> FormOK(c, f))
      /\ (\A c, b : Agree(c, b)' <=> Agree(c, b))
  BY <1>1, ServerStays, FormsStay, AgreementStays DEF Inv
<1>6. ClientInv'
  <2>1. ASSUME NEW q \in Saves  PROVE SaveOK(q)'
    <3>1. CASE q = p
      BY <1>1, <1>2, <1>4, <1>5, <3>1 DEF SaveOK
    <3>2. CASE q # p
      BY <1>4, <1>5, <3>2 DEF Inv, ClientInv, SaveOK, SAVE
    <3> QED  BY <3>1, <3>2
  <2>2. DialogOK' /\ OpeningOK'
    BY <1>1, <1>3, <1>5 DEF a, Inv, ClientInv, DialogOK, OpeningOK
  <2> QED
    BY <1>1, <1>4, <1>5, <2>1, <2>2 DEF Inv, ClientInv
<1>7. UsedInv'
  BY <1>1, <1>4, <1>5 DEF Inv, UsedInv
<1>8. Coherent'
  <2> SUFFICES ASSUME ~astray  PROVE Coherent'
    BY <1>1 DEF Coherent
  <2>1. \A q \in Saves : ~Underway(q)
    BY <1>1 DEF Inv, Coherent, OneSave
  <2>2. \A q \in Saves : Underway(q)' => q = p
    BY <1>4, <2>1 DEF Underway
  <2>3. Underway(p)' /\ save'[p].step = "config"
    BY <1>2, <1>4 DEF Underway, NoSave
  <2>4. OneSave'
    BY <1>1, <1>2, <1>3, <1>4, <2>2 DEF OneSave, Inv, ClientInv, OpeningOK
  <2>5. Agree(a, dialog.base) /\ opening = None
    <3>1. a # None
      BY <1>1, NoneAssumption
    <3>2. Agree(a, dialog.base)
      BY <1>1, <3>1 DEF a, Inv, Coherent, KnowsBindings
    <3> QED  BY <1>1, <3>2 DEF Inv, ClientInv, OpeningOK
  <2>6. KnowsBindings'
    BY <1>1, <1>3, <2>3, <2>5 DEF KnowsBindings
  <2>7. Progress(p)'
    BY <1>1, <1>2, <1>4, <1>5, <2>5 DEF Progress, Agree
  <2> QED  BY <2>2, <2>4, <2>6, <2>7 DEF Coherent
<1> QED
  BY <1>5, <1>6, <1>7, <1>8 DEF Inv
----------------------------------------------------------------------------
(* The requests of a save.                                                 *)

\* The next step of a save leaves its form alone.
LEMMA MovesOn ==
  ASSUME Inv, NEW p \in Saves, Underway(p),
         NEW step \in {"kbs", "skills", "registry", "close"},
         step \in {"kbs", "skills"} => save[p].agent \in Subs,
         GoesTo(p, step)
  PROVE  /\ save[p] \in SAVE /\ save[p].agent \in Agents
         /\ FormOK(save[p].agent, save[p].form) /\ BaseOK(save[p].agent, save[p].base)
         /\ saved[save[p].agent] = None
         /\ save'[p].step = step /\ save'[p].agent = save[p].agent
         /\ save'[p].form = save[p].form /\ save'[p].base = save[p].base
         /\ save'[p] \in SAVE /\ Underway(p)'
         /\ DOMAIN save' = Saves /\ \A q \in Saves \ {p} : save'[q] = save[q]
         /\ step \in {"kbs", "skills"} => save'[p].agent \in Subs
<1>1. /\ SaveOK(p) /\ DOMAIN save = Saves
  BY DEF Inv, ClientInv
<1>2. save[p] \in SAVE
  BY <1>1 DEF SaveOK, Underway
<1>3. save' = [save EXCEPT ![p] = [save[p] EXCEPT !.step = step]]
  BY DEF GoesTo
<1>4. /\ save'[p] = [save[p] EXCEPT !.step = step] /\ save'[p] \in SAVE
      /\ save'[p].step = step
  BY <1>1, <1>2, <1>3 DEF SAVE
<1>5. save'[p].step # NoSave.step
  BY <1>4 DEF NoSave
<1> QED
  BY <1>1, <1>2, <1>3, <1>4, <1>5 DEF SaveOK, Underway, SAVE

\* While nothing came between there is no other save, and no dialog to believe.
LEMMA AloneWhileUnderway ==
  ASSUME Inv, ~astray, NEW p \in Saves, Underway(p)
  PROVE  /\ \A q \in Saves : Underway(q) => q = p
         /\ opening = None /\ dialog.saving /\ dialog.agent = save[p].agent
         /\ Progress(p)
BY DEF Inv, Coherent, OneSave

\* A save moves on without touching what the client knows or shows: what is left to see is
\* that the stores stay in order, and how far the save has come.
LEMMA RequestKeeps ==
  ASSUME Inv, NEW p \in Saves, Underway(p),
         NEW step \in {"kbs", "skills", "registry", "close"},
         step \in {"kbs", "skills"} => save[p].agent \in Subs,
         GoesTo(p, step), UNCHANGED <<skills, skillList, opening, dialog, history>>,
         ServerInv',
         \A a \in Agents : BaseOK(a, registry'[a]),
         DOMAIN registry' = Agents,
         \A a \in Agents \ {save[p].agent} :
           config'[a] = config[a] /\ kbBinding'[a] = kbBinding[a] /\ skillBinding'[a] = skillBinding[a],
         ~astray => Progress(p)',
         ~astray /\ step = "close" => \A a \in Agents : Agree(a, registry[a])'
  PROVE  Inv'
<1>1. /\ UNCHANGED <<orphans, astray, saved>> /\ UNCHANGED <<skillList, opening, dialog>>
  BY DEF history
<1>2. /\ Given' = Given /\ Existing' = Existing
      /\ \A a, b : BaseOK(a, b)' <=> BaseOK(a, b)
      /\ \A a, f : FormOK(a, f)' <=> FormOK(a, f)
  BY FormsStay
<1>3. ClientInv'
  <2>1. ASSUME NEW q \in Saves  PROVE SaveOK(q)'
    <3>1. CASE q = p
      BY <1>1, <1>2, <3>1, MovesOn DEF SaveOK
    <3>2. CASE q # p
      BY <1>1, <1>2, <3>2, MovesOn DEF Inv, ClientInv, SaveOK
    <3> QED  BY <3>1, <3>2
  <2>2. DialogOK' /\ OpeningOK'
    BY <1>1, <1>2 DEF Inv, ClientInv, DialogOK, OpeningOK
  <2>3. \A a \in Agents : BaseOK(a, registry[a])'
    BY <1>2
  <2> QED
    BY <1>1, <1>2, <2>1, <2>2, <2>3, MovesOn DEF Inv, ClientInv
<1>4. UsedInv'
  <2> SUFFICES ASSUME NEW a \in Agents, saved[a] # None
               PROVE  /\ FormOK(a, saved[a])' /\ config'[a] = Entry(saved[a])
                      /\ Agree(a, saved[a].bindings)'
    BY <1>1 DEF UsedInv
  <2>1. a # save[p].agent
    BY MovesOn
  <2>2. FormOK(a, saved[a]) /\ config[a] = Entry(saved[a]) /\ Agree(a, saved[a].bindings)
    BY DEF Inv, UsedInv
  <2> QED  BY <1>1, <1>2, <2>1, <2>2 DEF Agree
<1>5. Coherent'
  <2> SUFFICES ASSUME ~astray  PROVE Coherent'
    BY <1>1 DEF Coherent
  <2>1. \A q \in Saves : Underway(q)' <=> q = p
    BY MovesOn, AloneWhileUnderway DEF Underway
  <2>2. OneSave'
    BY <1>1, <2>1, MovesOn, AloneWhileUnderway DEF OneSave
  <2>3. KnowsBindings'
    BY <1>1, <2>1, MovesOn, AloneWhileUnderway DEF KnowsBindings
  <2> QED  BY <2>1, <2>2, <2>3 DEF Coherent
<1> QED
  BY <1>3, <1>4, <1>5 DEF Inv

\* The configuration that is stored.
LEMMA EntryType ==
  ASSUME NEW form \in FORM
  PROVE  Entry(form) \in [system_prompt : {""} \cup Prompts, context_turns : Nat \cup {None}]
BY DEF FORM, Entry

LEMMA PutConfigKeeps ==
  ASSUME Inv, NEW p \in Saves, PutConfig(p)
  PROVE  Inv'
<1> DEFINE a == save[p].agent
           step == IF a \in Subs THEN "kbs" ELSE "registry"
<1>1. /\ save[p].step = "config" /\ GoesTo(p, step)
      /\ config' = [config EXCEPT ![a] = Entry(save[p].form)]
      /\ UNCHANGED <<skills, kbBinding, skillBinding>> /\ UNCHANGED registry
      /\ UNCHANGED <<skills, skillList, opening, dialog, history>> /\ UNCHANGED orphans
  BY DEF PutConfig, history
<1>2. Underway(p)
  BY <1>1 DEF Underway, NoSave
<1>3. step \in {"kbs", "skills", "registry", "close"} /\ (step \in {"kbs", "skills"} => a \in Subs)
  OBVIOUS
<1> HIDE DEF step
<1>4. /\ a \in Agents /\ FormOK(a, save[p].form) /\ BaseOK(a, save[p].base)
      /\ save'[p].step = step /\ save'[p].agent = a
      /\ save'[p].form = save[p].form /\ save'[p].base = save[p].base
  BY <1>1, <1>2, <1>3, MovesOn
<1>5. Existing' = Existing /\ Given' = Given
  BY <1>1, FormsStay
<1>6. ServerInv'
  <2>1. SettingsTypeOK'
    <3>1. Entry(save[p].form) \in [system_prompt : {""} \cup Prompts, context_turns : Nat \cup {None}]
      BY <1>4, EntryType DEF FormOK
    <3> QED  BY <1>1, <3>1 DEF Inv, ServerInv, SettingsTypeOK
  <2> QED  BY <1>1, <1>5, <2>1 DEF Inv, ServerInv, BindingsExist
<1>7. config'[a] = Entry(save[p].form) /\ \A b \in Agents \ {a} : config'[b] = config[b]
  BY <1>1, <1>4 DEF Inv, ServerInv, SettingsTypeOK
<1>8. ASSUME ~astray  PROVE Progress(p)'
  <2>1. /\ save[p].base.kbs = kbBinding[a]
        /\ save[p].base.skills \cap Existing = skillBinding[a] \cap Existing
    BY <1>1, <1>2, <1>8, AloneWhileUnderway DEF Progress
  <2>2. a \notin Subs => /\ save[p].form.bindings = NoBindings
                         /\ kbBinding[a] = {} /\ skillBinding[a] = {}
    BY <1>4 DEF FormOK, BaseOK, Inv, ServerInv
  <2>3. CASE a \in Subs
    BY <1>1, <1>4, <1>5, <1>7, <2>1, <2>3 DEF Progress, step
  <2>4. CASE a \notin Subs
    <3>1. save'[p].step = "registry"
      BY <1>4, <2>4 DEF step
    <3>2. /\ save[p].form.bindings.kbs = {} /\ save[p].form.bindings.skills = {}
          /\ kbBinding'[a] = {} /\ skillBinding'[a] = {}
      BY <1>1, <2>2, <2>4 DEF NoBindings, Bindings
    <3> QED  BY <1>4, <1>7, <3>1, <3>2 DEF Progress
  <2> QED  BY <2>3, <2>4
<1>9. DOMAIN registry' = Agents /\ \A b \in Agents : BaseOK(b, registry'[b])
  BY <1>1 DEF Inv, ClientInv
<1>10. step # "close"
  BY DEF step
<1> QED
  BY <1>1, <1>2, <1>3, <1>6, <1>7, <1>8, <1>9, <1>10, RequestKeeps

LEMMA PutKbBindingKeeps ==
  ASSUME Inv, NEW p \in Saves, PutKbBinding(p)
  PROVE  Inv'
<1> DEFINE a == save[p].agent
           kbs == save[p].form.bindings.kbs
<1>1. /\ save[p].step = "kbs" /\ GoesTo(p, "skills")
      /\ kbBinding' = [kbBinding EXCEPT ![a] = kbs]
      /\ UNCHANGED <<skills, config, skillBinding>> /\ UNCHANGED registry
      /\ UNCHANGED <<skills, skillList, opening, dialog, history>> /\ UNCHANGED orphans
  BY DEF PutKbBinding, history
<1>2. Underway(p)
  BY <1>1 DEF Underway, NoSave
<1>3. a \in Subs
  BY <1>1, <1>2 DEF Inv, ClientInv, SaveOK, Underway
<1>4. /\ a \in Agents /\ FormOK(a, save[p].form)
      /\ save'[p].step = "skills" /\ save'[p].agent = a
      /\ save'[p].form = save[p].form /\ save'[p].base = save[p].base
  BY <1>1, <1>2, <1>3, MovesOn
<1>5. Existing' = Existing /\ Given' = Given
  BY <1>1, FormsStay
<1>6. kbs \in SUBSET KBs
  BY <1>4 DEF FormOK, FORM
<1>7. kbBinding'[a] = kbs /\ \A b \in Agents \ {a} : kbBinding'[b] = kbBinding[b]
  BY <1>1, <1>4 DEF Inv, ServerInv, SettingsTypeOK
<1>8. ServerInv'
  <2>1. SettingsTypeOK'
    BY <1>1, <1>6 DEF Inv, ServerInv, SettingsTypeOK
  <2> QED  BY <1>1, <1>3, <1>5, <1>7, <2>1 DEF Inv, ServerInv, BindingsExist
<1>9. ASSUME ~astray  PROVE Progress(p)'
  BY <1>1, <1>2, <1>4, <1>5, <1>7, <1>9, AloneWhileUnderway DEF Progress
<1>10. DOMAIN registry' = Agents /\ \A b \in Agents : BaseOK(b, registry'[b])
  BY <1>1 DEF Inv, ClientInv
<1> QED
  BY <1>1, <1>2, <1>3, <1>7, <1>8, <1>9, <1>10, RequestKeeps

LEMMA PutSkillBindingKeeps ==
  ASSUME Inv, NEW p \in Saves, PutSkillBinding(p)
  PROVE  Inv'
<1> DEFINE a == save[p].agent
           ids == Cleaned(save[p].form.bindings.skills)
<1>1. /\ save[p].step = "skills" /\ GoesTo(p, "registry")
      /\ skillBinding' = [skillBinding EXCEPT ![a] = ids]
      /\ UNCHANGED <<skills, config, kbBinding>> /\ UNCHANGED registry
      /\ UNCHANGED <<skills, skillList, opening, dialog, history>> /\ UNCHANGED orphans
  BY DEF PutSkillBinding, history
<1>2. Underway(p)
  BY <1>1 DEF Underway, NoSave
<1>3. a \in Subs
  BY <1>1, <1>2 DEF Inv, ClientInv, SaveOK, Underway
<1>4. /\ a \in Agents /\ FormOK(a, save[p].form)
      /\ save'[p].step = "registry" /\ save'[p].agent = a
      /\ save'[p].form = save[p].form /\ save'[p].base = save[p].base
  BY <1>1, <1>2, <1>3, MovesOn
<1>5. Existing' = Existing /\ Given' = Given
  BY <1>1, FormsStay
<1>6. ids \in SUBSET Skills /\ ids = save[p].form.bindings.skills \cap Existing
  BY DEF Cleaned, Existing, Enabled
<1> HIDE DEF ids
<1>7. skillBinding'[a] = ids /\ \A b \in Agents \ {a} : skillBinding'[b] = skillBinding[b]
  BY <1>1, <1>4 DEF Inv, ServerInv, SettingsTypeOK
<1>8. ServerInv'
  <2>1. SettingsTypeOK'
    BY <1>1, <1>6 DEF Inv, ServerInv, SettingsTypeOK
  <2> QED  BY <1>1, <1>3, <1>5, <1>6, <1>7, <2>1 DEF Inv, ServerInv, BindingsExist
<1>9. ASSUME ~astray  PROVE Progress(p)'
  BY <1>1, <1>2, <1>4, <1>5, <1>6, <1>7, <1>9, AloneWhileUnderway DEF Progress
<1>10. DOMAIN registry' = Agents /\ \A b \in Agents : BaseOK(b, registry'[b])
  BY <1>1 DEF Inv, ClientInv
<1> QED
  BY <1>1, <1>2, <1>3, <1>7, <1>8, <1>9, <1>10, RequestKeeps

\* What the server answers is what an agent has.
LEMMA RegistryAnswer ==
  ASSUME Inv
  PROVE  /\ DOMAIN GetRegistry = Agents
         /\ \A a \in Agents : BaseOK(a, GetRegistry[a]) /\ Agree(a, GetRegistry[a])
<1> SUFFICES ASSUME NEW a \in Agents
             PROVE  BaseOK(a, GetRegistry[a]) /\ Agree(a, GetRegistry[a])
  BY DEF GetRegistry
<1>1. GetRegistry[a] = Bindings(kbBinding[a], skillBinding[a] \cap Existing)
  BY DEF GetRegistry
<1>2. skillBinding[a] \in SUBSET Skills /\ kbBinding[a] \in SUBSET KBs /\ Existing \subseteq Given
  BY DEF Inv, ServerInv, SettingsTypeOK, Existing, Enabled, Given
<1>3. a \notin Subs => kbBinding[a] = {} /\ skillBinding[a] = {}
  BY DEF Inv, ServerInv
<1> QED
  BY <1>1, <1>2, <1>3 DEF BaseOK, BINDING, Bindings, NoBindings, Agree

LEMMA RefreshRegistryKeeps ==
  ASSUME Inv, NEW p \in Saves, RefreshRegistry(p)
  PROVE  Inv'
<1>1. /\ save[p].step = "registry" /\ GoesTo(p, "close") /\ registry' = GetRegistry
      /\ UNCHANGED <<skills, config, kbBinding, skillBinding>> /\ UNCHANGED server
      /\ UNCHANGED <<skills, skillList, opening, dialog, history>> /\ UNCHANGED orphans
  BY DEF RefreshRegistry, history, server
<1>2. Underway(p)
  BY <1>1 DEF Underway, NoSave
<1>3. /\ save'[p].step = "close" /\ save'[p].agent = save[p].agent
      /\ save'[p].form = save[p].form /\ save'[p].base = save[p].base
  BY <1>1, <1>2, MovesOn
<1>4. Existing' = Existing /\ ServerInv'
  BY <1>1, FormsStay, ServerStays DEF Inv
<1>5. ASSUME ~astray  PROVE Progress(p)'
  BY <1>1, <1>2, <1>3, <1>4, <1>5, AloneWhileUnderway DEF Progress
<1>6. \A a \in Agents : Agree(a, registry[a])'
  BY <1>1, RegistryAnswer, AgreementStays
<1>7. DOMAIN registry' = Agents /\ \A a \in Agents : BaseOK(a, registry'[a])
  BY <1>1, RegistryAnswer
<1> QED
  BY <1>1, <1>2, <1>4, <1>5, <1>6, <1>7, RequestKeeps

----------------------------------------------------------------------------
(* The end of a save.                                                      *)

\* When the client is up to date and nothing is under way, it knows all bindings.
LEMMA EndSaveKeeps ==
  ASSUME Inv, NEW p \in Saves, EndSave(p)
  PROVE  Inv'
<1> DEFINE a == save[p].agent
<1>1. /\ save[p].step = "close" /\ skillList' \subseteq Given /\ dialog' = Closed
      /\ save' = [save EXCEPT ![p] = NoSave]
      /\ saved' = [saved EXCEPT ![a] = IF astray THEN None ELSE save[p].form]
      /\ astray' = (astray /\ ~(IsUpToDate /\ opening = None /\ \A q \in Saves \ {p} : ~Underway(q)))
      /\ UNCHANGED <<skills, config, kbBinding, skillBinding>> /\ UNCHANGED server
      /\ UNCHANGED <<registry, opening, orphans>> /\ UNCHANGED orphans
  BY DEF EndSave, server, Enabled, Given
<1>2. /\ Underway(p) /\ a \in Agents /\ FormOK(a, save[p].form)
  BY <1>1 DEF Underway, NoSave, Inv, ClientInv, SaveOK, SAVE
<1>3. /\ save'[p] = NoSave /\ (\A q \in Saves \ {p} : save'[q] = save[q]) /\ DOMAIN save' = Saves
      /\ DOMAIN saved' = Agents /\ (\A b \in Agents \ {a} : saved'[b] = saved[b])
      /\ saved'[a] = IF astray THEN None ELSE save[p].form
      /\ astray' \in BOOLEAN
  BY <1>1, <1>2 DEF Inv, ClientInv
<1>4. /\ ServerInv' /\ Given' = Given /\ Existing' = Existing
      /\ \A c, b : BaseOK(c, b)' <=> BaseOK(c, b)
      /\ \A c, f : FormOK(c, f)' <=> FormOK(c, f)
      /\ \A c, b : Agree(c, b)' <=> Agree(c, b)
  BY <1>1, ServerStays, FormsStay, AgreementStays DEF Inv
<1>5. \A q \in Saves : Underway(q)' <=> q # p /\ Underway(q)
  BY <1>3 DEF Underway
<1>6. ClientInv'
  <2>1. ASSUME NEW q \in Saves  PROVE SaveOK(q)'
    <3>1. CASE q = p
      BY <1>3, <3>1 DEF SaveOK
    <3>2. CASE q # p /\ ~astray
      BY <1>2, <1>3, <3>2, AloneWhileUnderway DEF SaveOK, Underway
    <3>3. CASE q # p /\ astray
      <4>1. SaveOK(q) /\ save'[q] = save[q]
        BY <1>3, <3>3 DEF Inv, ClientInv
      <4>2. save[q] \in SAVE => save[q].agent \in Agents
        BY DEF SAVE
      <4> QED  BY <1>3, <1>4, <3>3, <4>1, <4>2 DEF SaveOK
    <3> QED  BY <3>1, <3>2, <3>3, <1>1 DEF Inv, ClientInv
  <2>2. DialogOK' /\ OpeningOK'
    BY <1>1, <1>4 DEF Inv, ClientInv, DialogOK, OpeningOK
  <2> QED
    BY <1>1, <1>3, <1>4, <2>1, <2>2 DEF Inv, ClientInv
<1>7. UsedInv'
  <2> SUFFICES ASSUME NEW b \in Agents, saved'[b] # None
               PROVE  /\ FormOK(b, saved'[b]) /\ config[b] = Entry(saved'[b])
                      /\ Agree(b, saved'[b].bindings)
    BY <1>1, <1>4 DEF UsedInv
  <2>1. CASE b = a
    <3>1. ~astray /\ saved'[b] = save[p].form
      BY <1>3, <2>1
    <3>2. Progress(p)
      BY <1>2, <3>1, AloneWhileUnderway
    <3> QED  BY <1>1, <1>2, <2>1, <3>1, <3>2 DEF Progress, Agree
  <2>2. CASE b # a
    BY <1>3, <2>2 DEF Inv, UsedInv
  <2> QED  BY <2>1, <2>2
<1>8. Coherent'
  <2> SUFFICES ASSUME ~astray'  PROVE Coherent'
    BY DEF Coherent
  <2>1. opening = None /\ (\A q \in Saves \ {p} : ~Underway(q))
        /\ \A b \in Agents : Agree(b, registry[b])
    <3>1. CASE astray
      BY <1>1, <3>1 DEF IsUpToDate, Agree
    <3>2. CASE ~astray
      <4>1. opening = None /\ \A q \in Saves : Underway(q) => q = p
        BY <1>2, <3>2, AloneWhileUnderway
      <4>2. KnowsBindings
        BY <3>2 DEF Inv, Coherent
      <4> QED  BY <1>1, <4>1, <4>2 DEF KnowsBindings
    <3> QED  BY <3>1, <3>2
  <2>2. \A q \in Saves : ~Underway(q)'
    BY <1>5, <2>1
  <2>3. OneSave'
    BY <2>2 DEF OneSave
  <2>4. KnowsBindings'
    <3>1. dialog'.agent = None /\ opening' = None /\ registry' = registry
      BY <1>1, <2>1, DialogFacts
    <3> QED  BY <1>4, <2>1, <3>1 DEF KnowsBindings
  <2> QED  BY <2>2, <2>3, <2>4 DEF Coherent
<1> QED
  BY <1>4, <1>6, <1>7, <1>8 DEF Inv

LEMMA SaveFailsKeeps ==
  ASSUME Inv, NEW p \in Saves, SaveFails(p)
  PROVE  Inv'
<1>1. /\ save' = [save EXCEPT ![p] = NoSave] /\ astray' = TRUE
      /\ dialog' = [dialog EXCEPT !.saving = FALSE]
      /\ UNCHANGED <<registry, skillList, opening>>
      /\ UNCHANGED <<server, orphans, saved>>
  BY DEF SaveFails
<1>2. ClientInv'
  <2>1. ASSUME NEW q \in Saves  PROVE SaveOK(q)'
    <3>1. CASE q = p
      BY <1>1, <3>1 DEF Inv, ClientInv, SaveOK
    <3>2. CASE q # p
      BY <1>1, <3>2, ClientStep DEF Inv, ClientInv, SaveOK
    <3> QED  BY <3>1, <3>2
  <2>2. DialogOK' /\ (dialog = Closed => dialog' = Closed)
    <3>1. CASE dialog = Closed
      BY <1>1, <3>1 DEF DialogOK, Closed
    <3>2. CASE dialog # Closed
      <4>1. /\ dialog \in DIALOG /\ FormOK(dialog.agent, dialog.form)
            /\ BaseOK(dialog.agent, dialog.base)
        BY <3>2 DEF Inv, ClientInv, DialogOK
      <4>2. /\ dialog' \in DIALOG /\ dialog'.agent = dialog.agent
            /\ dialog'.form = dialog.form /\ dialog'.base = dialog.base
        BY <1>1, <4>1 DEF DIALOG
      <4> QED  BY <1>1, <3>2, <4>1, <4>2, ClientStep DEF DialogOK
    <3> QED  BY <3>1, <3>2
  <2>3. OpeningOK'
    BY <1>1, <2>2, ClientStep DEF Inv, ClientInv, OpeningOK
  <2> QED
    BY <1>1, <2>1, <2>2, <2>3, ClientStep DEF Inv, ClientInv
<1>3. Coherent'
  BY <1>1 DEF Coherent
<1> QED
  BY <1>1, <1>2, <1>3, ClientStep DEF Inv

----------------------------------------------------------------------------
(* The theorems.                                                           *)

LEMMA NextKeeps ==
  ASSUME Inv, [Next]_vars
  PROVE  Inv'
<1>1. CASE UNCHANGED vars
  BY <1>1, Stuttering
<1>2. CASE \E s \in Skills : CreateSkill(s) \/ ToggleSkill(s) \/ DeleteSkill(s)
  BY <1>2, CreateKeeps, ToggleKeeps, DeleteKeeps
<1>3. CASE RefreshSkills \/ ConfigArrives \/ ConfigFails \/ Edit \/ CloseDialog
  BY <1>3, RefreshSkillsKeeps, ConfigArrivesKeeps, ConfigFailsKeeps, EditKeeps, CloseKeeps
<1>4. CASE \E a \in Agents : OpenDialog(a)
  BY <1>4, OpenKeeps
<1>5. CASE \E p \in Saves : StartSave(p) \/ SaveStep(p)
  BY <1>5, StartKeeps, PutConfigKeeps, PutKbBindingKeeps, PutSkillBindingKeeps,
     RefreshRegistryKeeps, EndSaveKeeps, SaveFailsKeeps DEF SaveStep
<1> QED
  BY <1>1, <1>2, <1>3, <1>4, <1>5 DEF Next

\* The inductive invariant: a form carries bindings of known skills only, and as long as
\* nothing came between, each step of a save finds the stores as the dialog showed them.
THEOREM SettingsInvariant == Spec => []Inv
<1> QED
  BY InitEstablishes, NextKeeps, PTL DEF Spec

\* The JSON stores of agent_config.py, skill.py and agent_kb.py keep their form, and the
\* default prompt is never stored as an override.
THEOREM SettingsTypeCorrect == Spec => []SettingsTypeOK
<1>1. Inv => SettingsTypeOK
  BY DEF Inv, ServerInv
<1> QED
  BY <1>1, SettingsInvariant, PTL

\* PUT /agent-skill-bindings binds no deleted skill, whatever stale ids a client sends; only
\* a deletion cut short between its two files leaves one bound.
THEOREM BindingsLeadSomewhere == Spec => []BindingsExist
<1>1. Inv => BindingsExist
  BY DEF Inv, ServerInv
<1> QED
  BY <1>1, SettingsInvariant, PTL

\* After a save of the dialog that ended well, the agent is prompted with what the dialog
\* showed, until the next save of this agent begins.
THEOREM WhatIsSavedIsUsed == Spec => []SavedIsUsed
<1>1. ASSUME Inv  PROVE SavedIsUsed
  <2> SUFFICES ASSUME NEW a \in Agents, saved[a] # None
               PROVE  /\ get_effective_config(a).context_turns = saved[a].context_turns
                      /\ get_effective_config(a).system_prompt
                           = IF saved[a].system_prompt = "" THEN "default"
                             ELSE saved[a].system_prompt
                      /\ kbBinding[a] = saved[a].bindings.kbs
                      /\ ActiveSkills(a) = saved[a].bindings.skills \cap Enabled
    BY DEF SavedIsUsed
  <2>1. FormOK(a, saved[a]) /\ config[a] = Entry(saved[a]) /\ Agree(a, saved[a].bindings)
    BY <1>1 DEF Inv, UsedInv
  <2>2. saved[a].context_turns \in Nat
    BY <2>1 DEF FormOK, FORM
  <2>3. Enabled \subseteq Existing
    BY DEF Existing
  <2>4. ActiveSkills(a) = saved[a].bindings.skills \cap Enabled
    BY <2>1, <2>3 DEF Agree, ActiveSkills
  <2>5. kbBinding[a] = saved[a].bindings.kbs
    BY <2>1 DEF Agree
  <2>6. /\ config[a].context_turns = saved[a].context_turns /\ saved[a].context_turns # None
        /\ config[a].system_prompt = IF saved[a].system_prompt = "default" THEN ""
                                     ELSE saved[a].system_prompt
    <3>1. config[a] = Entry(saved[a])
      BY <2>1
    <3>2. /\ Entry(saved[a]).context_turns = saved[a].context_turns
          /\ Entry(saved[a]).system_prompt = IF saved[a].system_prompt = "default" THEN ""
                                             ELSE saved[a].system_prompt
      BY DEF Entry
    <3> QED  BY <2>2, <3>1, <3>2, NoneAssumption
  <2>7. /\ get_effective_config(a).context_turns = saved[a].context_turns
        /\ get_effective_config(a).system_prompt
             = IF saved[a].system_prompt = "" THEN "default" ELSE saved[a].system_prompt
    BY <2>6 DEF get_effective_config
  <2> QED
    BY <2>4, <2>5, <2>7
<1> QED
  BY <1>1, SettingsInvariant, PTL

\* Who puts the knowledge bases, and the skills, of a save.
LEMMA OnlyRequestsPut ==
  ASSUME Inv, Next, NEW p \in Saves
  PROVE  /\ save[p].step = "kbs" /\ save'[p].step = "skills" => PutKbBinding(p)
         /\ save[p].step = "skills" /\ save'[p].step = "registry" => PutSkillBinding(p)
<1>1. CASE UNCHANGED save
  BY <1>1
<1>2. ASSUME NEW q \in Saves, StartSave(q) \/ SaveStep(q)
      PROVE  /\ save[p].step = "kbs" /\ save'[p].step = "skills" => PutKbBinding(p)
             /\ save[p].step = "skills" /\ save'[p].step = "registry" => PutSkillBinding(p)
  <2>1. CASE q = p
    <3>1. CASE StartSave(p)
      BY <3>1 DEF StartSave, NoSave
    <3>2. CASE PutConfig(p) \/ RefreshRegistry(p)
      BY <3>2 DEF PutConfig, RefreshRegistry
    <3>3. CASE EndSave(p) \/ SaveFails(p)
      <4>1. save'[p] = NoSave
        BY <3>3 DEF EndSave, SaveFails, Inv, ClientInv
      <4> QED  BY <4>1 DEF NoSave
    <3>4. CASE PutKbBinding(p)
      BY <3>4 DEF PutKbBinding
    <3>5. CASE PutSkillBinding(p)
      BY <3>5 DEF PutSkillBinding
    <3> QED  BY <1>2, <2>1, <3>1, <3>2, <3>3, <3>4, <3>5 DEF SaveStep
  <2>2. CASE q # p
    <3>1. save'[p] = save[p]
      BY <1>2, <2>2 DEF SaveStep, StartSave, PutConfig, PutKbBinding, PutSkillBinding,
           RefreshRegistry, EndSave, SaveFails, GoesTo, Inv, ClientInv
    <3> QED  BY <3>1
  <2> QED  BY <2>1, <2>2
<1>3. UNCHANGED save \/ \E q \in Saves : StartSave(q) \/ SaveStep(q)
  BY DEF Next, CreateSkill, ToggleSkill, DeleteSkill, RefreshSkills, ConfigArrives, ConfigFails,
         Edit, CloseDialog, OpenDialog, client
<1> QED
  BY <1>1, <1>2, <1>3

\* While nothing came between, the two PUTs of a save change the bindings the user changed
\* in the dialog and no other.
THEOREM UntouchedBindingsAreKept == Spec => UntouchedIsKept
<1> DEFINE P(p) ==
      LET a == save[p].agent
          base == save[p].base
          new == save[p].form.bindings
          Puts(from, to) == save[p].step = from /\ save'[p].step = to
      IN /\ Puts("kbs", "skills") =>
              kbBinding'[a] = Asked(kbBinding[a], base.kbs, new.kbs)
         /\ Puts("skills", "registry") =>
              Cleaned(skillBinding'[a])
                = Cleaned(Asked(skillBinding[a], base.skills, new.skills))
<1>1. ASSUME Inv, Next, ~astray, NEW p \in Saves  PROVE P(p)
  <2>1. ASSUME save[p].step = "kbs", save'[p].step = "skills"
        PROVE  kbBinding'[save[p].agent]
                 = Asked(kbBinding[save[p].agent], save[p].base.kbs, save[p].form.bindings.kbs)
    <3>1. PutKbBinding(p) /\ Underway(p)
      BY <1>1, <2>1, OnlyRequestsPut DEF Underway, NoSave
    <3>2. save[p].base.kbs = kbBinding[save[p].agent] /\ save[p].agent \in Agents
      BY <1>1, <2>1, <3>1, AloneWhileUnderway
      DEF Progress, Inv, ClientInv, SaveOK, SAVE, Underway
    <3>3. kbBinding'[save[p].agent] = save[p].form.bindings.kbs
      BY <1>1, <3>1, <3>2 DEF PutKbBinding, Inv, ServerInv, SettingsTypeOK
    <3> QED  BY <3>2, <3>3 DEF Asked
  <2>2. ASSUME save[p].step = "skills", save'[p].step = "registry"
        PROVE  Cleaned(skillBinding'[save[p].agent])
                 = Cleaned(Asked(skillBinding[save[p].agent], save[p].base.skills,
                                 save[p].form.bindings.skills))
    <3>1. PutSkillBinding(p) /\ Underway(p)
      BY <1>1, <2>2, OnlyRequestsPut DEF Underway, NoSave
    <3>2. /\ save[p].base.skills \cap Existing = skillBinding[save[p].agent] \cap Existing
          /\ save[p].agent \in Agents
      BY <1>1, <2>2, <3>1, AloneWhileUnderway
      DEF Progress, Inv, ClientInv, SaveOK, SAVE, Underway
    <3>3. skillBinding'[save[p].agent] = save[p].form.bindings.skills \cap Existing
      BY <1>1, <3>1, <3>2 DEF PutSkillBinding, Cleaned, Inv, ServerInv, SettingsTypeOK
    <3> QED  BY <3>2, <3>3 DEF Asked, Cleaned
  <2> QED  BY <2>1, <2>2
<1>2. ASSUME Inv, [Next]_vars  PROVE [~astray => \A p \in Saves : P(p)]_vars
  BY <1>1, <1>2
<1> QED
  BY <1>2, SettingsInvariant, PTL DEF Spec, UntouchedIsKept
=============================================================================
