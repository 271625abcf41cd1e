-------------------------- MODULE ClassworkProofs ---------------------------
(* Templates, lessons and the requests about them, for any rows, instances *)
(* and commands.                                                           *)
EXTENDS Classwork, FiniteSetTheorems, TLAPS

-----------------------------------------------------------------------------
(* Commands and their locks.                                               *)
LEMMA CommandBegins ==
    ASSUME DOMAIN run = Instances, LocksExclude, NEW p \in Instances, NEW c, NEW keys, NEW saw,
           Begin(p, c, keys, saw)
    PROVE  /\ DOMAIN run' = Instances /\ LocksExclude'
           /\ run[p].cmd.op = "none"
           /\ run'[p].cmd = c /\ run'[p].held = keys /\ run'[p].saw = saw
           /\ \A q \in Instances \ {p} : run'[q] = run[q]
<1>1. run[p].cmd.op = "none" /\ DOMAIN run' = Instances /\ run'[p] = [cmd |-> c, held |-> keys, saw |-> saw]
  BY DEF Begin
<1>2. \A q \in Instances \ {p} : run'[q] = run[q] /\ run[q].held \cap keys = {}
  BY DEF Begin, Free
<1>3. LocksExclude'
  BY <1>1, <1>2 DEF LocksExclude
<1> QED BY <1>1, <1>2, <1>3

LEMMA CommandEnds ==
    ASSUME DOMAIN run = Instances, LocksExclude, NEW p \in Instances, End(p)
    PROVE  /\ DOMAIN run' = Instances /\ LocksExclude'
           /\ run'[p].cmd.op = "none" /\ run'[p].held = {} /\ run'[p].saw = [at |-> "nothing"]
           /\ \A q \in Instances \ {p} : run'[q] = run[q]
<1>1. DOMAIN run' = Instances /\ run'[p] = Idle /\ \A q \in Instances \ {p} : run'[q] = run[q]
  BY DEF End
<1>2. LocksExclude'
  BY <1>1 DEF LocksExclude, Idle
<1> QED BY <1>1, <1>2 DEF Idle, NoCommand

-----------------------------------------------------------------------------
(* Templates.                                                              *)
Scopes == Owners \cup {Everybody}

IsOf(row, o) == row.live /\ row.owner = o

SameRow(a, b) ==
    /\ a.live = b.live /\ a.owner = b.owner /\ a.name = b.name
    /\ a.isDefault = b.isDefault /\ a.isEnforced = b.isEnforced

HoldsScope(p, o) == <<"scope", o>> \in run[p].held

(* What the holder of a scope has read of it.                              *)
KnowsScope(p, o) ==
    \A t \in TemplateIds :
        IsOf(template[t], o) \/ IsOf(run[p].saw.rows[t], o) => SameRow(template[t], run[p].saw.rows[t])

NamesTemplate(p) ==
    run[p].cmd.op \in {"edit", "drop"} =>
        <<"template", run[p].cmd.t>> \in run[p].held /\ IsOf(template[run[p].cmd.t], run[p].saw.row.owner)

HasScopes(p) ==
    /\ run[p].cmd.op = "add" => "rows" \in DOMAIN run[p].saw
    /\ "rows" \in DOMAIN run[p].saw =>
          /\ run[p].saw.rows \in [TemplateIds -> TemplateRows]
          /\ run[p].cmd.op # "drop" => HoldsScope(p, Scope(run[p].cmd, run[p].saw.row).owner)
          /\ run[p].cmd.op # "add"  => HoldsScope(p, run[p].saw.row.owner)

TemplateFits(p) ==
    run[p].cmd.op # "none" =>
        /\ run[p].cmd \in TemplateCommands /\ run[p].saw.row \in TemplateRows
        /\ NamesTemplate(p) /\ HasScopes(p)
        /\ \A o \in Scopes : "rows" \in DOMAIN run[p].saw /\ HoldsScope(p, o) => KnowsScope(p, o)

TemplatesFit == template \in [TemplateIds -> TemplateRows] /\ OneSelectionPerScope

TemplatesSound ==
    /\ DOMAIN run = Instances /\ LocksExclude /\ TemplatesFit
    /\ \A p \in Instances : TemplateFits(p)

LEMMA InitTemplates == NothingRuns /\ TemplatesInit => TemplatesSound
<1> SUFFICES ASSUME NothingRuns, TemplatesInit PROVE TemplatesSound
  OBVIOUS
<1>1. DOMAIN run = Instances /\ \A p \in Instances : run[p].cmd.op = "none" /\ run[p].held = {}
  BY DEF NothingRuns, Idle, NoCommand
<1>2. LocksExclude
  BY <1>1 DEF LocksExclude
<1>3. TemplatesFit
  BY TemplatesAssumption DEF TemplatesInit, TemplatesFit, OneSelectionPerScope
<1> QED BY <1>1, <1>2, <1>3 DEF TemplatesSound, TemplateFits

(* What a request asks for is a scope, when the row it rests on is one.    *)
LEMMA ScopeTypes ==
    ASSUME NEW c \in TemplateCommands, NEW row \in TemplateRows
    PROVE  /\ Scope(c, row).owner \in Scopes
           /\ Scope(c, row).isDefault \in BOOLEAN /\ Scope(c, row).isEnforced \in BOOLEAN
           /\ c.op = "add" => Scope(c, row).owner = c.owner
<1>1. row.owner \in Scopes /\ row.isDefault \in BOOLEAN /\ row.isEnforced \in BOOLEAN
  BY DEF TemplateRows, Scopes
<1>2. /\ "owner" \in DOMAIN c => c["owner"] \in Scopes
      /\ "isDefault" \in DOMAIN c => c["isDefault"] \in BOOLEAN
      /\ "isEnforced" \in DOMAIN c => c["isEnforced"] \in BOOLEAN
      /\ c.op = "add" => "owner" \in DOMAIN c
  BY TemplatesAssumption DEF Scopes
<1>3. /\ Scope(c, row).owner = IF "owner" \in DOMAIN c THEN c["owner"] ELSE row.owner
      /\ Scope(c, row).isDefault = IF "isDefault" \in DOMAIN c THEN c["isDefault"] ELSE row.isDefault
      /\ Scope(c, row).isEnforced = IF "isEnforced" \in DOMAIN c THEN c["isEnforced"] ELSE row.isEnforced
  BY DEF Scope
<1> QED BY <1>1, <1>2, <1>3

(* A step of p that leaves alone what other commands hold.                 *)
SparesTemplates(p) ==
    \A t \in TemplateIds :
        /\ \A o \in Scopes : IsOf(template[t], o) \/ IsOf(template'[t], o) =>
              HoldsScope(p, o) \/ SameRow(template'[t], template[t])
        /\ template[t].live => \/ <<"template", t>> \in run[p].held
                               \/ template'[t].live /\ template'[t].owner = template[t].owner

LEMMA OthersKnow ==
    ASSUME TemplatesSound, NEW p \in Instances, SparesTemplates(p), NEW q \in Instances \ {p}, run'[q] = run[q]
    PROVE  TemplateFits(q)'
<1> SUFFICES ASSUME run[q].cmd.op # "none" PROVE TemplateFits(q)'
  BY DEF TemplateFits
<1>1. TemplateFits(q) /\ \A k \in run[p].held : k \notin run[q].held
  BY DEF TemplatesSound, LocksExclude
<1>2. run[q].cmd \in TemplateCommands /\ run[q].saw.row \in TemplateRows /\ NamesTemplate(q) /\ HasScopes(q)
  BY <1>1 DEF TemplateFits
<1>3. NamesTemplate(q)'
  <2>1. run[q].cmd.op # "add" => run[q].cmd.t \in TemplateIds
    BY <1>2, TemplatesAssumption
  <2> QED BY <1>1, <1>2, <2>1 DEF NamesTemplate, SparesTemplates, IsOf
<1>4. HasScopes(q)'
  BY <1>2 DEF HasScopes, HoldsScope
<1>5. ASSUME NEW o \in Scopes, "rows" \in DOMAIN run[q].saw, HoldsScope(q, o) PROVE KnowsScope(q, o)'
  <2>1. KnowsScope(q, o) /\ ~HoldsScope(p, o)
    BY <1>1, <1>5 DEF TemplateFits, HoldsScope
  <2>2. ASSUME NEW t \in TemplateIds, IsOf(template'[t], o) \/ IsOf(run[q].saw.rows[t], o)
        PROVE  SameRow(template'[t], run[q].saw.rows[t])
    <3>1. CASE IsOf(template'[t], o)
      BY <2>1, <3>1 DEF SparesTemplates, KnowsScope, SameRow, IsOf
    <3>2. CASE IsOf(run[q].saw.rows[t], o)
      BY <2>1, <3>2 DEF SparesTemplates, KnowsScope, SameRow, IsOf
    <3> QED BY <2>2, <3>1, <3>2
  <2> QED BY <2>2 DEF KnowsScope
<1> QED BY <1>2, <1>3, <1>4, <1>5 DEF TemplateFits, HoldsScope

LEMMA TemplateStep ==
    ASSUME TemplatesSound, NEW p \in Instances, End(p), TemplatesFit', SparesTemplates(p)
    PROVE  TemplatesSound'
<1>1. /\ DOMAIN run' = Instances /\ LocksExclude' /\ run'[p].cmd.op = "none"
      /\ \A q \in Instances \ {p} : run'[q] = run[q]
  BY CommandEnds DEF TemplatesSound
<1>2. TemplateFits(p)'
  BY <1>1 DEF TemplateFits
<1> QED BY <1>1, <1>2, OthersKnow DEF TemplatesSound

LEMMA TemplateRowsStay ==
    ASSUME TemplatesFit, UNCHANGED template
    PROVE  TemplatesFit' /\ \A p \in Instances : SparesTemplates(p)
BY DEF TemplatesFit, OneSelectionPerScope, OneSelection, SparesTemplates, SameRow

-----------------------------------------------------------------------------
LEMMA BeginTemplateKeeps ==
    ASSUME TemplatesSound, NEW p \in Instances, BeginTemplate(p)
    PROVE  TemplatesSound'
<1>1. UNCHANGED template
  BY DEF BeginTemplate
<1>2. TemplatesFit' /\ SparesTemplates(p)
  BY <1>1, TemplateRowsStay DEF TemplatesSound
<1>3. PICK c \in TemplateCommands :
         IF c.op = "add"
           THEN Begin(p, c, {<<"scope", c.owner>>}, [row |-> NoTemplate, rows |-> template])
           ELSE template[c.t].live /\ Begin(p, c, {<<"template", c.t>>}, [row |-> template[c.t]])
  BY DEF BeginTemplate
<1>4. template \in [TemplateIds -> TemplateRows] /\ DOMAIN run = Instances /\ LocksExclude
  BY DEF TemplatesSound, TemplatesFit
<1>5. CASE c.op = "add"
  <2>1. /\ DOMAIN run' = Instances /\ LocksExclude' /\ run'[p].cmd = c /\ run'[p].held = {<<"scope", c.owner>>}
        /\ run'[p].saw = [row |-> NoTemplate, rows |-> template] /\ \A q \in Instances \ {p} : run'[q] = run[q]
    BY <1>3, <1>4, <1>5, CommandBegins
  <2>2. NoTemplate \in TemplateRows
    <3>1. "" \in TemplateNames
      BY DEF TemplateNames
    <3> QED BY <3>1 DEF NoTemplate, TemplateRows
  <2>3. Scope(c, NoTemplate).owner = c.owner
    BY <1>5, <2>2, ScopeTypes
  <2>4. NamesTemplate(p)' /\ HasScopes(p)'
    BY <1>4, <1>5, <2>1, <2>3 DEF NamesTemplate, HasScopes, HoldsScope
  <2>5. \A o : KnowsScope(p, o)'
    BY <1>1, <2>1 DEF KnowsScope, SameRow
  <2>6. TemplateFits(p)'
    BY <2>1, <2>2, <2>4, <2>5 DEF TemplateFits
  <2> QED BY <1>2, <2>1, <2>6, OthersKnow DEF TemplatesSound
<1>6. CASE c.op # "add"
  <2>1. /\ DOMAIN run' = Instances /\ LocksExclude' /\ run'[p].cmd = c /\ run'[p].held = {<<"template", c.t>>}
        /\ run'[p].saw = [row |-> template[c.t]] /\ \A q \in Instances \ {p} : run'[q] = run[q]
    BY <1>3, <1>4, <1>6, CommandBegins
  <2>2. c.t \in TemplateIds /\ template[c.t] \in TemplateRows
    BY <1>4, <1>6, TemplatesAssumption
  <2>3. NamesTemplate(p)' /\ HasScopes(p)'
    BY <1>1, <1>3, <1>6, <2>1 DEF NamesTemplate, HasScopes, IsOf
  <2>4. TemplateFits(p)'
    BY <2>1, <2>2, <2>3 DEF TemplateFits
  <2> QED BY <1>2, <2>1, <2>4, OthersKnow DEF TemplatesSound
<1> QED BY <1>5, <1>6

LEMMA LockScopesKeeps ==
    ASSUME TemplatesSound, NEW p \in Instances, LockScopes(p)
    PROVE  TemplatesSound'
<1>1. UNCHANGED template
  BY DEF LockScopes, templateVars
<1>2. TemplatesFit' /\ SparesTemplates(p)
  BY <1>1, TemplateRowsStay DEF TemplatesSound
<1> DEFINE c == run[p].cmd
           row == run[p].saw.row
           keys == ScopeKeys(c, row)
<1>3. /\ DOMAIN run' = Instances /\ run'[p].cmd = c /\ run'[p].held = run[p].held \cup keys
      /\ run'[p].saw = [row |-> row, rows |-> template] /\ \A q \in Instances \ {p} : run'[q] = run[q]
      /\ Free(p, keys)
  BY DEF LockScopes, TemplatesSound
<1>4. LocksExclude'
  BY <1>3 DEF TemplatesSound, LocksExclude, Free
<1>5. template \in [TemplateIds -> TemplateRows] /\ TemplateFits(p)
  BY DEF TemplatesSound, TemplatesFit
<1>6. ASSUME c.op # "none" PROVE TemplateFits(p)'
  <2>1. c \in TemplateCommands /\ row \in TemplateRows /\ NamesTemplate(p)
    BY <1>5, <1>6 DEF TemplateFits
  <2>2. c.op # "add"
    BY <1>5, <1>6 DEF LockScopes, TemplateFits, HasScopes
  <2>3. NamesTemplate(p)'
    BY <1>1, <1>3, <2>1 DEF NamesTemplate
  <2>4. /\ <<"scope", row.owner>> \in keys
        /\ c.op # "drop" => <<"scope", Scope(c, row).owner>> \in keys
    BY DEF ScopeKeys
  <2>5. HasScopes(p)'
    <3> HIDE DEF c, row, keys
    <3> QED BY <1>1, <1>3, <1>5, <2>2, <2>4 DEF HasScopes, HoldsScope
  <2>6. \A o : KnowsScope(p, o)'
    BY <1>1, <1>3 DEF KnowsScope, SameRow
  <2> QED BY <1>3, <2>1, <2>3, <2>5, <2>6 DEF TemplateFits
<1>7. TemplateFits(p)'
  BY <1>3, <1>6 DEF TemplateFits
<1> QED BY <1>2, <1>3, <1>4, <1>7, OthersKnow DEF TemplatesSound

(* add and edit: template t is written, what it is chosen over is cleared. *)
LEMMA PutFits ==
    ASSUME TemplatesSound, NEW p \in Instances, NEW t \in TemplateIds, NEW name \in TemplateNames, NEW scope,
           scope.owner \in Scopes, scope.isDefault \in BOOLEAN, scope.isEnforced \in BOOLEAN, Resolves(scope),
           run[p].saw.rows \in [TemplateIds -> TemplateRows], HoldsScope(p, scope.owner), KnowsScope(p, scope.owner),
           template[t].live => HoldsScope(p, template[t].owner) /\ <<"template", t>> \in run[p].held,
           NameIsFree(p, name, scope.owner, {t}), Put(p, t, name, scope)
    PROVE  TemplatesFit' /\ SparesTemplates(p)
<1> DEFINE new == [live |-> TRUE, owner |-> scope.owner, name |-> name,
                   isDefault |-> scope.isDefault, isEnforced |-> scope.isEnforced]
           rows == run[p].saw.rows
<1>1. template \in [TemplateIds -> TemplateRows] /\ OneSelection(template)
  BY DEF TemplatesSound, TemplatesFit, OneSelectionPerScope
<1>2. new \in TemplateRows /\ IsOf(new, scope.owner)
  BY DEF TemplateRows, Scopes, IsOf
<1>3. ASSUME NEW u \in TemplateIds
      PROVE  /\ Cleared(p, u, scope) \in TemplateRows
             /\ Cleared(p, u, scope).live = template[u].live /\ Cleared(p, u, scope).owner = template[u].owner
             /\ Cleared(p, u, scope).name = template[u].name
             /\ Cleared(p, u, scope).isDefault <=>
                   template[u].isDefault /\ ~(scope.isDefault /\ rows[u].isDefault /\ rows[u].owner = scope.owner)
             /\ Cleared(p, u, scope).isEnforced <=>
                   template[u].isEnforced /\ ~(scope.isEnforced /\ rows[u].isEnforced /\ rows[u].owner = Everybody)
  <2>1. template[u] \in TemplateRows
    BY <1>1
  <2>2. template[u].isDefault \in BOOLEAN /\ template[u].isEnforced \in BOOLEAN
    BY <2>1 DEF TemplateRows
  <2> QED BY <2>1, <2>2 DEF Cleared, TemplateRows
<1>4. \A u \in TemplateIds : template'[u] = IF u = t THEN new ELSE IF u \in Rows(p) THEN Cleared(p, u, scope) ELSE template[u]
  BY DEF Put
<1> HIDE DEF new, rows
<1>5. template' \in [TemplateIds -> TemplateRows]
  <2>1. \A u \in TemplateIds : template'[u] \in TemplateRows
    BY <1>1, <1>2, <1>3, <1>4
  <2>2. \E f : template' = [u \in TemplateIds |-> f[u]]
    <3>1. template' = [u \in TemplateIds |-> template'[u]]
      BY DEF Put
    <3> QED BY <3>1
  <2> QED BY <2>1, <2>2
(* Who keeps its owner and its name, and is not chosen anew.               *)
<1>6. ASSUME NEW u \in TemplateIds \ {t}
      PROVE  /\ template'[u].live = template[u].live /\ template'[u].owner = template[u].owner
             /\ template'[u].name = template[u].name
             /\ template'[u].isDefault => template[u].isDefault
             /\ template'[u].isEnforced => template[u].isEnforced
  BY <1>1, <1>3, <1>4, <1>6
(* The rivals of t have been read, and are cleared.                        *)
<1>7. ASSUME NEW u \in TemplateIds \ {t}, IsOf(template[u], scope.owner)
      PROVE  /\ template[u].name # name
             /\ ~(scope.isDefault /\ template'[u].isDefault)
             /\ ~(scope.isEnforced /\ template'[u].isEnforced)
  <2>1. SameRow(template[u], rows[u]) /\ rows[u].live
    BY <1>7 DEF KnowsScope, SameRow, IsOf, rows
  <2>2. u \in Rows(p) /\ rows[u].name # name /\ rows[u].owner = scope.owner
    BY <1>7, <2>1 DEF Rows, rows, NameIsFree, SameRow, IsOf
  <2>3. template'[u] = Cleared(p, u, scope)
    BY <1>4, <2>2
  <2> QED BY <1>3, <2>1, <2>2, <2>3 DEF SameRow, Resolves
<1>8. template'[t] = new /\ new.live /\ new.owner = scope.owner /\ new.name = name
      /\ new.isDefault = scope.isDefault /\ new.isEnforced = scope.isEnforced
  BY <1>4 DEF new
<1>9. OneSelection(template')
  <2> SUFFICES ASSUME NEW u \in TemplateIds, NEW v \in TemplateIds, template'[u].live, template'[v].live
               PROVE  /\ template'[u].isEnforced => template'[u].owner = Everybody
                      /\ u # v /\ template'[u].owner = template'[v].owner =>
                           /\ template'[u].name # template'[v].name
                           /\ ~(template'[u].isDefault /\ template'[v].isDefault)
                           /\ ~(template'[u].isEnforced /\ template'[v].isEnforced)
    BY DEF OneSelection
  <2>1. template'[u].isEnforced => template'[u].owner = Everybody
    BY <1>1, <1>6, <1>8 DEF OneSelection, Resolves
  <2>2. CASE u # t /\ v # t
    BY <1>1, <1>6, <2>1, <2>2 DEF OneSelection
  <2>3. CASE u = t /\ v # t
    BY <1>6, <1>7, <1>8, <2>1, <2>3 DEF IsOf
  <2>4. CASE u # t /\ v = t
    BY <1>6, <1>7, <1>8, <2>1, <2>4 DEF IsOf
  <2> QED BY <2>1, <2>2, <2>3, <2>4
<1>10. SparesTemplates(p)
  <2>1. ASSUME NEW o \in Scopes, ~HoldsScope(p, o), IsOf(template[t], o) \/ IsOf(template'[t], o) PROVE FALSE
    BY <1>8, <2>1 DEF IsOf
  <2>2. ASSUME NEW u \in TemplateIds \ {t}, NEW o \in Scopes, ~HoldsScope(p, o),
               IsOf(template[u], o) \/ IsOf(template'[u], o)
        PROVE  SameRow(template'[u], template[u])
    <3>1. IsOf(template[u], o) /\ o # scope.owner
      BY <1>6, <2>2 DEF IsOf
    <3>2. CASE u \in Rows(p)
      <4>1. rows[u].owner # scope.owner
        BY <3>1, <3>2 DEF KnowsScope, Rows, IsOf, SameRow, rows
      <4>2. ~(scope.isDefault /\ rows[u].isDefault /\ rows[u].owner = scope.owner)
            /\ ~(scope.isEnforced /\ rows[u].isEnforced /\ rows[u].owner = Everybody)
        BY <4>1 DEF Resolves
      <4>3. template[u].isDefault \in BOOLEAN /\ template[u].isEnforced \in BOOLEAN
            /\ Cleared(p, u, scope).isDefault \in BOOLEAN /\ Cleared(p, u, scope).isEnforced \in BOOLEAN
        BY <1>1, <1>3 DEF TemplateRows
      <4>4. template'[u] = Cleared(p, u, scope)
        BY <1>4, <3>2
      <4> QED BY <1>3, <4>2, <4>3, <4>4 DEF SameRow
    <3>3. CASE u \notin Rows(p)
      BY <1>4, <3>3 DEF SameRow
    <3> QED BY <3>2, <3>3
  <2>3. ASSUME NEW u \in TemplateIds, template[u].live
        PROVE  <<"template", u>> \in run[p].held \/ (template'[u].live /\ template'[u].owner = template[u].owner)
    <3>1. CASE u = t
      BY <2>3, <3>1
    <3>2. CASE u # t
      BY <1>6, <2>3, <3>2
    <3> QED BY <3>1, <3>2
  <2> QED BY <2>1, <2>2, <2>3 DEF SparesTemplates
<1> QED BY <1>5, <1>9, <1>10 DEF TemplatesFit, OneSelectionPerScope

LEMMA RequestedName == ASSUME NEW c \in TemplateCommands, c.op # "drop" PROVE c.name \in TemplateNames
<1>1. c.name \in RequestedNames
  BY DEF RequestedNames
<1> QED BY <1>1 DEF TemplateNames

LEMMA AddTemplateKeeps ==
    ASSUME TemplatesSound, NEW p \in Instances, AddTemplate(p)
    PROVE  TemplatesSound'
<1> DEFINE c == run[p].cmd
           scope == Scope(c, run[p].saw.row)
<1>1. c.op = "add" /\ "rows" \in DOMAIN run[p].saw /\ Resolves(scope) /\ NameIsFree(p, c.name, scope.owner, {}) /\ End(p)
  BY DEF AddTemplate, Resolved, Running
<1>2. PICK t \in TemplateIds : template[t] = NoTemplate /\ Put(p, t, c.name, scope)
  BY DEF AddTemplate
<1>3. c \in TemplateCommands /\ run[p].saw.row \in TemplateRows /\ HasScopes(p)
      /\ \A o \in Scopes : HoldsScope(p, o) => KnowsScope(p, o)
  BY <1>1 DEF TemplatesSound, TemplateFits
<1>4. scope.owner \in Scopes /\ scope.isDefault \in BOOLEAN /\ scope.isEnforced \in BOOLEAN
  BY <1>3, ScopeTypes
<1>5. run[p].saw.rows \in [TemplateIds -> TemplateRows] /\ HoldsScope(p, scope.owner) /\ KnowsScope(p, scope.owner)
  BY <1>1, <1>3, <1>4 DEF HasScopes
<1>6. c.name \in TemplateNames /\ ~template[t].live /\ NameIsFree(p, c.name, scope.owner, {t})
  <2>1. c.name \in TemplateNames
    BY <1>1, <1>3, RequestedName
  <2>2. ~template[t].live
    <3>1. template[t] = NoTemplate
      BY <1>2
    <3>2. NoTemplate.live = FALSE
      BY DEF NoTemplate
    <3> QED BY <3>1, <3>2
  <2>3. NameIsFree(p, c.name, scope.owner, {t})
    BY <1>1 DEF NameIsFree
  <2> QED BY <2>1, <2>2, <2>3
<1> HIDE DEF scope, c
<1>7. TemplatesFit' /\ SparesTemplates(p)
  BY <1>1, <1>2, <1>4, <1>5, <1>6, PutFits
<1> QED BY <1>1, <1>7, TemplateStep

LEMMA EditTemplateKeeps ==
    ASSUME TemplatesSound, NEW p \in Instances, EditTemplate(p)
    PROVE  TemplatesSound'
<1> DEFINE c == run[p].cmd
           scope == Scope(c, run[p].saw.row)
<1>1. /\ c.op = "edit" /\ "rows" \in DOMAIN run[p].saw /\ Resolves(scope)
      /\ NameIsFree(p, c.name, scope.owner, {c.t}) /\ Put(p, c.t, c.name, scope) /\ End(p)
  BY DEF EditTemplate, Resolved, Running
<1>2. c \in TemplateCommands /\ run[p].saw.row \in TemplateRows /\ HasScopes(p) /\ NamesTemplate(p)
      /\ \A o \in Scopes : HoldsScope(p, o) => KnowsScope(p, o)
  BY <1>1 DEF TemplatesSound, TemplateFits
<1>3. scope.owner \in Scopes /\ scope.isDefault \in BOOLEAN /\ scope.isEnforced \in BOOLEAN
  BY <1>2, ScopeTypes
<1>4. run[p].saw.rows \in [TemplateIds -> TemplateRows] /\ HoldsScope(p, scope.owner) /\ KnowsScope(p, scope.owner)
  BY <1>1, <1>2, <1>3 DEF HasScopes
<1>5. HoldsScope(p, template[c.t].owner) /\ <<"template", c.t>> \in run[p].held
  BY <1>1, <1>2 DEF HasScopes, NamesTemplate, IsOf
<1>6. c.name \in TemplateNames /\ c.t \in TemplateIds
  BY <1>1, <1>2, TemplatesAssumption, RequestedName
<1> HIDE DEF scope, c
<1>7. TemplatesFit' /\ SparesTemplates(p)
  BY <1>1, <1>3, <1>4, <1>5, <1>6, PutFits
<1> QED BY <1>1, <1>7, TemplateStep

LEMMA DropTemplateKeeps ==
    ASSUME TemplatesSound, NEW p \in Instances, DropTemplate(p)
    PROVE  TemplatesSound'
<1> DEFINE t == run[p].cmd.t
<1>1. run[p].cmd.op = "drop" /\ "rows" \in DOMAIN run[p].saw /\ End(p)
      /\ template' = [template EXCEPT ![t].live = FALSE]
  BY DEF DropTemplate, Resolved, Running
<1>2. run[p].cmd \in TemplateCommands /\ HasScopes(p) /\ NamesTemplate(p)
  BY <1>1 DEF TemplatesSound, TemplateFits
<1>3. HoldsScope(p, template[t].owner) /\ <<"template", t>> \in run[p].held /\ t \in TemplateIds
  BY <1>1, <1>2, TemplatesAssumption DEF HasScopes, NamesTemplate, IsOf
<1>4. template \in [TemplateIds -> TemplateRows] /\ OneSelection(template)
  BY DEF TemplatesSound, TemplatesFit, OneSelectionPerScope
<1> HIDE DEF t
<1>5. /\ template' \in [TemplateIds -> TemplateRows] /\ ~template'[t].live
      /\ \A u \in TemplateIds \ {t} : template'[u] = template[u]
  BY <1>1, <1>3, <1>4 DEF TemplateRows
<1>6. TemplatesFit'
  BY <1>4, <1>5 DEF TemplatesFit, OneSelectionPerScope, OneSelection
<1>7. SparesTemplates(p)
  BY <1>3, <1>5 DEF SparesTemplates, IsOf, SameRow
<1> QED BY <1>1, <1>6, <1>7, TemplateStep

LEMMA TemplatesNextKeeps == TemplatesSound /\ [TemplatesNext]_<<run, templateVars>> => TemplatesSound'
<1> SUFFICES ASSUME TemplatesSound, [TemplatesNext]_<<run, templateVars>> PROVE TemplatesSound'
  OBVIOUS
<1>1. CASE UNCHANGED <<run, templateVars>>
  <2>1. UNCHANGED run /\ UNCHANGED template
    BY <1>1 DEF templateVars
  <2>2. TemplatesFit'
    BY <2>1, TemplateRowsStay DEF TemplatesSound
  <2>3. ASSUME NEW p \in Instances PROVE TemplateFits(p)'
    BY <2>1 DEF TemplatesSound, TemplateFits, NamesTemplate, HasScopes, HoldsScope, KnowsScope
  <2> QED BY <2>1, <2>2, <2>3 DEF TemplatesSound, LocksExclude
<1>2. ASSUME NEW p \in Instances, RefuseTemplate(p) PROVE TemplatesSound'
  <2>1. End(p) /\ UNCHANGED template
    BY <1>2 DEF RefuseTemplate, Abort, templateVars
  <2> QED BY <2>1, TemplateRowsStay, TemplateStep DEF TemplatesSound
<1> QED BY <1>1, <1>2, BeginTemplateKeeps, LockScopesKeeps, AddTemplateKeeps, EditTemplateKeeps, DropTemplateKeeps
        DEF TemplatesNext

-----------------------------------------------------------------------------
(* Lessons, their reports and what commands saw of them.                   *)
LessonsTyped ==
    /\ lesson \in [SeriesLessons -> LessonRows] /\ marked \in [SeriesLessons -> SUBSET Learners]
    /\ written \in [ReportIds -> ReportRows]
    /\ cohort \subseteq Learners /\ everLeft \subseteq Learners /\ Learners = cohort \cup everLeft

ReportNames(r) ==
    written[r] # NoReport => written[r].version > 0 /\ written[r].l \in SeriesLessons /\ written[r].x \in Learners

MayTakePart(l, who) == lesson[l].roster = {} \/ who \subseteq lesson[l].roster \cup everLeft

MarksFit(l) == MayTakePart(l, marked[l]) /\ (marked[l] # {} => lesson[l].there)

ReportFits(r) ==
    LET l == written[r].l IN
    written[r].live =>
        /\ written[r].version > 0 /\ MayTakePart(l, {written[r].x}) /\ lesson[l].there
        /\ written[r].teacher = lesson[l].teacher /\ lesson[l].teacher # NoLecturer

OneReportEach ==
    \A r, q \in ReportIds :
        written[r].live /\ written[q].live /\ written[r].l = written[q].l /\ written[r].x = written[q].x => r = q

LessonsFit ==
    /\ LessonsTyped
    /\ \A l \in SeriesLessons : MarksFit(l)
    /\ \A r \in ReportIds : ReportNames(r) /\ ReportFits(r)
    /\ OneReportEach

LEMMA RowFields ==
    ASSUME NEW row \in LessonRows
    PROVE  /\ row.there \in BOOLEAN /\ row.status \in Statuses /\ row.past \in BOOLEAN
           /\ row.teacher \in Lecturers \cup {NoLecturer} /\ row.mark \in Marks /\ row.roster \subseteq Learners
           /\ row.fee \in Nat \cup {NoFee} /\ row.linked \in BOOLEAN
BY DEF LessonRows

LEMMA ReportFields ==
    ASSUME NEW row \in ReportRows
    PROVE  row.live \in BOOLEAN /\ row.version \in Nat /\ row.text \in Nat
BY DEF ReportRows

LEMMA FitLessonsBelong == LessonsFit => DependentsBelong
<1> SUFFICES ASSUME LessonsFit, NEW l \in SeriesLessons PROVE Belong(Now, everLeft, l)
  BY DEF DependentsBelong
<1>1. LessonsTyped /\ MarksFit(l) /\ OneReportEach /\ \A r \in ReportIds : ReportNames(r) /\ ReportFits(r)
  BY DEF LessonsFit
<1>2. /\ Now.lesson = lesson /\ Now.marked = marked /\ Now.written = written /\ Now.cohort = cohort
      /\ ReportsOn(Now, l) = {r \in ReportIds : written[r].live /\ written[r].l = l}
  BY DEF Now, ReportsOn
<1>3. \A who : who \subseteq Learners /\ MayTakePart(l, who)
                  => who \subseteq Participants(lesson[l], cohort) \cup everLeft
  BY <1>1 DEF LessonsTyped, MayTakePart, Participants
<1>4. marked[l] \subseteq Participants(lesson[l], cohort) \cup everLeft
  BY <1>1, <1>3 DEF LessonsTyped, MarksFit
<1>5. ASSUME NEW r \in ReportsOn(Now, l)
      PROVE  /\ written[r].x \in Participants(lesson[l], cohort) \cup everLeft /\ lesson[l].there
             /\ written[r].teacher = lesson[l].teacher /\ lesson[l].teacher # NoLecturer
  <2>1. r \in ReportIds /\ written[r].live /\ written[r].l = l
    BY <1>2
  <2>2. /\ MayTakePart(l, {written[r].x}) /\ lesson[l].there /\ written[r].version > 0
        /\ written[r].teacher = lesson[l].teacher /\ lesson[l].teacher # NoLecturer
    BY <1>1, <2>1 DEF ReportFits
  <2>3. {written[r].x} \subseteq Learners
    BY <1>1, <2>1 DEF ReportNames, NoReport
  <2>4. {written[r].x} \subseteq Participants(lesson[l], cohort) \cup everLeft
    BY <1>3, <2>2, <2>3
  <2> QED BY <2>2, <2>4
<1>6. {written[r].x : r \in ReportsOn(Now, l)} \subseteq Participants(lesson[l], cohort) \cup everLeft
  BY <1>5
<1>7. \A r, q \in ReportsOn(Now, l) : written[r].x = written[q].x => r = q
  BY <1>1, <1>2 DEF OneReportEach
<1> HIDE DEF Now
<1> QED BY <1>1, <1>2, <1>4, <1>5, <1>6, <1>7 DEF Belong, MarksFit

LEMMA SeedsFit == LessonsInit => LessonsFit
<1> SUFFICES ASSUME LessonsInit PROVE LessonsFit
  OBVIOUS
<1>1. PICK s \in LessonSeeds : lesson = s.lesson /\ marked = s.marked /\ written = s.written
  BY DEF LessonsInit
<1>2. cohort = Learners /\ everLeft = {}
  BY DEF LessonsInit
<1>3. /\ lesson \in [SeriesLessons -> LessonRows] /\ marked \in [SeriesLessons -> SUBSET Learners]
      /\ written \in [ReportIds -> ReportRows]
      /\ \A r \in ReportIds : written[r] # NoReport =>
            written[r].version > 0 /\ written[r].l \in SeriesLessons /\ written[r].x \in Learners
  BY <1>1, LessonSeedsAssumption
<1> DEFINE db == [lesson |-> lesson, marked |-> marked, cohort |-> Learners, written |-> written]
<1>4. ASSUME NEW l \in SeriesLessons PROVE Belong(db, {}, l)
  BY <1>1, LessonSeedsAssumption
<1>5. db.lesson = lesson /\ db.marked = marked /\ db.written = written /\ db.cohort = Learners
  OBVIOUS
<1> HIDE DEF db
<1>6. \A l \in SeriesLessons : ReportsOn(db, l) = {r \in ReportIds : written[r].live /\ written[r].l = l}
  BY <1>5 DEF ReportsOn
<1>7. ASSUME NEW l \in SeriesLessons
      PROVE  /\ marked[l] \subseteq Participants(lesson[l], Learners)
             /\ marked[l] # {} => lesson[l].there
             /\ \A r \in ReportsOn(db, l) :
                   /\ written[r].x \in Participants(lesson[l], Learners) /\ lesson[l].there
                   /\ written[r].teacher = lesson[l].teacher /\ lesson[l].teacher # NoLecturer
             /\ \A r, q \in ReportsOn(db, l) : written[r].x = written[q].x => r = q
  BY <1>4, <1>5 DEF Belong
<1>8. LessonsTyped
  BY <1>2, <1>3 DEF LessonsTyped
<1>9. ASSUME NEW l \in SeriesLessons PROVE MarksFit(l)
  BY <1>7 DEF MarksFit, MayTakePart, Participants
<1>10. ASSUME NEW r \in ReportIds PROVE ReportNames(r) /\ ReportFits(r)
  <2>1. CASE written[r] = NoReport
    BY <2>1 DEF ReportNames, ReportFits, NoReport
  <2>2. CASE written[r] # NoReport
    <3>1. written[r].version > 0 /\ written[r].l \in SeriesLessons /\ written[r].x \in Learners
      BY <1>3, <2>2
    <3>2. written[r].live => r \in ReportsOn(db, written[r].l)
      BY <1>6, <3>1
    <3> QED BY <1>7, <3>1, <3>2 DEF ReportNames, ReportFits, MayTakePart, Participants
  <2> QED BY <2>1, <2>2
<1>11. OneReportEach
  <2> SUFFICES ASSUME NEW r \in ReportIds, NEW q \in ReportIds, written[r].live, written[q].live,
                      written[r].l = written[q].l, written[r].x = written[q].x
               PROVE  r = q
    BY DEF OneReportEach
  <2>1. written[r] # NoReport
    BY DEF NoReport
  <2>2. written[r].l \in SeriesLessons
    BY <1>3, <2>1
  <2> QED BY <1>6, <1>7, <2>2
<1> QED BY <1>8, <1>9, <1>10, <1>11 DEF LessonsFit

-----------------------------------------------------------------------------
(* The revisions on record since a report was approved.                    *)
Since(r) == {v \in revisions : v.r = r /\ v.version >= approvedAs[r].version}

LeftBy(since, as, n) ==
    IF n = as.version THEN {as.text} ELSE {v.to : v \in {u \in since : u.version = n - 1}}

Accounts(since, as, row) ==
    /\ Cardinality(since) = row.version - as.version
    /\ LeftBy(since, as, row.version) = {row.text}
    /\ \A v \in since : LeftBy(since, as, v.version) = {v.from}

IsAccounted(r) == Accounts(Since(r), approvedAs[r], written[r])

AccountFits(r) ==
    /\ \A v \in revisions : v.r = r => v.version < written[r].version
    /\ approvedAs[r].version <= written[r].version
    /\ written[r].live /\ written[r].approval = "approved" => IsAccounted(r)

ReportsAccounted ==
    /\ approvedAs \in [ReportIds -> [version : Nat, text : Nat]]
    /\ IsFiniteSet(revisions) /\ \A v \in revisions : v.version \in Nat
    /\ \A r \in ReportIds : AccountFits(r)

(* The requests.                                                           *)
RequestRows ==
    [state : {"absent", "pending", "approved", "rejected", "withdrawn"}, by : Lecturers \cup {NoLecturer},
     l : SeriesLessons \cup {0}, before : Marks, wanted : Marks, key : BatchKeys \cup {NoKey},
     print : Bodies \cup {<<>>}, index : Nat]

RequestFits(q) ==
    /\ asked[q].state = "absent" => asked[q].key = NoKey
    /\ asked[q].state # "absent" /\ asked[q].key = NoKey => asked[q].l \in SeriesLessons
    /\ asked[q].key # NoKey => asked[q].l = 0

OnePending ==
    \A q, r \in RequestIds :
        q # r /\ asked[q].state = "pending" /\ asked[r].state = "pending" /\ asked[q].key = NoKey
            => asked[q].by # asked[r].by \/ asked[q].l # asked[r].l

RequestsFit ==
    /\ asked \in [RequestIds -> RequestRows] /\ (\A q \in RequestIds : RequestFits(q)) /\ OnePending
    /\ acked \subseteq [by : Lecturers, key : BatchKeys, body : Bodies] /\ AcknowledgedBatchIsStored

-----------------------------------------------------------------------------
(* A command as it was sent, and what it knows by the keys it holds.       *)
Sent(c) ==
    /\ c.op \in OfLessons \cup OfReports \cup {"leave", "rejoin", "bulk"}
    /\ c.op \in OfLessons \cup OfReports => c.l \in SeriesLessons
    /\ ("r" \in DOMAIN c <=> c.op \in OfReports) /\ (c.op \in OfReports => c.r \in ReportIds)
    /\ "q" \in DOMAIN c => c.op = "setMark" /\ c.q \in RequestIds
    /\ "scope" \in DOMAIN c => c.op \in Edits \cup {"remove"}
    /\ c.op \in {"leave", "rejoin", "attend", "clear", "write"} => c.x \in Learners
    /\ c.op \in {"rewrite", "revise"} => c.text \in Nat
    /\ c.op \in {"setMark", "correct"} => c.mark \in Marks
    /\ c.op = "move"      => c.past \in BOOLEAN
    /\ c.op = "setStatus" => c.status \in Statuses
    /\ c.op = "setRoster" => c.roster \subseteq Learners
    /\ c.op = "assign"    => c.teacher \in Lecturers \cup {NoLecturer}
    /\ c.op = "price"     => c.fee \in Nat \cup {NoFee}
    /\ c.op = "write"     => c.status \in {"draft", "submitted"}
    /\ c.op = "correct"   => c.by \in Lecturers
    /\ c.op = "bulk"      => c.by \in Lecturers /\ c.key \in BatchKeys /\ c.body \in Bodies

NamesReport(p) ==
    LET c == run[p].cmd IN
    c.op \in OfReports => written[c.r].version > 0 /\ c.l = written[c.r].l

NamesRequest(p) ==
    LET c == run[p].cmd IN
    "q" \in DOMAIN c =>
        asked[c.q].state # "absent" /\ asked[c.q].key = NoKey /\ c.l = asked[c.q].l /\ c.mark = asked[c.q].wanted

KnowsBatch(p) ==
    LET c == run[p].cmd IN
    c.op = "bulk" =>
        /\ <<"batch", c.by, c.key>> \in run[p].held /\ run[p].saw.existing = BatchOf(c.by, c.key)
        /\ "shown" \notin DOMAIN run[p].saw

HoldsLesson(p, l) == <<"session", l>> \in run[p].held

SawTyped(p) ==
    /\ Saw(p).lesson \in [SeriesLessons -> LessonRows] /\ Saw(p).marked \in [SeriesLessons -> SUBSET Learners]
    /\ Saw(p).written \in [ReportIds -> ReportRows]
    /\ Saw(p).cohort \subseteq Learners /\ Learners = Saw(p).cohort \cup everLeft

KnowsLesson(p, l) ==
    /\ Saw(p).lesson[l] = lesson[l] /\ Saw(p).marked[l] = marked[l]
    /\ \A r \in ReportIds : written[r].l = l \/ Saw(p).written[r].l = l => Saw(p).written[r] = written[r]

Knows(p) ==
    /\ SawTyped(p)
    /\ run[p].cmd.op \in OfLessons \cup OfReports =>
          \A l \in LessonTargets(Saw(p), run[p].cmd) : HoldsLesson(p, l)
    /\ \A l \in SeriesLessons : HoldsLesson(p, l) => KnowsLesson(p, l)
    /\ \A l \in SeriesLessons : lesson[l].there => Saw(p).lesson[l].there

LessonFits(p) ==
    run[p].cmd.op # "none" =>
        /\ Sent(run[p].cmd) /\ NamesReport(p) /\ NamesRequest(p) /\ KnowsBatch(p)
        /\ "now" \in DOMAIN run[p].saw => Knows(p)

LessonsSound ==
    /\ DOMAIN run = Instances /\ LocksExclude
    /\ LessonsFit /\ ReportsAccounted /\ RequestsFit
    /\ \A p \in Instances : LessonFits(p)

LEMMA InitLessons == NothingRuns /\ LessonsInit /\ LessonRequestsInit => LessonsSound
<1> SUFFICES ASSUME NothingRuns, LessonsInit, LessonRequestsInit PROVE LessonsSound
  OBVIOUS
<1>1. DOMAIN run = Instances /\ \A p \in Instances : run[p].cmd.op = "none" /\ run[p].held = {}
  BY DEF NothingRuns, Idle, NoCommand
<1>2. LocksExclude
  BY <1>1 DEF LocksExclude
<1>3. LessonsFit
  BY SeedsFit
<1>4. ReportsAccounted
  <2>1. revisions = {} /\ approvedAs = [r \in ReportIds |-> [version |-> written[r].version, text |-> written[r].text]]
    BY DEF LessonsInit
  <2>2. \A r \in ReportIds : written[r].version \in Nat /\ written[r].text \in Nat
    BY <1>3, ReportFields DEF LessonsFit, LessonsTyped
  <2>3. \A r \in ReportIds : approvedAs[r].version = written[r].version /\ approvedAs[r].text = written[r].text
    BY <2>1
  <2>4. \A r \in ReportIds : Since(r) = {}
    BY <2>1 DEF Since
  <2>5. \A r \in ReportIds : LeftBy({}, approvedAs[r], written[r].version) = {written[r].text}
    BY <2>3 DEF LeftBy
  <2>6. \A r \in ReportIds : AccountFits(r)
    <3> TAKE r \in ReportIds
    <3>1. Cardinality(Since(r)) = 0 /\ written[r].version - approvedAs[r].version = 0
      <4>1. Cardinality(Since(r)) = 0
        BY <2>4, FS_EmptySet
      <4>2. written[r].version \in Nat /\ approvedAs[r].version = written[r].version
        BY <2>2, <2>3
      <4> QED BY <4>1, <4>2
    <3>2. IsAccounted(r)
      BY <2>4, <2>5, <3>1 DEF IsAccounted, Accounts
    <3> QED BY <2>1, <2>2, <2>3, <3>2 DEF AccountFits
  <2>7. approvedAs \in [ReportIds -> [version : Nat, text : Nat]]
    BY <2>1, <2>2
  <2> QED BY <2>1, <2>6, <2>7, FS_EmptySet DEF ReportsAccounted
<1>5. RequestsFit
  <2>1. NoRequest \in RequestRows
    BY DEF NoRequest, RequestRows, Marks
  <2>2. asked \in [RequestIds -> RequestRows] /\ acked = {} /\ \A q \in RequestIds : asked[q] = NoRequest
    BY <2>1 DEF LessonRequestsInit
  <2>3. \A q \in RequestIds : RequestFits(q)
    BY <2>2 DEF RequestFits, NoRequest
  <2>4. OnePending
    BY <2>2 DEF OnePending, NoRequest
  <2> QED BY <2>2, <2>3, <2>4 DEF RequestsFit, AcknowledgedBatchIsStored
<1> QED BY <1>1, <1>2, <1>3, <1>4, <1>5 DEF LessonsSound, LessonFits

LEMMA SoundTextsAreAccounted == LessonsFit /\ ReportsAccounted => ApprovedTextIsAccounted
<1> SUFFICES ASSUME LessonsFit, ReportsAccounted, NEW r \in ReportIds, written[r].live, written[r].approval = "approved"
             PROVE  LET since  == {v \in revisions : v.r = r /\ v.version >= approvedAs[r].version}
                        textAt == [n \in approvedAs[r].version .. written[r].version |->
                                     IF n = approvedAs[r].version THEN {approvedAs[r].text}
                                     ELSE {v.to : v \in {u \in since : u.version = n - 1}}]
                    IN  /\ Cardinality(since) = written[r].version - approvedAs[r].version
                        /\ textAt[written[r].version] = {written[r].text}
                        /\ \A v \in since : textAt[v.version] = {v.from}
  BY DEF ApprovedTextIsAccounted
<1> DEFINE textAt == [n \in approvedAs[r].version .. written[r].version |->
                        IF n = approvedAs[r].version THEN {approvedAs[r].text}
                        ELSE {v.to : v \in {u \in Since(r) : u.version = n - 1}}]
<1>1. AccountFits(r) /\ approvedAs[r].version \in Nat /\ \A v \in revisions : v.version \in Nat
  BY DEF ReportsAccounted
<1>2. written[r].version \in Nat
  BY ReportFields DEF LessonsFit, LessonsTyped
<1>3. \A n \in approvedAs[r].version .. written[r].version : textAt[n] = LeftBy(Since(r), approvedAs[r], n)
  BY DEF LeftBy
<1>4. IsAccounted(r) /\ approvedAs[r].version <= written[r].version
  BY <1>1 DEF AccountFits
<1>5. written[r].version \in approvedAs[r].version .. written[r].version
  BY <1>1, <1>2, <1>4
<1>6. \A v \in Since(r) : v.version \in approvedAs[r].version .. written[r].version
  BY <1>1, <1>2 DEF AccountFits, Since
<1> HIDE DEF textAt
<1>7. /\ Cardinality(Since(r)) = written[r].version - approvedAs[r].version
      /\ textAt[written[r].version] = {written[r].text}
      /\ \A v \in Since(r) : textAt[v.version] = {v.from}
  BY <1>3, <1>4, <1>5, <1>6 DEF IsAccounted, Accounts
<1> QED BY <1>7 DEF textAt, Since

-----------------------------------------------------------------------------
(* A step of p that leaves alone what other commands hold and name.        *)
SameLesson(l) ==
    /\ lesson'[l] = lesson[l] /\ marked'[l] = marked[l]
    /\ \A r \in ReportIds : written[r].l = l \/ written'[r].l = l => written'[r] = written[r]

ReportStays(r) == written[r].version > 0 => written'[r].version > 0 /\ written'[r].l = written[r].l

SparesLessons(p) ==
    /\ \A l \in SeriesLessons : HoldsLesson(p, l) \/ SameLesson(l)
    /\ \A l \in SeriesLessons : lesson'[l].there => lesson[l].there
    /\ \A r \in ReportIds : ReportStays(r)
    /\ everLeft \subseteq everLeft'

SparesRequests(p) ==
    /\ \A q \in RequestIds : asked[q].state # "absent" =>
          /\ asked'[q].state # "absent" /\ asked'[q].key = asked[q].key
          /\ asked'[q].l = asked[q].l /\ asked'[q].wanted = asked[q].wanted
    /\ \A by \in Lecturers, key \in BatchKeys :
          <<"batch", by, key>> \in run[p].held \/ BatchOf(by, key)' = BatchOf(by, key)

LEMMA LessonTyping ==
    ASSUME LessonsFit
    PROVE  /\ \A r \in ReportIds : written[r].version \in Nat
           /\ lesson \in [SeriesLessons -> LessonRows] /\ marked \in [SeriesLessons -> SUBSET Learners]
           /\ written \in [ReportIds -> ReportRows] /\ everLeft \subseteq Learners
           /\ cohort \subseteq Learners /\ Learners = cohort \cup everLeft
BY ReportFields DEF LessonsFit, LessonsTyped

LEMMA OthersKnowLessons ==
    ASSUME LessonsSound, LessonsFit', NEW p \in Instances, SparesLessons(p), SparesRequests(p),
           NEW q \in Instances \ {p}, run'[q] = run[q]
    PROVE  LessonFits(q)'
<1> SUFFICES ASSUME run[q].cmd.op # "none" PROVE LessonFits(q)'
  BY DEF LessonFits
<1> DEFINE c == run[q].cmd
<1>1. LessonFits(q) /\ \A k \in run[p].held : k \notin run[q].held
  BY DEF LessonsSound, LocksExclude
<1>2. Sent(c) /\ NamesReport(q) /\ NamesRequest(q) /\ KnowsBatch(q) /\ ("now" \in DOMAIN run[q].saw => Knows(q))
  BY <1>1 DEF LessonFits
<1>3. Sent(c)' /\ run'[q].cmd = c
  BY <1>2 DEF Sent
<1>5. NamesReport(q)'
  <2>1. c.op \in OfReports => c.r \in ReportIds
    BY <1>2 DEF Sent
  <2> HIDE DEF c
  <2>2. c.op \in OfReports => written[c.r].version > 0 /\ c.l = written[c.r].l
    BY <1>2 DEF NamesReport, c
  <2>3. c.op \in OfReports => written'[c.r].version > 0 /\ written'[c.r].l = written[c.r].l
    BY <2>1, <2>2 DEF SparesLessons, ReportStays
  <2> QED BY <1>3, <2>2, <2>3 DEF NamesReport
<1>6. NamesRequest(q)'
  <2>1. "q" \in DOMAIN c => c.q \in RequestIds
    BY <1>2 DEF Sent
  <2> QED BY <1>2, <2>1 DEF NamesRequest, SparesRequests
<1>7. KnowsBatch(q)'
  <2>1. c.op = "bulk" => c.by \in Lecturers /\ c.key \in BatchKeys
    BY <1>2 DEF Sent
  <2> QED BY <1>1, <1>2, <2>1 DEF KnowsBatch, SparesRequests
<1>8. ASSUME "now" \in DOMAIN run[q].saw PROVE Knows(q)'
  <2>1. Knows(q) /\ Saw(q)' = Saw(q)
    BY <1>2, <1>8 DEF Saw
  <2>2. SawTyped(q)'
    <3>1. everLeft \subseteq everLeft' /\ everLeft' \subseteq Learners
      BY DEF SparesLessons, LessonsFit, LessonsTyped
    <3> QED BY <2>1, <3>1 DEF Knows, SawTyped
  <2>4. (run[q].cmd.op \in OfLessons \cup OfReports =>
           \A l \in LessonTargets(Saw(q), run[q].cmd) : HoldsLesson(q, l))'
    BY <2>1 DEF Knows, HoldsLesson, LessonTargets, ThereIn
  <2>5. ASSUME NEW l \in SeriesLessons, HoldsLesson(q, l) PROVE KnowsLesson(q, l)'
    <3>1. KnowsLesson(q, l) /\ SameLesson(l)
      BY <1>1, <2>1, <2>5 DEF Knows, HoldsLesson, SparesLessons
    <3> QED BY <2>1, <3>1 DEF KnowsLesson, SameLesson
  <2>6. \A l \in SeriesLessons : lesson'[l].there => Saw(q)'.lesson[l].there
    BY <2>1 DEF Knows, SparesLessons
  <2> QED BY <2>2, <2>4, <2>5, <2>6 DEF Knows, HoldsLesson
<1> QED BY <1>3, <1>5, <1>6, <1>7, <1>8 DEF LessonFits

LEMMA LessonStep ==
    ASSUME LessonsSound, NEW p \in Instances, End(p), LessonsFit', ReportsAccounted', RequestsFit',
           SparesLessons(p), SparesRequests(p)
    PROVE  LessonsSound'
<1>1. /\ DOMAIN run' = Instances /\ LocksExclude' /\ run'[p].cmd.op = "none"
      /\ \A q \in Instances \ {p} : run'[q] = run[q]
  BY CommandEnds DEF LessonsSound
<1>2. LessonFits(p)'
  BY <1>1 DEF LessonFits
<1> QED BY <1>1, <1>2, OthersKnowLessons DEF LessonsSound

LEMMA RequestsStay ==
    ASSUME RequestsFit, UNCHANGED requestVars
    PROVE  RequestsFit' /\ \A p \in Instances : SparesRequests(p)
<1>1. asked' = asked /\ acked' = acked /\ \A by, key : BatchOf(by, key)' = BatchOf(by, key)
  BY DEF requestVars, BatchOf
<1>2. AcknowledgedBatchIsStored'
  BY <1>1 DEF RequestsFit, AcknowledgedBatchIsStored
<1> QED BY <1>1, <1>2 DEF RequestsFit, RequestFits, OnePending, SparesRequests

LEMMA LessonRowsStay ==
    ASSUME LessonsFit, ReportsAccounted, UNCHANGED <<lessonRows, everLeft, approvedAs>>
    PROVE  LessonsFit' /\ ReportsAccounted' /\ \A p \in Instances : SparesLessons(p)
<1>1. /\ lesson' = lesson /\ marked' = marked /\ cohort' = cohort /\ written' = written /\ revisions' = revisions
      /\ everLeft' = everLeft /\ approvedAs' = approvedAs
  BY DEF lessonRows
<1>2. LessonsFit'
  BY <1>1 DEF LessonsFit, LessonsTyped, MarksFit, MayTakePart, ReportNames, ReportFits, OneReportEach
<1>3. \A r : AccountFits(r) => AccountFits(r)'
  BY <1>1 DEF AccountFits, IsAccounted, Since
<1>4. ReportsAccounted'
  BY <1>1, <1>3 DEF ReportsAccounted
<1> QED BY <1>1, <1>2, <1>4 DEF SparesLessons, SameLesson, ReportStays

-----------------------------------------------------------------------------
(* The client sends a command; the command takes its locks and reads.      *)
LEMMA LessonOfIsSent ==
    ASSUME LessonsFit, NEW c \in LessonCommands, Known(c)
    PROVE  /\ Sent(LessonOf(c)) /\ "q" \notin DOMAIN LessonOf(c) /\ LessonOf(c).op = c.op /\ c.op # "bulk"
           /\ c.op \in OfReports => /\ written[c.r].version > 0 /\ LessonOf(c).r = c.r
                                    /\ LessonOf(c).l = written[c.r].l
<1>1. /\ "op" \in DOMAIN c /\ c.op \in OfLessons \cup OfReports \cup {"leave", "rejoin"} /\ "q" \notin DOMAIN c
      /\ ("l" \in DOMAIN c <=> c.op \in OfLessons) /\ (c.op \in OfLessons => c.l \in SeriesLessons)
      /\ ("r" \in DOMAIN c <=> c.op \in OfReports) /\ (c.op \in OfReports => c.r \in ReportIds)
      /\ c.op \in {"rewrite", "revise"} => "text" \in DOMAIN c /\ c.text \in Nat
      /\ "scope" \in DOMAIN c => c.op \in Edits \cup {"remove"}
  BY LessonCommandsAssumption
<1>2. c.op \notin {"bulk", "none"}
  BY <1>1 DEF OfLessons, OfReports, Edits
<1>3. CASE "r" \in DOMAIN c
  <2> DEFINE d == LessonOf(c)
  <2>1. /\ DOMAIN d = DOMAIN c \cup {"l"} /\ d.l = written[c.r].l
        /\ \A f \in DOMAIN c : f # "l" => d[f] = c[f]
    BY <1>3 DEF LessonOf
  <2> HIDE DEF d
  <2>2. c.op \in OfReports /\ "l" \notin DOMAIN c
    BY <1>1, <1>3 DEF OfReports, OfLessons, Edits
  <2>3. d.op = c.op /\ d.r = c.r /\ "q" \notin DOMAIN d /\ "r" \in DOMAIN d
        /\ (c.op \in {"rewrite", "revise"} => d.text \in Nat)
    BY <1>1, <1>3, <2>1
  <2>4. written[c.r] # NoReport
    BY <1>3 DEF Known
  <2>5. written[c.r].version > 0 /\ written[c.r].l \in SeriesLessons
    <3>1. c.r \in ReportIds
      BY <1>1, <2>2
    <3> QED BY <2>4, <3>1 DEF LessonsFit, ReportNames
  <2>6. d.op \in {"rewrite", "withdraw", "submit", "approve", "reject", "revise"}
    BY <2>2, <2>3 DEF OfReports
  <2>7. Sent(d)
    BY <1>1, <2>1, <2>2, <2>3, <2>5, <2>6 DEF Sent
  <2> QED BY <1>2, <2>1, <2>3, <2>5, <2>7 DEF d
<1>4. CASE "r" \notin DOMAIN c
  <2>1. LessonOf(c) = c /\ c.op \notin OfReports
    BY <1>1, <1>4 DEF LessonOf
  <2>2. Sent(c)
    BY <1>1, <1>2, <2>1, LessonCommandsAssumption DEF Sent
  <2> QED BY <1>1, <1>2, <2>1, <2>2
<1> QED BY <1>3, <1>4

(* A new command p, of which something is known.                           *)
LEMMA NewCommand ==
    ASSUME LessonsSound, NEW p \in Instances, NEW c, NEW keys, NEW saw, Begin(p, c, keys, saw),
           UNCHANGED <<lessonRows, everLeft, approvedAs>>, UNCHANGED requestVars,
           Sent(c), "now" \notin DOMAIN saw,
           c.op \in OfReports => written[c.r].version > 0 /\ c.l = written[c.r].l,
           "q" \in DOMAIN c =>
               asked[c.q].state # "absent" /\ asked[c.q].key = NoKey /\ c.l = asked[c.q].l /\ c.mark = asked[c.q].wanted,
           c.op = "bulk" =>
               <<"batch", c.by, c.key>> \in keys /\ saw.existing = BatchOf(c.by, c.key) /\ "shown" \notin DOMAIN saw
    PROVE  LessonsSound'
<1>1. /\ DOMAIN run' = Instances /\ LocksExclude' /\ run'[p].cmd = c /\ run'[p].held = keys /\ run'[p].saw = saw
      /\ \A q \in Instances \ {p} : run'[q] = run[q]
  BY CommandBegins DEF LessonsSound
<1>2. LessonsFit' /\ ReportsAccounted' /\ RequestsFit' /\ SparesLessons(p) /\ SparesRequests(p)
  BY LessonRowsStay, RequestsStay DEF LessonsSound
<1>3. written' = written /\ asked' = asked
  BY DEF lessonRows, requestVars
<1>4. NamesReport(p)' /\ NamesRequest(p)'
  BY <1>1, <1>3 DEF NamesReport, NamesRequest
<1>5. KnowsBatch(p)'
  BY <1>1, <1>3 DEF KnowsBatch, BatchOf
<1>6. LessonFits(p)'
  BY <1>1, <1>4, <1>5 DEF LessonFits, Sent
<1> QED BY <1>1, <1>2, <1>6, OthersKnowLessons DEF LessonsSound

LEMMA AskLessonKeeps ==
    ASSUME LessonsSound, NEW p \in Instances, AskLesson(p), UNCHANGED requestVars
    PROVE  LessonsSound'
<1>1. PICK c \in LessonCommands : Known(c) /\ Begin(p, LessonOf(c), {}, [shown |-> Shown(c)])
  BY DEF AskLesson
<1>2. /\ Sent(LessonOf(c)) /\ "q" \notin DOMAIN LessonOf(c) /\ LessonOf(c).op = c.op /\ c.op # "bulk"
      /\ c.op \in OfReports => written[c.r].version > 0 /\ LessonOf(c).r = c.r /\ LessonOf(c).l = written[c.r].l
  BY <1>1, LessonOfIsSent DEF LessonsSound
<1>3. UNCHANGED <<lessonRows, everLeft, approvedAs>> /\ "now" \notin DOMAIN [shown |-> Shown(c)]
  BY DEF AskLesson
<1> QED BY <1>1, <1>2, <1>3, NewCommand

LEMMA AskApprovalKeeps ==
    ASSUME LessonsSound, NEW p \in Instances, AskApproval(p)
    PROVE  LessonsSound'
<1> DEFINE c(q) == [op |-> "setMark", l |-> asked[q].l, mark |-> asked[q].wanted, q |-> q]
<1>1. PICK q \in RequestIds : asked[q].state = "pending" /\ asked[q].key = NoKey
                              /\ Begin(p, c(q), {}, [shown |-> Impact(Now, c(q))])
  BY DEF AskApproval
<1>2. asked[q].l \in SeriesLessons /\ asked[q].wanted \in Marks
  BY <1>1 DEF LessonsSound, RequestsFit, RequestFits, RequestRows
<1>3. Sent(c(q)) /\ c(q).op = "setMark" /\ c(q).q = q /\ c(q).l = asked[q].l /\ c(q).mark = asked[q].wanted
  BY <1>2 DEF Sent, OfLessons, OfReports, Edits
<1>4. UNCHANGED <<lessonRows, everLeft, approvedAs>> /\ UNCHANGED requestVars
      /\ "now" \notin DOMAIN [shown |-> Impact(Now, c(q))]
  BY DEF AskApproval
<1>5. c(q).op \notin OfReports
  BY <1>3 DEF OfReports
<1> HIDE DEF c
<1> QED BY <1>1, <1>3, <1>4, <1>5, NewCommand

LEMMA AskBatchKeeps ==
    ASSUME LessonsSound, NEW p \in Instances, AskBatch(p)
    PROVE  LessonsSound'
<1>1. PICK by \in Lecturers, key \in BatchKeys, body \in Bodies :
         Begin(p, [op |-> "bulk", by |-> by, key |-> key, body |-> body], {<<"batch", by, key>>},
               [existing |-> BatchOf(by, key)])
  BY DEF AskBatch
<1> DEFINE c == [op |-> "bulk", by |-> by, key |-> key, body |-> body]
<1>2. Sent(c) /\ c.op \notin OfReports /\ "q" \notin DOMAIN c
  BY DEF Sent, OfLessons, OfReports, Edits
<1>3. UNCHANGED <<lessonRows, everLeft, approvedAs>> /\ UNCHANGED requestVars
      /\ {"now", "shown"} \cap DOMAIN [existing |-> BatchOf(by, key)] = {}
  BY DEF AskBatch
<1>4. c.by = by /\ c.key = key
  OBVIOUS
<1>5. Begin(p, c, {<<"batch", by, key>>}, [existing |-> BatchOf(by, key)])
  BY <1>1
<1> HIDE DEF c
<1> QED BY <1>2, <1>3, <1>4, <1>5, NewCommand

LEMMA TargetsOf ==
    ASSUME NEW c, NEW db, c.l \in SeriesLessons
    PROVE  LessonTargets(db, c) \subseteq SeriesLessons /\ c.l \in LessonTargets(db, c)
BY DEF LessonTargets, ThereIn

LEMMA ReadLessonKeeps ==
    ASSUME LessonsSound, NEW p \in Instances, ReadLesson(p), UNCHANGED requestVars
    PROVE  LessonsSound'
<1> DEFINE c == run[p].cmd
           keys == KeysOfLessonCommand(c)
<1>1. UNCHANGED <<lessonRows, everLeft, approvedAs>> /\ asked' = asked
  BY DEF ReadLesson, lessonVars, requestVars
<1>2. LessonsFit' /\ ReportsAccounted' /\ RequestsFit' /\ SparesLessons(p) /\ SparesRequests(p)
  BY <1>1, LessonRowsStay, RequestsStay DEF LessonsSound
<1>3. /\ DOMAIN run' = Instances /\ run'[p].cmd = c /\ run'[p].held = keys
      /\ run'[p].saw = [shown |-> run[p].saw.shown, now |-> Now]
      /\ \A q \in Instances \ {p} : run'[q] = run[q]
      /\ Free(p, keys) /\ "shown" \in DOMAIN run[p].saw
  BY DEF ReadLesson, LessonsSound
<1>4. LocksExclude'
  BY <1>3 DEF LessonsSound, LocksExclude, Free
<1>5. ASSUME c.op # "none" PROVE LessonFits(p)'
  <2>1. Sent(c) /\ NamesReport(p) /\ NamesRequest(p) /\ KnowsBatch(p)
    BY <1>5 DEF LessonsSound, LessonFits
  <2>2. c.op # "bulk"
    BY <1>3, <2>1 DEF KnowsBatch
  <2>3. Sent(c)' /\ NamesReport(p)' /\ NamesRequest(p)' /\ KnowsBatch(p)'
    <3>1. written' = written
      BY <1>1 DEF lessonRows
    <3> QED BY <1>1, <1>3, <2>1, <2>2, <3>1 DEF NamesReport, NamesRequest, KnowsBatch, Sent
  <2>4. Saw(p)' = Now /\ Now' = Now
    BY <1>1, <1>3 DEF Saw, Now, lessonRows
  <2>5. Now.lesson = lesson /\ Now.marked = marked /\ Now.written = written /\ Now.cohort = cohort
    BY DEF Now
  <2>6. everLeft' = everLeft /\ lesson' = lesson /\ marked' = marked /\ written' = written
    BY <1>1 DEF lessonRows
  <2>7. SawTyped(p)'
    BY <2>4, <2>5, <2>6, LessonTyping DEF SawTyped, LessonsSound
  <2>9. \A l \in SeriesLessons : KnowsLesson(p, l)' /\ (lesson[l].there => Saw(p).lesson[l].there)'
    BY <2>4, <2>5, <2>6 DEF KnowsLesson
  <2>10. (c.op \in OfLessons \cup OfReports => \A l \in LessonTargets(Saw(p), c) : HoldsLesson(p, l))'
    <3>1. SUFFICES ASSUME c.op \in OfLessons \cup OfReports, NEW l \in LessonTargets(Now, c)
                   PROVE  <<"session", l>> \in keys
      BY <1>3, <2>4 DEF HoldsLesson, LessonTargets, ThereIn
    <3>2. c.op \notin {"leave", "rejoin"}
      BY <3>1 DEF OfLessons, OfReports, Edits
    <3>3. <<"session", l>> \in {<<"session", t>> : t \in LessonTargets(Now, c)}
      OBVIOUS
    <3> QED BY <3>2, <3>3 DEF KeysOfLessonCommand, LessonKeys
  <2> QED BY <1>3, <2>3, <2>7, <2>9, <2>10 DEF LessonFits, Knows
<1>6. LessonFits(p)'
  BY <1>3, <1>5 DEF LessonFits
<1> QED BY <1>2, <1>3, <1>4, <1>6, OthersKnowLessons DEF LessonsSound

-----------------------------------------------------------------------------
(* Commands that change a lesson and its attendance.                       *)
SameRows(l) == lesson'[l] = lesson[l] /\ marked'[l] = marked[l]

MayTakePartNext(l, who) == lesson'[l].roster = {} \/ who \subseteq lesson'[l].roster \cup everLeft'

GoesOn(l) ==
    /\ MayTakePartNext(l, marked'[l]) /\ (marked'[l] # {} => lesson'[l].there)
    /\ lesson'[l].there => lesson[l].there
    /\ \A r \in ReportIds : written[r].live /\ written[r].l = l =>
          lesson'[l].there /\ lesson'[l].teacher = lesson[l].teacher /\ MayTakePartNext(l, {written[r].x})

LEMMA LessonsChange ==
    ASSUME LessonsSound, NEW p \in Instances, UNCHANGED <<cohort, written, revisions, everLeft, approvedAs>>,
           lesson' \in [SeriesLessons -> LessonRows], marked' \in [SeriesLessons -> SUBSET Learners],
           \A l \in SeriesLessons : SameRows(l) \/ (HoldsLesson(p, l) /\ GoesOn(l))
    PROVE  LessonsFit' /\ ReportsAccounted' /\ SparesLessons(p)
<1>1. /\ written' = written /\ everLeft' = everLeft /\ cohort' = cohort /\ revisions' = revisions
      /\ approvedAs' = approvedAs
  OBVIOUS
<1>2. LessonsTyped /\ OneReportEach /\ (\A l \in SeriesLessons : MarksFit(l))
      /\ \A r \in ReportIds : ReportNames(r) /\ ReportFits(r)
  BY DEF LessonsSound, LessonsFit
<1>3. LessonsTyped' /\ OneReportEach'
  BY <1>1, <1>2 DEF LessonsTyped, OneReportEach
<1>4. ASSUME NEW l \in SeriesLessons PROVE MarksFit(l)'
  BY <1>1, <1>2 DEF SameRows, GoesOn, MarksFit, MayTakePart, MayTakePartNext
<1>5. ASSUME NEW r \in ReportIds PROVE ReportNames(r)' /\ ReportFits(r)'
  <2>1. ReportNames(r)'
    BY <1>1, <1>2 DEF ReportNames
  <2>2. ReportFits(r)'
    <3> SUFFICES ASSUME NEW l, NEW x, l = written[r].l, x = written[r].x, written[r].live
                 PROVE  /\ written[r].version > 0 /\ MayTakePartNext(l, {x}) /\ lesson'[l].there
                        /\ written[r].teacher = lesson'[l].teacher /\ lesson'[l].teacher # NoLecturer
      BY <1>1 DEF ReportFits, MayTakePart, MayTakePartNext
    <3>1. /\ written[r].version > 0 /\ MayTakePart(l, {x}) /\ lesson[l].there
          /\ written[r].teacher = lesson[l].teacher /\ lesson[l].teacher # NoLecturer
      BY <1>2 DEF ReportFits
    <3>2. l \in SeriesLessons
      <4>1. written[r] # NoReport
        BY DEF NoReport
      <4> QED BY <1>2, <4>1 DEF ReportNames
    <3>3. CASE SameRows(l)
      BY <1>1, <3>1, <3>3 DEF SameRows, MayTakePart, MayTakePartNext
    <3>4. CASE GoesOn(l)
      BY <3>1, <3>4 DEF GoesOn
    <3> QED BY <3>2, <3>3, <3>4
  <2> QED BY <2>1, <2>2
<1>6. LessonsFit'
  BY <1>3, <1>4, <1>5 DEF LessonsFit
<1>7. \A r : AccountFits(r) => AccountFits(r)'
  BY <1>1 DEF AccountFits, IsAccounted, Since
<1>8. ReportsAccounted'
  BY <1>1, <1>7 DEF LessonsSound, ReportsAccounted
<1>9. SparesLessons(p)
  BY <1>1 DEF SparesLessons, SameLesson, SameRows, GoesOn, ReportStays
<1> QED BY <1>6, <1>8, <1>9

(* What a command knows of a lesson it holds.                              *)
LEMMA KnownLesson ==
    ASSUME LessonsSound, NEW p \in Instances, "now" \in DOMAIN run[p].saw, run[p].cmd.op # "none"
    PROVE  /\ Sent(run[p].cmd) /\ NamesReport(p) /\ NamesRequest(p) /\ SawTyped(p)
           /\ run[p].cmd.op \in OfLessons \cup OfReports =>
                 /\ run[p].cmd.l \in SeriesLessons
                 /\ LessonTargets(Saw(p), run[p].cmd) \subseteq SeriesLessons
                 /\ run[p].cmd.l \in LessonTargets(Saw(p), run[p].cmd)
                 /\ \A l \in LessonTargets(Saw(p), run[p].cmd) : HoldsLesson(p, l) /\ KnowsLesson(p, l)
<1>1. Sent(run[p].cmd) /\ NamesReport(p) /\ NamesRequest(p) /\ Knows(p)
  BY DEF LessonsSound, LessonFits
<1>2. run[p].cmd.op \in OfLessons \cup OfReports => run[p].cmd.l \in SeriesLessons
  BY <1>1 DEF Sent
<1> QED BY <1>1, <1>2, TargetsOf DEF Knows

(* The reports a command sees on a lesson it holds are the ones on it.     *)
LEMMA KnownReports ==
    ASSUME NEW p, NEW l, KnowsLesson(p, l)
    PROVE  /\ ReportsOn(Saw(p), l) = {r \in ReportIds : written[r].live /\ written[r].l = l}
           /\ \A r \in ReportsOn(Saw(p), l) : Saw(p).written[r] = written[r]
BY DEF KnowsLesson, ReportsOn

LEMMA HeldRow ==
    ASSUME NEW row \in LessonRows, NEW marks, NEW enrolled \in SUBSET Learners
    PROVE  /\ HeldIfComplete(row, marks, enrolled) \in LessonRows
           /\ HeldIfComplete(row, marks, enrolled).there = row.there
           /\ HeldIfComplete(row, marks, enrolled).teacher = row.teacher
           /\ HeldIfComplete(row, marks, enrolled).mark = row.mark
           /\ \/ HeldIfComplete(row, marks, enrolled).roster = row.roster
              \/ (row.roster = {} /\ HeldIfComplete(row, marks, enrolled).roster = enrolled)
<1> DEFINE roster == Participants(row, enrolled)
           held   == [row EXCEPT !.status = "held", !.roster = roster]
<1>1. roster \subseteq Learners /\ (roster = row.roster \/ (row.roster = {} /\ roster = enrolled))
  BY RowFields DEF Participants
<1> HIDE DEF roster
<1>2. held \in LessonRows /\ held.there = row.there /\ held.teacher = row.teacher /\ held.mark = row.mark
      /\ held.roster = roster
  BY <1>1 DEF LessonRows, Statuses
<1>3. HeldIfComplete(row, marks, enrolled) = IF FactsComplete(row, marks, enrolled) THEN held ELSE row
  BY DEF HeldIfComplete, roster
<1> HIDE DEF held
<1>4. CASE FactsComplete(row, marks, enrolled)
  <2>1. HeldIfComplete(row, marks, enrolled) = held
    BY <1>3, <1>4
  <2> QED BY <1>1, <1>2, <2>1
<1>5. CASE ~FactsComplete(row, marks, enrolled)
  <2>1. HeldIfComplete(row, marks, enrolled) = row
    BY <1>3, <1>5
  <2> QED BY <2>1
<1> QED BY <1>4, <1>5

LEMMA FirstRow ==
    ASSUME NEW c, Sent(c), c.op \in Edits, NEW db, db.lesson \in [SeriesLessons -> LessonRows],
           db.cohort \subseteq Learners
    PROVE  /\ First(db, c) \in LessonRows /\ First(db, c).there = db.lesson[c.l].there
           /\ First(db, c).teacher = db.lesson[c.l].teacher
           /\ c.op = "setMark" => First(db, c).mark = c.mark
<1> DEFINE row == db.lesson[c.l]
<1>1. c.l \in SeriesLessons /\ row \in LessonRows
  BY DEF Sent, OfLessons
<1>2. CASE c.op = "setMark"
  <2> DEFINE marking == [row EXCEPT !.mark = c.mark]
  <2>1. marking \in LessonRows /\ marking.there = row.there /\ marking.teacher = row.teacher /\ marking.mark = c.mark
    BY <1>1, <1>2 DEF LessonRows, Sent
  <2>2. First(db, c) = HeldIfComplete(marking, db.marked[c.l], db.cohort)
    BY <1>2 DEF First
  <2> HIDE DEF marking, row
  <2>3. First(db, c) \in LessonRows /\ First(db, c).there = row.there /\ First(db, c).teacher = row.teacher
        /\ First(db, c).mark = c.mark
    BY <2>1, <2>2, HeldRow
  <2> QED BY <2>3 DEF row
<1>3. CASE c.op = "move"
  <2>1. First(db, c) = [row EXCEPT !.status = "scheduled", !.mark = "none", !.past = c.past]
    BY <1>3 DEF First
  <2> QED BY <1>1, <1>3, <2>1 DEF LessonRows, Statuses, Marks, Sent
<1>4. CASE c.op = "setStatus"
  <2>1. First(db, c) = [row EXCEPT !.status = c.status]
    BY <1>4 DEF First
  <2> QED BY <1>1, <1>4, <2>1 DEF LessonRows, Sent
<1>5. CASE c.op = "setRoster"
  <2>1. First(db, c) = [row EXCEPT !.roster = c.roster]
    BY <1>5 DEF First
  <2> QED BY <1>1, <1>5, <2>1 DEF LessonRows, Sent
<1>6. CASE c.op = "clearMark"
  <2>1. First(db, c) = [row EXCEPT !.mark = "none", !.status = IF row.status = "held" THEN "scheduled" ELSE row.status]
    BY <1>6 DEF First
  <2> QED BY <1>1, <1>6, <2>1 DEF LessonRows, Statuses, Marks
<1>7. CASE c.op = "setRoom"
  BY <1>1, <1>7 DEF First
<1> QED BY <1>2, <1>3, <1>4, <1>5, <1>6, <1>7 DEF Edits

LEMMA EditedRow ==
    ASSUME NEW c, Sent(c), c.op \in Edits, NEW db, db.lesson \in [SeriesLessons -> LessonRows],
           db.cohort \subseteq Learners, NEW l \in SeriesLessons
    PROVE  /\ Edited(db, c, l) \in LessonRows /\ Edited(db, c, l).there = db.lesson[l].there
           /\ l # c.l => Edited(db, c, l).roster = db.lesson[l].roster
<1>1. First(db, c) \in LessonRows /\ First(db, c).there = db.lesson[c.l].there
  BY FirstRow
<1>2. CASE l = c.l
  BY <1>1, <1>2 DEF Edited
<1>3. CASE l # c.l /\ c.op = "move"
  <2>1. Edited(db, c, l) = [db.lesson[l] EXCEPT !.status = "scheduled", !.mark = "none", !.past = c.past,
                                                !.teacher = db.lesson[c.l].teacher]
    BY <1>3 DEF Edited
  <2>2. c.l \in SeriesLessons /\ c.past \in BOOLEAN
    BY <1>3 DEF Sent, OfLessons
  <2>3. db.lesson[c.l].teacher \in Lecturers \cup {NoLecturer}
    BY <2>2, RowFields
  <2> DEFINE row == db.lesson[l]
             moved == [row EXCEPT !.status = "scheduled", !.mark = "none", !.past = c.past,
                                  !.teacher = db.lesson[c.l].teacher]
  <2>4. row \in LessonRows
    OBVIOUS
  <2>5. moved \in LessonRows
    <3> HIDE DEF row
    <3> QED BY <2>2, <2>3, <2>4 DEF LessonRows, Statuses, Marks
  <2>6. moved.there = row.there /\ moved.roster = row.roster
    <3> HIDE DEF row
    <3> QED BY <2>4 DEF LessonRows
  <2> QED BY <1>3, <2>1, <2>5, <2>6
<1>4. CASE l # c.l /\ c.op # "move"
  <2>1. Edited(db, c, l) = [db.lesson[l] EXCEPT !.status = First(db, c).status, !.teacher = First(db, c).teacher]
    BY <1>4 DEF Edited, Edits
  <2>2. First(db, c).status \in Statuses /\ First(db, c).teacher \in Lecturers \cup {NoLecturer}
    BY <1>1, RowFields
  <2> QED BY <1>4, <2>1, <2>2 DEF LessonRows
<1> QED BY <1>2, <1>3, <1>4

LEMMA UpdateFits ==
    ASSUME LessonsSound, NEW p \in Instances, Update(p)
    PROVE  /\ End(p) /\ LessonsFit' /\ ReportsAccounted' /\ SparesLessons(p)
           /\ run[p].cmd.op \in Edits /\ run[p].cmd.l \in SeriesLessons /\ KnowsLesson(p, run[p].cmd.l)
           /\ lesson'[run[p].cmd.l] = First(Saw(p), run[p].cmd) /\ Sent(run[p].cmd) /\ SawTyped(p)
           /\ NamesRequest(p)
<1> DEFINE c  == run[p].cmd
           db == Saw(p)
           targets == LessonTargets(db, c)
<1>1. c.op \in Edits /\ "now" \in DOMAIN run[p].saw /\ End(p)
      /\ UNCHANGED <<cohort, written, revisions, everLeft, approvedAs>>
  BY DEF Update, Doing
<1>2. /\ \A l \in targets : Compatible(db, c, l)
      /\ lesson' = [l \in SeriesLessons |-> IF l \in targets THEN Edited(db, c, l) ELSE lesson[l]]
      /\ marked' = [l \in SeriesLessons |-> IF c.op = "move" /\ l \in targets THEN {} ELSE marked[l]]
  BY DEF Update
<1>3. c.op # "none" /\ c.op \in OfLessons \cup OfReports
  BY <1>1 DEF Edits, OfLessons
<1>4. /\ Sent(c) /\ SawTyped(p) /\ NamesRequest(p) /\ c.l \in SeriesLessons
      /\ targets \subseteq SeriesLessons /\ c.l \in targets
      /\ \A l \in targets : HoldsLesson(p, l) /\ KnowsLesson(p, l)
  BY <1>1, <1>3, KnownLesson
<1>5. /\ \A l \in SeriesLessons : MarksFit(l)
      /\ \A r \in ReportIds : ReportFits(r)
      /\ lesson \in [SeriesLessons -> LessonRows] /\ marked \in [SeriesLessons -> SUBSET Learners]
  BY LessonTyping DEF LessonsSound, LessonsFit
<1> HIDE DEF c, db, targets
<1>6. db.lesson \in [SeriesLessons -> LessonRows] /\ db.cohort \subseteq Learners
  BY <1>4 DEF SawTyped, db
<1>7. /\ \A l \in targets : lesson'[l] = Edited(db, c, l)
      /\ \A l \in SeriesLessons \ targets : lesson'[l] = lesson[l] /\ marked'[l] = marked[l]
      /\ \A l \in SeriesLessons : marked'[l] \subseteq marked[l]
  BY <1>2, <1>4
<1>8. lesson' \in [SeriesLessons -> LessonRows]
  <2>1. \A l \in SeriesLessons : Edited(db, c, l) \in LessonRows
    BY <1>1, <1>4, <1>6, EditedRow
  <2> QED BY <1>2, <1>5, <2>1
<1>9. marked' \in [SeriesLessons -> SUBSET Learners]
  BY <1>2, <1>5
<1>10. ASSUME NEW l \in targets PROVE GoesOn(l)
  <2>1. /\ db.lesson[l] = lesson[l] /\ db.marked[l] = marked[l] /\ l \in SeriesLessons
        /\ ReportsOn(db, l) = {r \in ReportIds : written[r].live /\ written[r].l = l}
        /\ \A r \in ReportsOn(db, l) : db.written[r] = written[r]
    BY <1>4, KnownReports DEF KnowsLesson, db
  <2>2. lesson'[l].there = lesson[l].there /\ (l # c.l => lesson'[l].roster = lesson[l].roster)
    BY <1>1, <1>4, <1>6, <1>7, <2>1, EditedRow
  <2>3. ReportsOn(db, l) # {} => lesson'[l].teacher = lesson[l].teacher
    BY <1>2, <1>7, <2>1 DEF Compatible
  <2>4. CASE l = c.l
    <3>1. marked[l] \cup {db.written[r].x : r \in ReportsOn(db, l)} \subseteq Participants(lesson'[l], db.cohort)
      BY <1>2, <1>7, <2>1, <2>4 DEF Compatible
    <3>2. MayTakePartNext(l, marked[l])
      BY <3>1 DEF MayTakePartNext, Participants
    <3>3. ASSUME NEW r \in ReportsOn(db, l) PROVE MayTakePartNext(l, {written[r].x})
      <4>1. db.written[r].x \in Participants(lesson'[l], db.cohort)
        BY <3>1
      <4> QED BY <2>1, <4>1 DEF MayTakePartNext, Participants
    <3>4. MayTakePartNext(l, marked'[l]) /\ (marked'[l] # {} => lesson'[l].there)
      BY <1>5, <1>7, <2>1, <2>2, <3>2 DEF MayTakePartNext, MarksFit
    <3>5. ASSUME NEW r \in ReportIds, written[r].live, written[r].l = l
          PROVE  lesson'[l].there /\ lesson'[l].teacher = lesson[l].teacher /\ MayTakePartNext(l, {written[r].x})
      <4>1. r \in ReportsOn(db, l) /\ lesson[l].there
        BY <1>5, <2>1, <3>5 DEF ReportFits
      <4> QED BY <2>2, <2>3, <3>3, <4>1
    <3> QED BY <2>2, <3>4, <3>5 DEF GoesOn
  <2>5. CASE l # c.l
    <3>1. everLeft' = everLeft /\ lesson'[l].roster = lesson[l].roster
      BY <1>1, <2>2, <2>5
    <3>2. MayTakePartNext(l, marked'[l]) /\ (marked'[l] # {} => lesson'[l].there)
      BY <1>5, <1>7, <2>1, <2>2, <3>1 DEF MayTakePartNext, MarksFit, MayTakePart
    <3>3. ASSUME NEW r \in ReportIds, written[r].live, written[r].l = l
          PROVE  lesson'[l].there /\ lesson'[l].teacher = lesson[l].teacher /\ MayTakePartNext(l, {written[r].x})
      <4>1. r \in ReportsOn(db, l)
        BY <2>1, <3>3
      <4>2. lesson[l].there /\ MayTakePart(l, {written[r].x})
        BY <1>5, <3>3 DEF ReportFits
      <4> QED BY <2>2, <2>3, <3>1, <4>1, <4>2 DEF MayTakePartNext, MayTakePart
    <3> QED BY <2>2, <3>2, <3>3 DEF GoesOn
  <2> QED BY <2>4, <2>5
<1>11. LessonsFit' /\ ReportsAccounted' /\ SparesLessons(p)
  <2>1. \A l \in SeriesLessons : SameRows(l) \/ (HoldsLesson(p, l) /\ GoesOn(l))
    BY <1>4, <1>7, <1>10 DEF SameRows
  <2> QED BY <1>1, <1>8, <1>9, <2>1, LessonsChange
<1>12. lesson'[c.l] = First(db, c)
  BY <1>4, <1>7 DEF Edited
<1> QED BY <1>1, <1>4, <1>11, <1>12 DEF c, db

(* A step about the one lesson the command is about.                       *)
LEMMA AboutOne ==
    ASSUME LessonsSound, NEW p \in Instances, NEW op, Doing(p, op), op \in OfLessons
    PROVE  /\ run[p].cmd.l \in SeriesLessons /\ Sent(run[p].cmd) /\ run[p].cmd.op = op
           /\ HoldsLesson(p, run[p].cmd.l) /\ KnowsLesson(p, run[p].cmd.l) /\ SawTyped(p)
<1>1. run[p].cmd.op = op /\ op # "none" /\ "now" \in DOMAIN run[p].saw
  BY DEF Doing, OfLessons, Edits
<1> QED BY <1>1, KnownLesson

(* ... which keeps its lecturer while there are reports, and its roster.   *)
LEMMA OneChanges ==
    ASSUME LessonsSound, NEW p \in Instances, UNCHANGED <<cohort, written, revisions, everLeft, approvedAs>>,
           NEW l \in SeriesLessons, HoldsLesson(p, l), NEW row \in LessonRows, NEW marks \in SUBSET Learners,
           lesson' \in [SeriesLessons -> LessonRows], marked' \in [SeriesLessons -> SUBSET Learners],
           \A t \in SeriesLessons \ {l} : SameRows(t),
           lesson'[l] = row, marked'[l] = marks,
           row.there = lesson[l].there, marks \subseteq marked[l] \/ row.there,
           \/ row.teacher = lesson[l].teacher
           \/ \A r \in ReportIds : ~(written[r].live /\ written[r].l = l),
           row.roster = lesson[l].roster \/ row.roster \cup everLeft = Learners,
           row.roster = {} \/ marks \subseteq row.roster \cup marked[l]
    PROVE  LessonsFit' /\ ReportsAccounted' /\ SparesLessons(p)
<1>1. /\ MarksFit(l) /\ (\A r \in ReportIds : ReportFits(r) /\ ReportNames(r)) /\ everLeft' = everLeft
      /\ marked[l] \subseteq Learners
  BY LessonTyping DEF LessonsSound, LessonsFit
<1>2. lesson'[l] = row /\ marked'[l] = marks
  OBVIOUS
<1>3. ASSUME NEW who \in SUBSET Learners, MayTakePart(l, who) PROVE MayTakePartNext(l, who)
  BY <1>1, <1>2, <1>3 DEF MayTakePart, MayTakePartNext
<1>4. MayTakePartNext(l, marks) /\ (marks # {} => row.there)
  BY <1>1, <1>2, <1>3 DEF MarksFit, MayTakePartNext
<1>5. ASSUME NEW r \in ReportIds, written[r].live, written[r].l = l
      PROVE  lesson'[l].there /\ lesson'[l].teacher = lesson[l].teacher /\ MayTakePartNext(l, {written[r].x})
  <2>1. lesson[l].there /\ MayTakePart(l, {written[r].x}) /\ written[r].version > 0
    BY <1>1, <1>5 DEF ReportFits
  <2>2. written[r].x \in Learners
    <3>1. written[r] # NoReport
      BY <1>5 DEF NoReport
    <3> QED BY <1>1, <3>1 DEF ReportNames
  <2>3. MayTakePartNext(l, {written[r].x})
    BY <1>3, <2>1, <2>2
  <2> QED BY <1>2, <1>5, <2>1, <2>3
<1>6. GoesOn(l)
  BY <1>2, <1>4, <1>5 DEF GoesOn
<1>7. \A t \in SeriesLessons : SameRows(t) \/ (HoldsLesson(p, t) /\ GoesOn(t))
  BY <1>6
<1> QED BY <1>7, LessonsChange

LEMMA EditLessonKeeps ==
    ASSUME LessonsSound, NEW p \in Instances, EditLesson(p), UNCHANGED requestVars
    PROVE  LessonsSound'
BY UpdateFits, RequestsStay, LessonStep DEF EditLesson, LessonsSound

LEMMA AssignKeeps ==
    ASSUME LessonsSound, NEW p \in Instances, Assign(p), UNCHANGED requestVars
    PROVE  LessonsSound'
<1> DEFINE c == run[p].cmd
           l == c.l
<1>1. /\ Doing(p, "assign") /\ End(p) /\ ReportsOn(Saw(p), l) = {}
      /\ lesson' = [lesson EXCEPT ![l].teacher = c.teacher]
      /\ UNCHANGED <<cohort, written, revisions, everLeft, approvedAs>> /\ marked' = marked
  BY DEF Assign
<1>2. /\ l \in SeriesLessons /\ Sent(c) /\ c.op = "assign" /\ HoldsLesson(p, l) /\ KnowsLesson(p, l)
  BY <1>1, AboutOne DEF OfLessons
<1>3. lesson \in [SeriesLessons -> LessonRows] /\ marked \in [SeriesLessons -> SUBSET Learners]
  BY LessonTyping DEF LessonsSound
<1>4. c.teacher \in Lecturers \cup {NoLecturer}
  BY <1>2 DEF Sent
<1> HIDE DEF c, l
<1>5. /\ lesson' \in [SeriesLessons -> LessonRows] /\ lesson'[l].there = lesson[l].there
      /\ lesson'[l].roster = lesson[l].roster /\ \A t \in SeriesLessons \ {l} : lesson'[t] = lesson[t]
  BY <1>1, <1>2, <1>3, <1>4 DEF LessonRows
<1>6. \A r \in ReportIds : ~(written[r].live /\ written[r].l = l)
  BY <1>1, <1>2, KnownReports
<1>7. lesson'[l] \in LessonRows /\ marked'[l] \in SUBSET Learners /\ marked' \in [SeriesLessons -> SUBSET Learners]
      /\ \A t \in SeriesLessons \ {l} : SameRows(t)
  BY <1>1, <1>2, <1>3, <1>5 DEF SameRows
<1>8. LessonsFit' /\ ReportsAccounted' /\ SparesLessons(p)
  BY <1>1, <1>2, <1>5, <1>6, <1>7, OneChanges
<1> QED BY <1>1, <1>8, RequestsStay, LessonStep DEF LessonsSound

LEMMA PriceKeeps ==
    ASSUME LessonsSound, NEW p \in Instances, Price(p), UNCHANGED requestVars
    PROVE  LessonsSound'
<1> DEFINE c == run[p].cmd
           l == c.l
<1>1. /\ Doing(p, "price") /\ End(p) /\ lesson' = [lesson EXCEPT ![l].fee = c.fee]
      /\ UNCHANGED <<cohort, written, revisions, everLeft, approvedAs>> /\ marked' = marked
  BY DEF Price
<1>2. /\ l \in SeriesLessons /\ Sent(c) /\ c.op = "price" /\ HoldsLesson(p, l)
  BY <1>1, AboutOne DEF OfLessons
<1>3. lesson \in [SeriesLessons -> LessonRows] /\ marked \in [SeriesLessons -> SUBSET Learners]
  BY LessonTyping DEF LessonsSound
<1>4. c.fee \in Nat \cup {NoFee}
  BY <1>2 DEF Sent
<1> HIDE DEF c, l
<1>5. /\ lesson' \in [SeriesLessons -> LessonRows] /\ lesson'[l].there = lesson[l].there
      /\ lesson'[l].roster = lesson[l].roster /\ lesson'[l].teacher = lesson[l].teacher
      /\ \A t \in SeriesLessons \ {l} : lesson'[t] = lesson[t]
  BY <1>1, <1>2, <1>3, <1>4 DEF LessonRows
<1>6. lesson'[l] \in LessonRows /\ marked'[l] \in SUBSET Learners /\ marked' \in [SeriesLessons -> SUBSET Learners]
      /\ \A t \in SeriesLessons \ {l} : SameRows(t)
  BY <1>1, <1>2, <1>3, <1>5 DEF SameRows
<1>7. LessonsFit' /\ ReportsAccounted' /\ SparesLessons(p)
  BY <1>1, <1>2, <1>5, <1>6, OneChanges
<1> QED BY <1>1, <1>7, RequestsStay, LessonStep DEF LessonsSound

LEMMA LinkOrReleaseKeeps ==
    ASSUME LessonsSound, NEW p \in Instances, LinkOrRelease(p), UNCHANGED requestVars
    PROVE  LessonsSound'
<1> DEFINE l == run[p].cmd.l
<1>1. /\ Doing(p, "link") /\ End(p) /\ lesson' = [lesson EXCEPT ![l].linked = ~lesson[l].linked]
      /\ UNCHANGED <<cohort, written, revisions, everLeft, approvedAs>> /\ marked' = marked
  BY DEF LinkOrRelease
<1>2. /\ l \in SeriesLessons /\ HoldsLesson(p, l)
  BY <1>1, AboutOne DEF OfLessons
<1>3. lesson \in [SeriesLessons -> LessonRows] /\ marked \in [SeriesLessons -> SUBSET Learners]
  BY LessonTyping DEF LessonsSound
<1> HIDE DEF l
<1>4. (~lesson[l].linked) \in BOOLEAN
  BY <1>2, <1>3, RowFields
<1>5. /\ lesson' \in [SeriesLessons -> LessonRows] /\ lesson'[l].there = lesson[l].there
      /\ lesson'[l].roster = lesson[l].roster /\ lesson'[l].teacher = lesson[l].teacher
      /\ \A t \in SeriesLessons \ {l} : lesson'[t] = lesson[t]
  BY <1>1, <1>2, <1>3, <1>4 DEF LessonRows
<1>6. lesson'[l] \in LessonRows /\ marked'[l] \in SUBSET Learners /\ marked' \in [SeriesLessons -> SUBSET Learners]
      /\ \A t \in SeriesLessons \ {l} : SameRows(t)
  BY <1>1, <1>2, <1>3, <1>5 DEF SameRows
<1>7. LessonsFit' /\ ReportsAccounted' /\ SparesLessons(p)
  BY <1>1, <1>2, <1>5, <1>6, OneChanges
<1> QED BY <1>1, <1>7, RequestsStay, LessonStep DEF LessonsSound

LEMMA LeaveOrRejoinKeeps ==
    ASSUME LessonsSound, NEW p \in Instances, LeaveOrRejoin(p), UNCHANGED requestVars
    PROVE  LessonsSound'
<1> DEFINE x == run[p].cmd.x
<1>1. /\ "now" \in DOMAIN run[p].saw /\ run[p].cmd.op \in {"leave", "rejoin"} /\ End(p)
      /\ \/ cohort' = cohort \ {x} /\ everLeft' = everLeft \cup {x}
         \/ cohort' = cohort \cup {x} /\ everLeft' = everLeft
      /\ lesson' = lesson /\ marked' = marked /\ written' = written /\ revisions' = revisions
      /\ approvedAs' = approvedAs
  BY DEF LeaveOrRejoin, Doing
<1>2. x \in Learners
  BY <1>1, KnownLesson DEF Sent
<1> HIDE DEF x
<1>3. LessonsTyped' /\ everLeft \subseteq everLeft'
  BY <1>1, <1>2 DEF LessonsSound, LessonsFit, LessonsTyped
<1>4. \A l \in SeriesLessons : \A who : MayTakePart(l, who) => MayTakePart(l, who)'
  BY <1>1, <1>3 DEF MayTakePart
<1>5. LessonsFit'
  <2>1. \A l \in SeriesLessons : MarksFit(l)'
    BY <1>1, <1>4 DEF LessonsSound, LessonsFit, MarksFit
  <2>2. ASSUME NEW r \in ReportIds PROVE ReportNames(r)' /\ ReportFits(r)'
    <3>1. ReportNames(r) /\ ReportFits(r)
      BY DEF LessonsSound, LessonsFit
    <3> QED BY <1>1, <1>3, <3>1 DEF ReportNames, ReportFits, MayTakePart
  <2>3. OneReportEach'
    BY <1>1 DEF LessonsSound, LessonsFit, OneReportEach
  <2> QED BY <1>3, <2>1, <2>2, <2>3 DEF LessonsFit
<1>6. ReportsAccounted'
  <2>1. \A r : AccountFits(r) => AccountFits(r)'
    BY <1>1 DEF AccountFits, IsAccounted, Since
  <2> QED BY <1>1, <2>1 DEF LessonsSound, ReportsAccounted
<1>7. SparesLessons(p)
  BY <1>1, <1>3 DEF SparesLessons, SameLesson, ReportStays
<1> QED BY <1>1, <1>5, <1>6, <1>7, RequestsStay, LessonStep DEF LessonsSound

LEMMA AttendKeeps ==
    ASSUME LessonsSound, NEW p \in Instances, Attend(p), UNCHANGED requestVars
    PROVE  LessonsSound'
<1> DEFINE c == run[p].cmd
           l == c.l
           db == Saw(p)
           row == db.lesson[l]
           marks == db.marked[l] \cup {c.x}
           new == IF FactsComplete(row, marks, db.cohort) THEN HeldIfComplete(row, marks, db.cohort) ELSE lesson[l]
<1>1. /\ Doing(p, "attend") /\ End(p) /\ row.there /\ c.x \in Participants(row, db.cohort)
      /\ marked' = [marked EXCEPT ![l] = marked[l] \cup {c.x}] /\ lesson' = [lesson EXCEPT ![l] = new]
      /\ UNCHANGED <<cohort, written, revisions, everLeft, approvedAs>>
  BY DEF Attend, Exists
<1>2. /\ l \in SeriesLessons /\ Sent(c) /\ c.op = "attend" /\ HoldsLesson(p, l) /\ KnowsLesson(p, l) /\ SawTyped(p)
  BY <1>1, AboutOne DEF OfLessons
<1>3. lesson \in [SeriesLessons -> LessonRows] /\ marked \in [SeriesLessons -> SUBSET Learners]
  BY LessonTyping DEF LessonsSound
<1>4. row = lesson[l] /\ row \in LessonRows /\ c.x \in Learners /\ db.cohort \subseteq Learners
      /\ db.cohort \cup everLeft = Learners
  BY <1>2, <1>3 DEF KnowsLesson, SawTyped, Sent
<1> HIDE DEF c, l, db, row, marks
<1>5. /\ new \in LessonRows /\ new.there = row.there /\ new.teacher = row.teacher
      /\ new.roster = row.roster \/ (row.roster = {} /\ new.roster = db.cohort)
  BY <1>4, HeldRow
<1> HIDE DEF new
<1>6. /\ lesson' \in [SeriesLessons -> LessonRows] /\ marked' \in [SeriesLessons -> SUBSET Learners]
      /\ lesson'[l] = new /\ marked'[l] = marked[l] \cup {c.x} /\ marked[l] \cup {c.x} \in SUBSET Learners
      /\ \A t \in SeriesLessons \ {l} : SameRows(t)
  BY <1>1, <1>2, <1>3, <1>4, <1>5 DEF SameRows
<1>7. /\ new.roster = lesson[l].roster \/ new.roster \cup everLeft = Learners
      /\ new.there = lesson[l].there /\ new.there /\ new.teacher = lesson[l].teacher
  BY <1>1, <1>4, <1>5
<1>8. new.roster = {} \/ marked[l] \cup {c.x} \subseteq new.roster \cup marked[l]
  BY <1>1, <1>5 DEF Participants
<1>9. LessonsFit' /\ ReportsAccounted' /\ SparesLessons(p)
  BY <1>1, <1>2, <1>5, <1>6, <1>7, <1>8, OneChanges
<1> QED BY <1>1, <1>9, RequestsStay, LessonStep DEF LessonsSound

LEMMA ClearMarkKeeps ==
    ASSUME LessonsSound, NEW p \in Instances, ClearMark(p), UNCHANGED requestVars
    PROVE  LessonsSound'
<1> DEFINE c == run[p].cmd
           l == c.l
<1>1. /\ Doing(p, "clear") /\ End(p)
      /\ marked' = [marked EXCEPT ![l] = marked[l] \ {c.x}]
      /\ lesson' = [lesson EXCEPT ![l].status = "scheduled"] \/ lesson' = lesson
      /\ UNCHANGED <<cohort, written, revisions, everLeft, approvedAs>>
  BY DEF ClearMark
<1>2. /\ l \in SeriesLessons /\ HoldsLesson(p, l)
  BY <1>1, AboutOne DEF OfLessons
<1>3. lesson \in [SeriesLessons -> LessonRows] /\ marked \in [SeriesLessons -> SUBSET Learners]
  BY LessonTyping DEF LessonsSound
<1> HIDE DEF c, l
<1>4. /\ lesson' \in [SeriesLessons -> LessonRows] /\ lesson'[l].there = lesson[l].there
      /\ lesson'[l].roster = lesson[l].roster /\ lesson'[l].teacher = lesson[l].teacher
      /\ \A t \in SeriesLessons \ {l} : lesson'[t] = lesson[t]
  BY <1>1, <1>2, <1>3 DEF LessonRows, Statuses
<1>5. /\ marked' \in [SeriesLessons -> SUBSET Learners] /\ marked'[l] \subseteq marked[l]
      /\ lesson'[l] \in LessonRows /\ marked'[l] \in SUBSET Learners /\ \A t \in SeriesLessons \ {l} : SameRows(t)
  BY <1>1, <1>2, <1>3, <1>4 DEF SameRows
<1>6. LessonsFit' /\ ReportsAccounted' /\ SparesLessons(p)
  BY <1>1, <1>2, <1>4, <1>5, OneChanges
<1> QED BY <1>1, <1>6, RequestsStay, LessonStep DEF LessonsSound

-----------------------------------------------------------------------------
(* Commands that write reports.                                            *)
LEMMA AccountsStay ==
    ASSUME LessonsFit, ReportsAccounted, UNCHANGED <<revisions, approvedAs>>,
           \A r \in ReportIds :
              /\ written'[r].version \in Nat /\ written[r].version <= written'[r].version
              /\ written'[r].live /\ written'[r].approval = "approved" =>
                    /\ written[r].live /\ written[r].approval = "approved"
                    /\ written'[r].version = written[r].version /\ written'[r].text = written[r].text
    PROVE  ReportsAccounted'
<1>1. revisions' = revisions /\ approvedAs' = approvedAs
  OBVIOUS
<1>2. ASSUME NEW r \in ReportIds PROVE AccountFits(r)'
  <2>1. AccountFits(r) /\ written[r].version \in Nat /\ approvedAs[r].version \in Nat
        /\ \A v \in revisions : v.version \in Nat
    BY LessonTyping DEF ReportsAccounted
  <2>2. \A v \in revisions' : v.r = r => v.version < written'[r].version
    BY <1>1, <2>1 DEF AccountFits
  <2>3. approvedAs'[r].version <= written'[r].version
    BY <1>1, <2>1 DEF AccountFits
  <2>4. ASSUME written'[r].live, written'[r].approval = "approved" PROVE IsAccounted(r)'
    <3>1. IsAccounted(r) /\ written'[r].version = written[r].version /\ written'[r].text = written[r].text
      BY <2>1, <2>4 DEF AccountFits
    <3> QED BY <1>1, <3>1 DEF IsAccounted, Since, Accounts
  <2> QED BY <2>2, <2>3, <2>4 DEF AccountFits
<1> QED BY <1>1, <1>2 DEF ReportsAccounted

LEMMA RemoveLessonKeeps ==
    ASSUME LessonsSound, NEW p \in Instances, RemoveLesson(p), UNCHANGED requestVars
    PROVE  LessonsSound'
<1> DEFINE c == run[p].cmd
           targets == LessonTargets(Saw(p), c)
<1>1. /\ "now" \in DOMAIN run[p].saw /\ c.op = "remove" /\ End(p)
      /\ lesson' = [l \in SeriesLessons |-> IF l \in targets THEN [lesson[l] EXCEPT !.there = FALSE] ELSE lesson[l]]
      /\ marked' = [l \in SeriesLessons |-> IF l \in targets THEN {} ELSE marked[l]]
      /\ written' = [r \in ReportIds |->
                       IF written[r].l \in targets THEN [written[r] EXCEPT !.live = FALSE] ELSE written[r]]
      /\ cohort' = cohort /\ revisions' = revisions /\ everLeft' = everLeft /\ approvedAs' = approvedAs
  BY DEF RemoveLesson, Doing
<1>2. targets \subseteq SeriesLessons /\ \A l \in targets : HoldsLesson(p, l)
  <2>1. c.op # "none" /\ c.op \in OfLessons
    BY <1>1 DEF OfLessons
  <2> QED BY <1>1, <2>1, KnownLesson
<1> HIDE DEF c, targets
<1>3. /\ lesson \in [SeriesLessons -> LessonRows] /\ marked \in [SeriesLessons -> SUBSET Learners]
      /\ written \in [ReportIds -> ReportRows] /\ OneReportEach
      /\ \A l \in SeriesLessons : MarksFit(l)
      /\ \A r \in ReportIds : ReportNames(r) /\ ReportFits(r)
  BY LessonTyping DEF LessonsSound, LessonsFit
<1>4. /\ lesson' \in [SeriesLessons -> LessonRows] /\ marked' \in [SeriesLessons -> SUBSET Learners]
      /\ \A l \in SeriesLessons \ targets : lesson'[l] = lesson[l] /\ marked'[l] = marked[l]
      /\ \A l \in targets : marked'[l] = {}
  <2>1. \A l \in SeriesLessons : [lesson[l] EXCEPT !.there = FALSE] \in LessonRows
    BY <1>3 DEF LessonRows
  <2> QED BY <1>1, <1>2, <1>3, <2>1
<1>5. ASSUME NEW r \in ReportIds
      PROVE  /\ written'[r] \in ReportRows /\ written'[r].version = written[r].version /\ written'[r].l = written[r].l
             /\ written'[r].x = written[r].x /\ written'[r].text = written[r].text
             /\ written'[r].approval = written[r].approval /\ written'[r].teacher = written[r].teacher
             /\ written'[r].live => written[r].live
             /\ written[r].l \notin targets => written'[r] = written[r]
             /\ written[r].l \in targets => ~written'[r].live
  <2>1. CASE written[r].l \in targets
    <3>1. written'[r] = [written[r] EXCEPT !.live = FALSE]
      BY <1>1, <2>1
    <3> QED BY <1>3, <2>1, <3>1 DEF ReportRows
  <2>2. CASE written[r].l \notin targets
    BY <1>1, <1>3, <2>2
  <2> QED BY <2>1, <2>2
<1>6. written' \in [ReportIds -> ReportRows]
  BY <1>1, <1>5
<1>7. LessonsTyped'
  BY <1>1, <1>4, <1>6 DEF LessonsSound, LessonsFit, LessonsTyped
<1>8. \A l \in SeriesLessons : MarksFit(l)'
  BY <1>1, <1>3, <1>4 DEF MarksFit, MayTakePart
<1>9. ASSUME NEW r \in ReportIds PROVE ReportNames(r)' /\ ReportFits(r)'
  <2>1. ReportNames(r)'
    <3>1. CASE written[r] = NoReport
      <4>1. written[r].l \notin targets
        BY <1>2, <3>1, LessonIdsAssumption DEF NoReport
      <4> QED BY <1>5, <3>1, <4>1 DEF ReportNames
    <3>2. CASE written[r] # NoReport
      BY <1>3, <1>5, <3>2 DEF ReportNames
    <3> QED BY <3>1, <3>2
  <2>2. ReportFits(r)'
    <3>1. CASE written'[r].live
      <4>1. written[r].l \notin targets /\ written'[r] = written[r] /\ written[r].live
        BY <1>5, <3>1
      <4>2. written[r].l \in SeriesLessons \ targets
        <5>1. written[r] # NoReport
          BY <4>1 DEF NoReport
        <5> QED BY <1>3, <4>1, <5>1 DEF ReportNames
      <4> QED BY <1>1, <1>3, <1>4, <4>1, <4>2 DEF ReportFits, MayTakePart
    <3>2. CASE ~written'[r].live
      BY <3>2 DEF ReportFits
    <3> QED BY <3>1, <3>2
  <2> QED BY <2>1, <2>2
<1>10. OneReportEach'
  BY <1>3, <1>5 DEF OneReportEach
<1>11. LessonsFit'
  BY <1>7, <1>8, <1>9, <1>10 DEF LessonsFit
<1>12. ReportsAccounted'
  <2>1. \A r \in ReportIds : written[r].version \in Nat
    BY LessonTyping DEF LessonsSound
  <2> QED BY <1>1, <1>5, <2>1, AccountsStay DEF LessonsSound
<1>13. SparesLessons(p)
  <2>1. \A l \in SeriesLessons : HoldsLesson(p, l) \/ SameLesson(l)
    BY <1>2, <1>4, <1>5 DEF SameLesson
  <2>2. \A l \in SeriesLessons : lesson'[l].there => lesson[l].there
    BY <1>1, <1>3 DEF LessonRows
  <2> QED BY <1>1, <1>5, <2>1, <2>2 DEF SparesLessons, ReportStays
<1> QED BY <1>1, <1>11, <1>12, <1>13, RequestsStay, LessonStep DEF LessonsSound

LEMMA AboutReport ==
    ASSUME LessonsSound, NEW p \in Instances, NEW op, Doing(p, op), op \in OfReports
    PROVE  /\ run[p].cmd.r \in ReportIds /\ run[p].cmd.l \in SeriesLessons /\ run[p].cmd.l = written[run[p].cmd.r].l
           /\ written[run[p].cmd.r].version > 0 /\ Report(p) = Stored(p) /\ Sent(run[p].cmd) /\ run[p].cmd.op = op
           /\ HoldsLesson(p, run[p].cmd.l) /\ KnowsLesson(p, run[p].cmd.l) /\ SawTyped(p)
<1>1. run[p].cmd.op = op /\ op # "none" /\ "now" \in DOMAIN run[p].saw
  BY DEF Doing, OfReports
<1>2. /\ Sent(run[p].cmd) /\ NamesReport(p) /\ run[p].cmd.l \in SeriesLessons /\ SawTyped(p)
      /\ HoldsLesson(p, run[p].cmd.l) /\ KnowsLesson(p, run[p].cmd.l)
  BY <1>1, KnownLesson
<1>3. run[p].cmd.r \in ReportIds /\ run[p].cmd.l = written[run[p].cmd.r].l /\ written[run[p].cmd.r].version > 0
  BY <1>1, <1>2 DEF Sent, NamesReport
<1>4. Report(p) = Stored(p)
  BY <1>2, <1>3 DEF Report, Stored, KnowsLesson
<1> QED BY <1>1, <1>2, <1>3, <1>4

(* A report changes, and its lesson may become held.                       *)
LEMMA ReportChanges ==
    ASSUME LessonsSound, NEW p \in Instances, NEW r \in ReportIds, NEW row \in ReportRows, NEW l \in SeriesLessons,
           UNCHANGED <<marked, cohort, everLeft>>, HoldsLesson(p, l), l = written[r].l, written[r].version > 0,
           written' = [written EXCEPT ![r] = row],
           row.l = l, row.x = written[r].x, row.teacher = written[r].teacher, row.version > 0,
           row.live => written[r].live,
           lesson' \in [SeriesLessons -> LessonRows], \A t \in SeriesLessons \ {l} : lesson'[t] = lesson[t],
           lesson'[l].there = lesson[l].there, lesson'[l].teacher = lesson[l].teacher,
           lesson'[l].roster = lesson[l].roster \/ lesson'[l].roster \cup everLeft = Learners
    PROVE  LessonsFit' /\ SparesLessons(p)
<1>1. /\ lesson \in [SeriesLessons -> LessonRows] /\ marked \in [SeriesLessons -> SUBSET Learners]
      /\ written \in [ReportIds -> ReportRows] /\ OneReportEach
      /\ \A t \in SeriesLessons : MarksFit(t)
      /\ \A q \in ReportIds : ReportNames(q) /\ ReportFits(q)
  BY LessonTyping DEF LessonsSound, LessonsFit
<1>2. /\ written' \in [ReportIds -> ReportRows] /\ written'[r] = row
      /\ \A q \in ReportIds \ {r} : written'[q] = written[q]
      /\ marked' = marked /\ cohort' = cohort /\ everLeft' = everLeft
  BY <1>1
<1>3. LessonsTyped'
  BY <1>2 DEF LessonsSound, LessonsFit, LessonsTyped
<1>4. ASSUME NEW t \in SeriesLessons, NEW who \in SUBSET Learners, MayTakePart(t, who) PROVE MayTakePartNext(t, who)
  BY <1>2, <1>4 DEF MayTakePart, MayTakePartNext
<1>5. \A t \in SeriesLessons : lesson'[t].there = lesson[t].there /\ lesson'[t].teacher = lesson[t].teacher
  OBVIOUS
<1>6. ASSUME NEW t \in SeriesLessons PROVE MarksFit(t)'
  <2>1. MarksFit(t) /\ marked[t] \in SUBSET Learners
    BY <1>1
  <2>2. MayTakePartNext(t, marked[t])
    BY <1>4, <2>1 DEF MarksFit
  <2> QED BY <1>2, <1>5, <2>1, <2>2 DEF MarksFit, MayTakePart, MayTakePartNext
<1>7. ASSUME NEW q \in ReportIds
      PROVE  /\ written'[q].l = written[q].l /\ written'[q].x = written[q].x /\ written'[q].teacher = written[q].teacher
             /\ written[q].version > 0 => written'[q].version > 0
             /\ written'[q].live => written[q].live
             /\ written'[q] # written[q] => q = r
  BY <1>2
<1>8. ASSUME NEW q \in ReportIds PROVE ReportNames(q)'
  <2>1. CASE q = r
    <3>1. written[r] # NoReport
      BY DEF NoReport
    <3> QED BY <1>1, <1>2, <2>1, <3>1 DEF ReportNames
  <2>2. CASE q # r
    BY <1>1, <1>2, <2>2 DEF ReportNames
  <2> QED BY <2>1, <2>2
<1>9. ASSUME NEW q \in ReportIds PROVE ReportFits(q)'
  <2> SUFFICES ASSUME NEW t, NEW x, t = written[q].l, x = written[q].x, written'[q].live
               PROVE  /\ written'[q].version > 0 /\ MayTakePartNext(t, {x}) /\ lesson'[t].there
                      /\ written'[q].teacher = lesson'[t].teacher /\ lesson'[t].teacher # NoLecturer
    BY <1>7 DEF ReportFits, MayTakePart, MayTakePartNext
  <2>1. written[q].live /\ written[q] # NoReport
    BY <1>7 DEF NoReport
  <2>2. /\ written[q].version > 0 /\ MayTakePart(t, {x}) /\ lesson[t].there
        /\ written[q].teacher = lesson[t].teacher /\ lesson[t].teacher # NoLecturer
    BY <1>1, <2>1 DEF ReportFits
  <2>3. t \in SeriesLessons /\ {x} \in SUBSET Learners
    BY <1>1, <2>1 DEF ReportNames
  <2> QED BY <1>4, <1>5, <1>7, <2>2, <2>3
<1>10. OneReportEach'
  BY <1>1, <1>7 DEF OneReportEach
<1>11. LessonsFit'
  BY <1>3, <1>6, <1>8, <1>9, <1>10 DEF LessonsFit
<1>12. SparesLessons(p)
  <2>1. \A t \in SeriesLessons : HoldsLesson(p, t) \/ SameLesson(t)
    BY <1>2, <1>7 DEF SameLesson
  <2> QED BY <1>2, <1>5, <1>7, <2>1 DEF SparesLessons, ReportStays
<1> QED BY <1>11, <1>12

(* One that leaves the lessons alone.                                      *)
LEMMA SetReportFits ==
    ASSUME LessonsSound, NEW p \in Instances, NEW op \in OfReports, Doing(p, op), NEW row \in ReportRows, SetReport(p, row),
           UNCHANGED <<lesson, marked, cohort, everLeft>>,
           row.l = Stored(p).l, row.x = Stored(p).x, row.teacher = Stored(p).teacher,
           Stored(p).version <= row.version, row.live => Stored(p).live
    PROVE  LessonsFit' /\ SparesLessons(p)
<1> DEFINE r == run[p].cmd.r
           l == run[p].cmd.l
<1>1. r \in ReportIds /\ l \in SeriesLessons /\ l = written[r].l /\ written[r].version > 0 /\ HoldsLesson(p, l)
  BY AboutReport
<1>2. lesson \in [SeriesLessons -> LessonRows] /\ written[r].version \in Nat /\ row.version \in Nat
  BY <1>1, LessonTyping, ReportFields DEF LessonsSound
<1>3. Stored(p) = written[r] /\ written' = [written EXCEPT ![r] = row]
  BY DEF Stored, SetReport
<1> HIDE DEF r, l
<1>4. row.version > 0 /\ lesson' = lesson /\ row.l = l /\ row.x = written[r].x /\ row.teacher = written[r].teacher
      /\ (row.live => written[r].live)
  BY <1>1, <1>2, <1>3
<1> QED BY <1>1, <1>2, <1>3, <1>4, ReportChanges

(* ... and what the texts rest on.                                         *)
LEMMA SetReportAccounts ==
    ASSUME LessonsSound, NEW p \in Instances, NEW op \in OfReports, Doing(p, op), NEW row \in ReportRows, SetReport(p, row),
           UNCHANGED <<revisions, approvedAs>>,
           Stored(p).version <= row.version, row.live /\ row.approval = "approved" => row = Stored(p)
    PROVE  ReportsAccounted'
<1> DEFINE r == run[p].cmd.r
<1>1. r \in ReportIds
  BY AboutReport
<1>2. written \in [ReportIds -> ReportRows] /\ row.version \in Nat /\ \A q \in ReportIds : written[q].version \in Nat
  BY LessonTyping, ReportFields DEF LessonsSound
<1>3. Stored(p) = written[r] /\ written' = [written EXCEPT ![r] = row]
  BY DEF Stored, SetReport
<1> HIDE DEF r
<1>4. written'[r] = row /\ \A q \in ReportIds \ {r} : written'[q] = written[q]
  BY <1>1, <1>2, <1>3
<1> QED BY <1>1, <1>2, <1>3, <1>4, AccountsStay DEF LessonsSound

(* What reports.service makes of a row.                                    *)
SameReport(row, old) == row.l = old.l /\ row.x = old.x /\ row.teacher = old.teacher /\ row.live = old.live

Rewritten(old, text) == [old EXCEPT !.text = text, !.version = old.version + 1]

LEMMA RewrittenReport ==
    ASSUME NEW old \in ReportRows, NEW text \in Nat
    PROVE  /\ Rewritten(old, text) \in ReportRows /\ SameReport(Rewritten(old, text), old)
           /\ Rewritten(old, text).approval = old.approval
           /\ Rewritten(old, text).version = old.version + 1 /\ Rewritten(old, text).text = text
<1> DEFINE version == old.version + 1
           row == Rewritten(old, text)
<1>1. version \in Nat /\ row = [old EXCEPT !.text = text, !.version = version]
  BY DEF ReportRows, Rewritten
<1> HIDE DEF version, row
<1>2. row \in ReportRows /\ SameReport(row, old) /\ row.approval = old.approval /\ row.version = version /\ row.text = text
  BY <1>1 DEF ReportRows, SameReport
<1> QED BY <1>2 DEF version, row

LEMMA DecidedReport ==
    ASSUME NEW old \in ReportRows, NEW approval \in {"approved", "rejected"}, NEW row,
           row = [old EXCEPT !.approval = approval]
    PROVE  /\ row \in ReportRows /\ SameReport(row, old) /\ row.approval = approval
           /\ row.version = old.version /\ row.text = old.text
BY DEF ReportRows, SameReport

LEMMA SubmittedReport ==
    ASSUME NEW old \in ReportRows, NEW row, row = [old EXCEPT !.status = "submitted", !.approval = "submitted"]
    PROVE  row \in ReportRows /\ SameReport(row, old) /\ row.approval = "submitted" /\ row.version = old.version
BY DEF ReportRows, SameReport

LEMMA WithdrawnReport ==
    ASSUME NEW old \in ReportRows, NEW row, row = [old EXCEPT !.live = FALSE]
    PROVE  /\ row \in ReportRows /\ row.l = old.l /\ row.x = old.x /\ row.teacher = old.teacher
           /\ ~row.live /\ row.version = old.version
BY DEF ReportRows

LEMMA RewriteKeeps ==
    ASSUME LessonsSound, NEW p \in Instances, Rewrite(p), UNCHANGED requestVars
    PROVE  LessonsSound'
<1> DEFINE row == [Stored(p) EXCEPT !.text = run[p].cmd.text, !.version = Stored(p).version + 1]
<1>1. /\ Doing(p, "rewrite") /\ "rewrite" \in OfReports /\ Report(p).approval # "approved" /\ SetReport(p, row) /\ End(p)
      /\ UNCHANGED <<lesson, marked, cohort, everLeft>> /\ UNCHANGED <<revisions, approvedAs>>
  BY DEF Rewrite, MayRewrite, OfReports
<1>2. run[p].cmd.r \in ReportIds /\ Sent(run[p].cmd) /\ Report(p) = Stored(p) /\ run[p].cmd.op = "rewrite"
  BY <1>1, AboutReport
<1>3. Stored(p) \in ReportRows /\ run[p].cmd.text \in Nat
  BY <1>2, LessonTyping DEF LessonsSound, Stored, Sent
<1>4. row \in ReportRows /\ SameReport(row, Stored(p)) /\ row.approval = Stored(p).approval
      /\ row.version = Stored(p).version + 1
  <2>1. row = Rewritten(Stored(p), run[p].cmd.text)
    BY DEF Rewritten
  <2> HIDE DEF row
  <2> QED BY <1>3, <2>1, RewrittenReport
<1> HIDE DEF row
<1>5. /\ row.l = Stored(p).l /\ row.x = Stored(p).x /\ row.teacher = Stored(p).teacher
      /\ Stored(p).version <= row.version /\ (row.live => Stored(p).live) /\ row.approval # "approved"
  BY <1>1, <1>2, <1>3, <1>4, ReportFields DEF SameReport
<1>6. LessonsFit' /\ ReportsAccounted' /\ SparesLessons(p)
  BY <1>1, <1>4, <1>5, SetReportFits, SetReportAccounts
<1> QED BY <1>1, <1>6, RequestsStay, LessonStep DEF LessonsSound

LEMMA WithdrawDraftKeeps ==
    ASSUME LessonsSound, NEW p \in Instances, WithdrawDraft(p), UNCHANGED requestVars
    PROVE  LessonsSound'
<1> DEFINE row == [Stored(p) EXCEPT !.live = FALSE]
<1>1. /\ Doing(p, "withdraw") /\ "withdraw" \in OfReports /\ SetReport(p, row) /\ End(p)
      /\ UNCHANGED <<lesson, marked, cohort, everLeft>> /\ UNCHANGED <<revisions, approvedAs>>
  BY DEF WithdrawDraft, OfReports
<1>2. run[p].cmd.r \in ReportIds
  BY <1>1, AboutReport
<1>3. Stored(p) \in ReportRows
  BY <1>2, LessonTyping DEF LessonsSound, Stored
<1>4. /\ row \in ReportRows /\ row.l = Stored(p).l /\ row.x = Stored(p).x /\ row.teacher = Stored(p).teacher
      /\ ~row.live /\ row.version = Stored(p).version
  BY <1>3, WithdrawnReport
<1> HIDE DEF row
<1>5. Stored(p).version <= row.version
  BY <1>3, <1>4, ReportFields
<1>6. LessonsFit' /\ ReportsAccounted' /\ SparesLessons(p)
  BY <1>1, <1>4, <1>5, SetReportFits, SetReportAccounts
<1> QED BY <1>1, <1>6, RequestsStay, LessonStep DEF LessonsSound

LEMMA SubmitKeeps ==
    ASSUME LessonsSound, NEW p \in Instances, Submit(p), UNCHANGED requestVars
    PROVE  LessonsSound'
<1> DEFINE row == [Stored(p) EXCEPT !.status = "submitted", !.approval = "submitted"]
<1>1. /\ Doing(p, "submit") /\ "submit" \in OfReports /\ SetReport(p, row) /\ End(p)
      /\ UNCHANGED <<lesson, marked, cohort, everLeft>> /\ UNCHANGED <<revisions, approvedAs>>
  BY DEF Submit, OfReports
<1>2. run[p].cmd.r \in ReportIds
  BY <1>1, AboutReport
<1>3. Stored(p) \in ReportRows
  BY <1>2, LessonTyping DEF LessonsSound, Stored
<1>4. row \in ReportRows /\ SameReport(row, Stored(p)) /\ row.approval = "submitted" /\ row.version = Stored(p).version
  BY <1>3, SubmittedReport
<1> HIDE DEF row
<1>5. /\ row.l = Stored(p).l /\ row.x = Stored(p).x /\ row.teacher = Stored(p).teacher
      /\ Stored(p).version <= row.version /\ (row.live => Stored(p).live) /\ row.approval # "approved"
  BY <1>3, <1>4, ReportFields DEF SameReport
<1>6. LessonsFit' /\ ReportsAccounted' /\ SparesLessons(p)
  BY <1>1, <1>4, <1>5, SetReportFits, SetReportAccounts
<1> QED BY <1>1, <1>6, RequestsStay, LessonStep DEF LessonsSound

LEMMA RejectReportKeeps ==
    ASSUME LessonsSound, NEW p \in Instances, RejectReport(p), UNCHANGED requestVars
    PROVE  LessonsSound'
<1> DEFINE row == [Stored(p) EXCEPT !.approval = "rejected"]
<1>1. /\ Doing(p, "reject") /\ "reject" \in OfReports /\ SetReport(p, row) /\ End(p)
      /\ UNCHANGED <<lesson, marked, cohort, everLeft>> /\ UNCHANGED <<revisions, approvedAs>>
  BY DEF RejectReport, OfReports
<1>2. run[p].cmd.r \in ReportIds
  BY <1>1, AboutReport
<1>3. Stored(p) \in ReportRows
  BY <1>2, LessonTyping DEF LessonsSound, Stored
<1>4. row \in ReportRows /\ SameReport(row, Stored(p)) /\ row.approval = "rejected" /\ row.version = Stored(p).version
  BY <1>3, DecidedReport
<1> HIDE DEF row
<1>5. /\ row.l = Stored(p).l /\ row.x = Stored(p).x /\ row.teacher = Stored(p).teacher
      /\ Stored(p).version <= row.version /\ (row.live => Stored(p).live) /\ row.approval # "approved"
  BY <1>3, <1>4, ReportFields DEF SameReport
<1>6. LessonsFit' /\ ReportsAccounted' /\ SparesLessons(p)
  BY <1>1, <1>4, <1>5, SetReportFits, SetReportAccounts
<1> QED BY <1>1, <1>6, RequestsStay, LessonStep DEF LessonsSound

LEMMA ApproveKeeps ==
    ASSUME LessonsSound, NEW p \in Instances, Approve(p), UNCHANGED requestVars
    PROVE  LessonsSound'
<1> DEFINE c == run[p].cmd
           r == c.r
           l == c.l
           db == Saw(p)
           seen == db.lesson[Report(p).l]
           marks == db.marked[l]
           new == IF FactsComplete(seen, marks, db.cohort) THEN HeldIfComplete(seen, marks, db.cohort) ELSE lesson[l]
           row == [Stored(p) EXCEPT !.approval = "approved"]
<1>1. /\ Doing(p, "approve") /\ "approve" \in OfReports /\ written' = [written EXCEPT ![r] = row] /\ End(p)
      /\ lesson' = [lesson EXCEPT ![l] = new]
      /\ approvedAs' = [approvedAs EXCEPT ![r] = [version |-> Stored(p).version, text |-> Stored(p).text]]
      /\ marked' = marked /\ cohort' = cohort /\ revisions' = revisions /\ everLeft' = everLeft
  BY DEF Approve, OfReports, SetReport
<1>2. /\ r \in ReportIds /\ l \in SeriesLessons /\ l = written[r].l /\ written[r].version > 0 /\ Report(p) = Stored(p)
      /\ HoldsLesson(p, l) /\ KnowsLesson(p, l) /\ SawTyped(p) /\ Stored(p) = written[r]
  BY <1>1, AboutReport DEF Stored
<1>3. /\ lesson \in [SeriesLessons -> LessonRows] /\ written \in [ReportIds -> ReportRows]
      /\ \A q \in ReportIds : written[q].version \in Nat
  BY LessonTyping DEF LessonsSound
<1>4. seen = lesson[l] /\ seen \in LessonRows /\ db.cohort \in SUBSET Learners /\ db.cohort \cup everLeft = Learners
  BY <1>2, <1>3 DEF KnowsLesson, SawTyped
<1>5. Stored(p) \in ReportRows
  BY <1>2, <1>3
<1>6. row \in ReportRows /\ SameReport(row, Stored(p)) /\ row.version = Stored(p).version /\ row.text = Stored(p).text
  BY <1>5, DecidedReport
<1> HIDE DEF c, r, l, db, seen, marks, row
<1>7. /\ new \in LessonRows /\ new.there = lesson[l].there /\ new.teacher = lesson[l].teacher
      /\ new.roster = lesson[l].roster \/ new.roster \cup everLeft = Learners
  <2>1. CASE FactsComplete(seen, marks, db.cohort)
    <3>1. new = HeldIfComplete(seen, marks, db.cohort)
      BY <2>1
    <3> HIDE DEF new
    <3> QED BY <1>4, <3>1, HeldRow
  <2>2. CASE ~FactsComplete(seen, marks, db.cohort)
    <3>1. new = lesson[l]
      BY <2>2
    <3> HIDE DEF new
    <3> QED BY <1>2, <1>3, <3>1
  <2> QED BY <2>1, <2>2
<1> HIDE DEF new
<1>8. /\ lesson' \in [SeriesLessons -> LessonRows] /\ lesson'[l] = new
      /\ \A t \in SeriesLessons \ {l} : lesson'[t] = lesson[t]
  BY <1>1, <1>2, <1>3, <1>7
<1>9. /\ row.l = l /\ row.x = written[r].x /\ row.teacher = written[r].teacher /\ row.version > 0
      /\ row.live => written[r].live
  BY <1>2, <1>6 DEF SameReport
<1>10. LessonsFit' /\ SparesLessons(p)
  BY <1>1, <1>2, <1>6, <1>7, <1>8, <1>9, ReportChanges
<1>11. ReportsAccounted'
  <2>1. /\ approvedAs \in [ReportIds -> [version : Nat, text : Nat]] /\ IsFiniteSet(revisions)
        /\ \A v \in revisions : v.version \in Nat
        /\ \A q \in ReportIds : AccountFits(q)
    BY DEF LessonsSound, ReportsAccounted
  <2>2. /\ written'[r] = row /\ \A q \in ReportIds \ {r} : written'[q] = written[q] /\ approvedAs'[q] = approvedAs[q]
    BY <1>1, <1>2, <1>3, <2>1
  <2>3. approvedAs'[r].version = written[r].version /\ approvedAs'[r].text = written[r].text
    BY <1>1, <1>2, <2>1
  <2>4. approvedAs' \in [ReportIds -> [version : Nat, text : Nat]]
    <3>1. Stored(p).version \in Nat /\ Stored(p).text \in Nat
      BY <1>5, ReportFields
    <3> QED BY <1>1, <1>2, <2>1, <3>1
  <2>5. ASSUME NEW q \in ReportIds, q = r PROVE AccountFits(q)'
    <3>1. \A v \in revisions : v.r = q => v.version < written[q].version
      BY <2>1 DEF AccountFits
    <3>2. {v \in revisions : v.r = q /\ v.version >= written[q].version} = {}
      BY <1>3, <2>1, <3>1
    <3>3. /\ written'[q].version = written[q].version /\ written'[q].text = written[q].text
          /\ approvedAs'[q].version = written[q].version /\ approvedAs'[q].text = written[q].text
          /\ written[q].version \in Nat
      BY <1>2, <1>3, <1>6, <2>2, <2>3, <2>5
    <3>4. Since(q)' = {}
      BY <1>1, <3>2, <3>3 DEF Since
    <3>5. Cardinality({}) = 0 /\ written[q].version - written[q].version = 0
      BY <3>3, FS_EmptySet
    <3>6. IsAccounted(q)'
      BY <3>3, <3>4, <3>5 DEF IsAccounted, Accounts, LeftBy
    <3> QED BY <1>1, <3>1, <3>3, <3>6 DEF AccountFits
  <2>6. ASSUME NEW q \in ReportIds \ {r} PROVE AccountFits(q)'
    <3>1. AccountFits(q) /\ written'[q] = written[q] /\ approvedAs'[q] = approvedAs[q] /\ revisions' = revisions
      BY <1>1, <2>1, <2>2
    <3> QED BY <3>1 DEF AccountFits, IsAccounted, Since
  <2> QED BY <1>1, <2>1, <2>4, <2>5, <2>6 DEF ReportsAccounted
<1> QED BY <1>1, <1>10, <1>11, RequestsStay, LessonStep DEF LessonsSound

(* A revision continues the account of the text it was made of.            *)
LEMMA RevisedAccounts ==
    ASSUME NEW since, IsFiniteSet(since), NEW as, NEW old, NEW row, NEW entry,
           old.version \in Nat, as.version \in Nat, as.version <= old.version,
           \A v \in since : v.version \in Nat /\ v.version < old.version,
           Accounts(since, as, old), entry.version = old.version, entry.from = old.text, entry.to = row.text,
           row.version = old.version + 1
    PROVE  Accounts(since \cup {entry}, as, row)
<1> SUFFICES ASSUME NEW n \in Nat, NEW a \in Nat, NEW all, n = old.version, a = as.version, all = since \cup {entry}
             PROVE  Accounts(all, as, row)
  OBVIOUS
<1>1. ASSUME NEW m \in Nat, m <= n PROVE LeftBy(all, as, m) = LeftBy(since, as, m)
  <2>1. {u \in all : u.version = m - 1} = {u \in since : u.version = m - 1}
    BY <1>1
  <2> QED BY <2>1 DEF LeftBy
<1>2. LeftBy(all, as, n + 1) = {row.text}
  <2>1. {u \in all : u.version = (n + 1) - 1} = {entry}
    <3>1. \A k \in Nat : (k + 1) - 1 = k
      OBVIOUS
    <3>2. {u \in all : u.version = n} = {entry}
      OBVIOUS
    <3> QED BY <3>1, <3>2
  <2>2. n + 1 # as.version
    <3>1. \A k, j \in Nat : j <= k => k + 1 # j
      OBVIOUS
    <3> QED BY <3>1
  <2>3. {v.to : v \in {entry}} = {row.text}
    OBVIOUS
  <2> QED BY <2>1, <2>2, <2>3 DEF LeftBy
<1>3. /\ Cardinality(since) = n - a /\ LeftBy(since, as, n) = {old.text}
      /\ \A v \in since : LeftBy(since, as, v.version) = {v.from}
  BY DEF Accounts
<1>4. Cardinality(all) = row.version - as.version
  <2>1. entry \notin since
    OBVIOUS
  <2>2. Cardinality(all) = Cardinality(since) + 1
    BY <2>1, FS_AddElement
  <2>3. \A k, j \in Nat : (k - j) + 1 = (k + 1) - j
    OBVIOUS
  <2> QED BY <1>3, <2>2, <2>3
<1>5. ASSUME NEW v \in all PROVE LeftBy(all, as, v.version) = {v.from}
  <2>1. CASE v = entry
    <3>1. v.version = n /\ n <= n /\ v.from = old.text
      BY <2>1
    <3> QED BY <1>1, <1>3, <3>1
  <2>2. CASE v \in since
    <3>1. v.version \in Nat /\ v.version <= n
      BY <2>2
    <3> QED BY <1>1, <1>3, <2>2, <3>1
  <2> QED BY <2>1, <2>2
<1> QED BY <1>2, <1>4, <1>5 DEF Accounts

LEMMA ReviseKeeps ==
    ASSUME LessonsSound, NEW p \in Instances, Revise(p), UNCHANGED requestVars
    PROVE  LessonsSound'
<1> SUFFICES ASSUME NEW r, NEW old, NEW text, r = run[p].cmd.r, old = Stored(p), text = run[p].cmd.text
             PROVE  LessonsSound'
  OBVIOUS
<1> DEFINE row == [old EXCEPT !.text = text, !.version = old.version + 1]
           entry == [r |-> r, version |-> old.version, from |-> old.text, to |-> text]
<1>1. /\ Doing(p, "revise") /\ "revise" \in OfReports /\ Report(p).live /\ Report(p).approval = "approved"
      /\ SetReport(p, row) /\ End(p) /\ UNCHANGED <<lesson, marked, cohort, everLeft>> /\ approvedAs' = approvedAs
      /\ revisions' = revisions \cup {[r |-> r, version |-> Report(p).version, from |-> Report(p).text, to |-> text]}
  BY DEF Revise, OfReports
<1>2. r \in ReportIds /\ Report(p) = old /\ old = written[r] /\ Sent(run[p].cmd) /\ run[p].cmd.op = "revise"
  BY <1>1, AboutReport DEF Stored
<1>3. old \in ReportRows /\ text \in Nat /\ written \in [ReportIds -> ReportRows]
  BY <1>2, LessonTyping DEF LessonsSound, Sent
<1>4. row \in ReportRows /\ SameReport(row, old) /\ row.version = old.version + 1 /\ row.text = text
  <2>1. row = Rewritten(old, text)
    BY DEF Rewritten
  <2> HIDE DEF row
  <2> QED BY <1>3, <2>1, RewrittenReport
<1>5. revisions' = revisions \cup {entry}
  BY <1>1, <1>2
<1>6. entry.r = r /\ entry.version = old.version /\ entry.from = old.text /\ entry.to = text
  OBVIOUS
<1> HIDE DEF row, entry
<1>7. /\ row.l = old.l /\ row.x = old.x /\ row.teacher = old.teacher /\ old.version <= row.version
      /\ (row.live => old.live)
  BY <1>3, <1>4, ReportFields DEF SameReport
<1>8. LessonsFit' /\ SparesLessons(p)
  BY <1>1, <1>4, <1>7, SetReportFits
<1>9. ReportsAccounted'
  <2>1. /\ approvedAs \in [ReportIds -> [version : Nat, text : Nat]] /\ IsFiniteSet(revisions)
        /\ \A v \in revisions : v.version \in Nat
        /\ \A q \in ReportIds : AccountFits(q)
    BY DEF LessonsSound, ReportsAccounted
  <2>2. written[r] = old /\ written'[r] = row /\ \A q \in ReportIds \ {r} : written'[q] = written[q]
    BY <1>1, <1>2, <1>3 DEF SetReport
  <2>3. /\ old.version \in Nat /\ approvedAs[r].version \in Nat /\ approvedAs[r].version <= old.version
        /\ \A v \in revisions : v.r = r => v.version < old.version
    BY <1>2, <1>3, <2>1, ReportFields DEF AccountFits
  <2>4. IsAccounted(r)
    BY <1>1, <1>2, <2>1 DEF AccountFits
  <2>5. \A v \in revisions' : v.version \in Nat
    BY <1>5, <1>6, <2>1, <2>3
  <2>6. IsFiniteSet(revisions')
    BY <1>5, <2>1, FS_AddElement
  <2>7. Since(r)' = Since(r) \cup {entry}
    BY <1>1, <1>5, <1>6, <2>3 DEF Since
  <2>8. IsFiniteSet(Since(r)) /\ \A v \in Since(r) : v.version \in Nat /\ v.version < old.version
    BY <2>1, <2>3, FS_Subset DEF Since
  <2>9. Accounts(Since(r) \cup {entry}, approvedAs[r], row)
    <3>1. Accounts(Since(r), approvedAs[r], old)
      BY <2>2, <2>4 DEF IsAccounted
    <3> DEFINE since == Since(r)
               as == approvedAs[r]
    <3>2. IsFiniteSet(since) /\ Accounts(since, as, old) /\ as.version \in Nat /\ as.version <= old.version
          /\ \A v \in since : v.version \in Nat /\ v.version < old.version
      BY <2>3, <2>8, <3>1
    <3> HIDE DEF since, as
    <3>3. Accounts(since \cup {entry}, as, row)
      BY <1>4, <1>6, <2>3, <3>2, RevisedAccounts
    <3> QED BY <3>3 DEF since, as
  <2>10. AccountFits(r)'
    <3>1. IsAccounted(r)'
      BY <1>1, <2>2, <2>7, <2>9 DEF IsAccounted
    <3>2. \A v \in revisions' : v.r = r => v.version < row.version
      BY <1>4, <1>5, <1>6, <2>1, <2>3
    <3> QED BY <1>1, <1>4, <2>2, <2>3, <3>1, <3>2 DEF AccountFits
  <2>11. ASSUME NEW q \in ReportIds \ {r} PROVE AccountFits(q)'
    <3>1. AccountFits(q) /\ written'[q] = written[q] /\ approvedAs'[q] = approvedAs[q]
      BY <1>1, <2>1, <2>2
    <3>2. \A v \in revisions' : v.r = q => v \in revisions
      BY <1>5, <1>6
    <3>3. Since(q)' = Since(q)
      BY <1>1, <1>5, <3>2 DEF Since
    <3> QED BY <3>1, <3>2, <3>3 DEF AccountFits, IsAccounted
  <2> QED BY <1>1, <2>1, <2>5, <2>6, <2>10, <2>11 DEF ReportsAccounted
<1> QED BY <1>1, <1>8, <1>9, RequestsStay, LessonStep DEF LessonsSound

LEMMA WriteKeeps ==
    ASSUME LessonsSound, NEW p \in Instances, Write(p), UNCHANGED requestVars
    PROVE  LessonsSound'
<1> DEFINE c == run[p].cmd
<1>1. PICK r \in ReportIds :
         /\ written[r] = NoReport
         /\ written' = [written EXCEPT ![r] =
                [live |-> TRUE, l |-> c.l, x |-> c.x, teacher |-> Saw(p).lesson[c.l].teacher, status |-> c.status,
                 approval |-> c.status, version |-> 1, text |-> 1]]
  BY DEF Write
<1>2. /\ Doing(p, "write") /\ End(p) /\ Saw(p).lesson[c.l].there /\ Saw(p).lesson[c.l].teacher # NoLecturer
      /\ c.x \in Participants(Saw(p).lesson[c.l], Saw(p).cohort)
      /\ \A q \in ReportsOn(Saw(p), c.l) : Saw(p).written[q].x # c.x
      /\ lesson' = lesson /\ marked' = marked /\ cohort' = cohort /\ revisions' = revisions
      /\ everLeft' = everLeft /\ approvedAs' = approvedAs
  BY DEF Write, Exists
<1>3. /\ c.l \in SeriesLessons /\ Sent(c) /\ c.op = "write" /\ HoldsLesson(p, c.l) /\ KnowsLesson(p, c.l) /\ SawTyped(p)
  BY <1>2, AboutOne DEF OfLessons
<1> SUFFICES ASSUME NEW l, NEW x, NEW row, l = c.l, x = c.x,
                    row = [live |-> TRUE, l |-> c.l, x |-> c.x, teacher |-> Saw(p).lesson[c.l].teacher,
                           status |-> c.status, approval |-> c.status, version |-> 1, text |-> 1]
             PROVE  LessonsSound'
  OBVIOUS
<1>4. /\ lesson \in [SeriesLessons -> LessonRows] /\ written \in [ReportIds -> ReportRows] /\ OneReportEach
      /\ \A t \in SeriesLessons : MarksFit(t)
      /\ \A q \in ReportIds : ReportNames(q) /\ ReportFits(q) /\ written[q].version \in Nat
  BY LessonTyping DEF LessonsSound, LessonsFit
<1>5. /\ l \in SeriesLessons /\ Saw(p).lesson[l] = lesson[l] /\ x \in Learners /\ c.status \in {"draft", "submitted"}
      /\ lesson[l].there /\ lesson[l].teacher # NoLecturer /\ lesson[l].teacher \in Lecturers \cup {NoLecturer}
      /\ lesson[l].roster = {} \/ x \in lesson[l].roster
  BY <1>2, <1>3, <1>4, RowFields DEF KnowsLesson, Sent, Participants
<1>6. /\ row \in ReportRows /\ row.live /\ row.l = l /\ row.x = x /\ row.teacher = lesson[l].teacher
      /\ row.approval # "approved" /\ row.version = 1
  BY <1>5 DEF ReportRows
<1>7. /\ written'[r] = row /\ \A q \in ReportIds \ {r} : written'[q] = written[q]
      /\ written' \in [ReportIds -> ReportRows]
  BY <1>1, <1>4, <1>6
<1>8. ~written[r].live /\ written[r].version = 0 /\ written[r].l = 0
  BY <1>1 DEF NoReport
<1>9. \A q \in ReportIds : written[q].live /\ written[q].l = l => written[q].x # x
  BY <1>2, <1>3, KnownReports
<1>10. LessonsFit'
  <2>1. LessonsTyped'
    BY <1>2, <1>7 DEF LessonsSound, LessonsFit, LessonsTyped
  <2>2. \A t \in SeriesLessons : MarksFit(t)'
    BY <1>2, <1>4 DEF MarksFit, MayTakePart
  <2>3. ASSUME NEW q \in ReportIds PROVE ReportNames(q)' /\ ReportFits(q)'
    <3>1. CASE q = r
      <4>1. written'[q] = row
        BY <1>7, <3>1
      <4> QED BY <1>2, <1>5, <1>6, <4>1 DEF ReportNames, ReportFits, MayTakePart
    <3>2. CASE q # r
      <4>1. written'[q] = written[q]
        BY <1>7, <3>2
      <4> QED BY <1>2, <1>4, <4>1 DEF ReportNames, ReportFits, MayTakePart
    <3> QED BY <3>1, <3>2
  <2>4. OneReportEach'
    BY <1>4, <1>6, <1>7, <1>9 DEF OneReportEach
  <2> QED BY <2>1, <2>2, <2>3, <2>4 DEF LessonsFit
<1>11. ReportsAccounted'
  <2>1. \A q \in ReportIds :
              /\ written'[q].version \in Nat /\ written[q].version <= written'[q].version
              /\ written'[q].live /\ written'[q].approval = "approved" =>
                    /\ written[q].live /\ written[q].approval = "approved"
                    /\ written'[q].version = written[q].version /\ written'[q].text = written[q].text
    BY <1>4, <1>6, <1>7, <1>8
  <2> QED BY <1>2, <2>1, AccountsStay DEF LessonsSound
<1>12. SparesLessons(p)
  <2>1. \A t \in SeriesLessons : HoldsLesson(p, t) \/ SameLesson(t)
    BY <1>2, <1>3, <1>6, <1>7, <1>8, LessonIdsAssumption DEF SameLesson
  <2>2. \A q \in ReportIds : ReportStays(q)
    BY <1>4, <1>7, <1>8 DEF ReportStays
  <2> QED BY <1>2, <2>1, <2>2 DEF SparesLessons
<1> QED BY <1>2, <1>10, <1>11, <1>12, RequestsStay, LessonStep DEF LessonsSound

-----------------------------------------------------------------------------
(* Requests.                                                               *)
Below(ids, q) == {x \in ids : x < q}

(* The rows of a batch are numbered 0, 1, ... in the order of their ids.   *)
LEMMA NumberedFromZero ==
    ASSUME NEW ids \in SUBSET Nat, IsFiniteSet(ids)
    PROVE  {Cardinality(Below(ids, q)) : q \in ids} = 0 .. Cardinality(ids) - 1
<1> SUFFICES ASSUME NEW n, n = Cardinality(ids) PROVE {Cardinality(Below(ids, q)) : q \in ids} = 0 .. n - 1
  OBVIOUS
<1> DEFINE g == [q \in ids |-> Cardinality(Below(ids, q))]
<1>1. n \in Nat
  BY FS_CardinalityType
<1>2. ASSUME NEW q \in ids PROVE IsFiniteSet(Below(ids, q)) /\ Cardinality(Below(ids, q)) \in 0 .. n - 1
  <2>1. Below(ids, q) \subseteq ids /\ q \notin Below(ids, q)
    BY DEF Below
  <2>2. IsFiniteSet(Below(ids, q)) /\ Cardinality(Below(ids, q)) <= n /\ Cardinality(Below(ids, q)) # n
    BY <2>1, FS_Subset
  <2>3. Cardinality(Below(ids, q)) \in Nat
    BY <2>2, FS_CardinalityType
  <2> QED BY <1>1, <2>2, <2>3
<1>3. \A q, r \in ids : q < r => g[q] # g[r]
  <2> SUFFICES ASSUME NEW q \in ids, NEW r \in ids, q < r PROVE g[q] # g[r]
    OBVIOUS
  <2>0. q < r
    OBVIOUS
  <2>1. q \in Nat /\ r \in Nat /\ \A x \in ids : x \in Nat /\ (x < q => x < r)
    BY <2>0
  <2>2. q \in Below(ids, r) /\ q \notin Below(ids, q)
    BY <2>0, <2>1 DEF Below
  <2>3. Below(ids, q) \subseteq Below(ids, r)
    BY <2>1 DEF Below
  <2>4. Cardinality(Below(ids, q)) # Cardinality(Below(ids, r))
    BY <1>2, <2>2, <2>3, FS_Subset
  <2> QED BY <2>4
<1>4. g \in Injection(ids, 0 .. n - 1)
  <2>1. g \in [ids -> 0 .. n - 1]
    BY <1>2
  <2>2. \A q, r \in ids : g[q] = g[r] => q = r
    <3> HIDE DEF g
    <3> QED BY <1>3
  <2> QED BY <2>1, <2>2 DEF Injection, IsInjective
<1>5. IsFiniteSet(0 .. n - 1) /\ Cardinality(0 .. n - 1) = n
  <2>1. 0 \in Int /\ n - 1 \in Int
    BY <1>1
  <2>2. IsFiniteSet(0 .. n - 1) /\ Cardinality(0 .. n - 1) = IF 0 > n - 1 THEN 0 ELSE (n - 1) - 0 + 1
    BY <2>1, FS_Interval
  <2> QED BY <1>1, <2>2
<1>6. g \in Surjection(ids, 0 .. n - 1)
  <2> HIDE DEF g
  <2> QED BY <1>4, <1>5, FS_Injection
<1>7. \A m \in 0 .. n - 1 : \E q \in ids : g[q] = m
  <2> HIDE DEF g
  <2> QED BY <1>6 DEF Surjection
<1>8. \A m \in 0 .. n - 1 : \E q \in ids : m = Cardinality(Below(ids, q))
  BY <1>7
<1> QED BY <1>2, <1>8, Zenon

LEMMA NextIdsAreUnused ==
    ASSUME NEW n
    PROVE  NextIds(n) \subseteq RequestIds /\ \A q \in NextIds(n) : asked[q].state = "absent"
BY DEF NextIds

LEMMA OneNextId == \A q, r \in NextIds(1) : q = r
<1> DEFINE unused == {q \in RequestIds : asked[q].state = "absent"}
<1>1. ASSUME NEW q \in NextIds(1), NEW r \in NextIds(1), q < r PROVE FALSE
  <2>1. q \in Below(unused, r) /\ Cardinality(Below(unused, r)) < 1
    BY <1>1 DEF NextIds, Below
  <2>2. Below(unused, r) \subseteq RequestIds
    BY DEF Below
  <2>3. IsFiniteSet(Below(unused, r))
    BY <2>2, RequestsAssumption, FS_Subset
  <2>4. Cardinality(Below(unused, r)) \in Nat /\ Cardinality(Below(unused, r)) # 0
    BY <2>1, <2>3, FS_CardinalityType, FS_EmptySet
  <2> QED BY <2>1, <2>4
<1>2. \A q \in NextIds(1) : q \in Nat
  BY NextIdsAreUnused, RequestsAssumption
<1> QED BY <1>1, <1>2

(* A step that leaves the rows of batches as they are.                     *)
LEMMA BatchesStay ==
    ASSUME RequestsFit, acked' = acked,
           \A q \in RequestIds : asked[q].key # NoKey \/ asked'[q].key # NoKey =>
              /\ asked'[q].by = asked[q].by /\ asked'[q].key = asked[q].key
              /\ asked'[q].print = asked[q].print /\ asked'[q].index = asked[q].index
    PROVE  /\ \A by \in Lecturers, key \in BatchKeys : BatchOf(by, key)' = BatchOf(by, key)
           /\ AcknowledgedBatchIsStored'
<1>1. ASSUME NEW by, NEW key \in BatchKeys
      PROVE  /\ BatchOf(by, key)' = BatchOf(by, key)
             /\ \A q \in BatchOf(by, key) : asked'[q].print = asked[q].print /\ asked'[q].index = asked[q].index
  <2>1. key # NoKey
    BY RequestsAssumption
  <2> QED BY <2>1 DEF BatchOf
<1>2. ASSUME NEW a \in acked
      PROVE  /\ Cardinality(BatchOf(a.by, a.key)') = Len(a.body)
             /\ {<<asked'[q].print, asked'[q].index>> : q \in BatchOf(a.by, a.key)'}
                    = {<<a.body, i>> : i \in 0 .. Len(a.body) - 1}
  <2>1. a.key \in BatchKeys
    BY DEF RequestsFit
  <2>2. BatchOf(a.by, a.key)' = BatchOf(a.by, a.key)
        /\ \A q \in BatchOf(a.by, a.key) : asked'[q].print = asked[q].print /\ asked'[q].index = asked[q].index
    BY <1>1, <2>1
  <2>3. /\ Cardinality(BatchOf(a.by, a.key)) = Len(a.body)
        /\ {<<asked[q].print, asked[q].index>> : q \in BatchOf(a.by, a.key)} = {<<a.body, i>> : i \in 0 .. Len(a.body) - 1}
    BY DEF RequestsFit, AcknowledgedBatchIsStored
  <2>4. {<<asked'[q].print, asked'[q].index>> : q \in BatchOf(a.by, a.key)}
            = {<<asked[q].print, asked[q].index>> : q \in BatchOf(a.by, a.key)}
    BY <2>2
  <2> QED BY <2>2, <2>3, <2>4
<1>3. AcknowledgedBatchIsStored'
  BY <1>2 DEF AcknowledgedBatchIsStored
<1> QED BY <1>1, <1>3

(* A request is decided.                                                   *)
LEMMA DecisionFits ==
    ASSUME RequestsFit, acked' = acked, NEW q \in RequestIds, NEW state \in {"approved", "rejected", "withdrawn"},
           asked[q].state = "pending", asked' = [asked EXCEPT ![q].state = state]
    PROVE  /\ RequestsFit' /\ \A p \in Instances : SparesRequests(p)
           /\ \A r \in RequestIds \ {q} : asked'[r] = asked[r]
           /\ asked'[q].state = state
<1>1. asked \in [RequestIds -> RequestRows] /\ (\A r \in RequestIds : RequestFits(r)) /\ OnePending
      /\ acked \subseteq [by : Lecturers, key : BatchKeys, body : Bodies]
  BY DEF RequestsFit
<1>2. asked[q] \in RequestRows
  BY <1>1
<1>3. /\ asked'[q] \in RequestRows /\ asked'[q].state = state /\ asked'[q].by = asked[q].by /\ asked'[q].l = asked[q].l
      /\ asked'[q].key = asked[q].key /\ asked'[q].print = asked[q].print /\ asked'[q].index = asked[q].index
      /\ asked'[q].wanted = asked[q].wanted
  BY <1>1, <1>2 DEF RequestRows
<1>4. asked' \in [RequestIds -> RequestRows] /\ \A r \in RequestIds \ {q} : asked'[r] = asked[r]
  BY <1>1, <1>3
<1>5. \A r \in RequestIds : RequestFits(r)'
  BY <1>1, <1>3, <1>4 DEF RequestFits
<1>6. OnePending'
  BY <1>1, <1>3, <1>4 DEF OnePending
<1>7. AcknowledgedBatchIsStored' /\ \A by \in Lecturers, key \in BatchKeys : BatchOf(by, key)' = BatchOf(by, key)
  BY <1>3, <1>4, BatchesStay
<1>8. \A p \in Instances : SparesRequests(p)
  BY <1>3, <1>4, <1>7 DEF SparesRequests
<1> QED BY <1>1, <1>3, <1>4, <1>5, <1>6, <1>7, <1>8 DEF RequestsFit

-----------------------------------------------------------------------------
(* A correction is asked for, approved together with its lesson, declined. *)
LEMMA RequestCorrectionKeeps ==
    ASSUME LessonsSound, NEW p \in Instances, RequestCorrection(p)
    PROVE  LessonsSound'
<1> DEFINE c == run[p].cmd
           new == [NoRequest EXCEPT !.state = "pending", !.by = c.by, !.l = c.l,
                                    !.before = Saw(p).lesson[c.l].mark, !.wanted = c.mark]
<1>1. /\ Doing(p, "correct") /\ End(p) /\ PendingFor(c.by, c.l) = {}
      /\ UNCHANGED <<lessonRows, everLeft, approvedAs>> /\ acked' = acked
      /\ asked' = [q \in RequestIds |-> IF q \in NextIds(1) THEN new ELSE asked[q]]
  BY DEF RequestCorrection, Store, lessonVars
<1>2. c.l \in SeriesLessons /\ c.by \in Lecturers /\ c.mark \in Marks /\ Saw(p).lesson[c.l] \in LessonRows
  BY <1>1, AboutOne DEF OfLessons, Sent, SawTyped
<1>3. Saw(p).lesson[c.l].mark \in Marks
  BY <1>2, RowFields
<1>4. /\ asked \in [RequestIds -> RequestRows] /\ (\A q \in RequestIds : RequestFits(q)) /\ OnePending
      /\ acked \subseteq [by : Lecturers, key : BatchKeys, body : Bodies]
  BY DEF LessonsSound, RequestsFit
<1>5. /\ new.state = "pending" /\ new.by = c.by /\ new.l = c.l /\ new.key = NoKey
      /\ new.before = Saw(p).lesson[c.l].mark /\ new.wanted = c.mark /\ new.print = <<>> /\ new.index = 0
  BY DEF NoRequest
<1>6. new \in RequestRows
  BY <1>2, <1>3 DEF NoRequest, RequestRows
<1>7. /\ NextIds(1) \subseteq RequestIds /\ \A q \in NextIds(1) : asked[q].state = "absent" /\ asked[q].key = NoKey
  BY <1>4, NextIdsAreUnused DEF RequestFits
<1> HIDE DEF new, c
<1>8. /\ \A q \in NextIds(1) : asked'[q] = new
      /\ \A q \in RequestIds \ NextIds(1) : asked'[q] = asked[q]
  BY <1>1, <1>7
<1>9. asked' \in [RequestIds -> RequestRows]
  BY <1>1, <1>4, <1>6
<1>10. ASSUME NEW q \in RequestIds PROVE RequestFits(q)'
  <2>1. CASE q \in NextIds(1)
    BY <1>2, <1>5, <1>8, <2>1 DEF RequestFits
  <2>2. CASE q \notin NextIds(1)
    BY <1>4, <1>8, <2>2 DEF RequestFits
  <2> QED BY <2>1, <2>2
<1>11. \A q \in RequestIds : asked[q].state = "pending" => asked[q].by # c.by \/ asked[q].l # c.l
  BY <1>1 DEF PendingFor
<1>12. OnePending'
  <2> SUFFICES ASSUME NEW q \in RequestIds, NEW r \in RequestIds, q # r,
                      asked'[q].state = "pending", asked'[r].state = "pending", asked'[q].key = NoKey
               PROVE  asked'[q].by # asked'[r].by \/ asked'[q].l # asked'[r].l
    BY DEF OnePending
  <2>1. CASE q \in NextIds(1)
    <3>1. r \notin NextIds(1)
      BY <2>1, OneNextId
    <3> QED BY <1>5, <1>8, <1>11, <2>1, <3>1
  <2>2. CASE q \notin NextIds(1) /\ r \in NextIds(1)
    BY <1>5, <1>8, <1>11, <2>2
  <2>3. CASE q \notin NextIds(1) /\ r \notin NextIds(1)
    BY <1>4, <1>8, <2>3 DEF OnePending
  <2> QED BY <2>1, <2>2, <2>3
<1>13. ASSUME NEW q \in RequestIds, asked[q].key # NoKey \/ asked'[q].key # NoKey PROVE asked'[q] = asked[q]
  BY <1>5, <1>7, <1>8, <1>13
<1>14. AcknowledgedBatchIsStored' /\ \A by \in Lecturers, key \in BatchKeys : BatchOf(by, key)' = BatchOf(by, key)
  BY <1>1, <1>13, BatchesStay DEF LessonsSound
<1>15. RequestsFit'
  BY <1>1, <1>4, <1>9, <1>10, <1>12, <1>14 DEF RequestsFit
<1>16. SparesRequests(p)
  BY <1>7, <1>8, <1>14 DEF SparesRequests
<1>17. LessonsFit' /\ ReportsAccounted' /\ SparesLessons(p)
  BY <1>1, LessonRowsStay DEF LessonsSound
<1> QED BY <1>1, <1>15, <1>16, <1>17, LessonStep

LEMMA ApproveCorrectionFits ==
    ASSUME LessonsSound, NEW p \in Instances, ApproveCorrection(p)
    PROVE  /\ LessonsSound'
           /\ \A q \in RequestIds : asked'[q] # asked[q] =>
                 /\ asked[q].state = "pending"
                 /\ lesson[asked[q].l].mark = asked[q].before /\ lesson'[asked[q].l].mark = asked[q].wanted
<1> DEFINE c == run[p].cmd
           q == c.q
<1>1. /\ "q" \in DOMAIN c /\ asked[q].state = "pending" /\ Update(p) /\ AsRequested(p, q)
      /\ asked' = [asked EXCEPT ![q].state = "approved"] /\ acked' = acked
  BY DEF ApproveCorrection
<1>2. /\ End(p) /\ LessonsFit' /\ ReportsAccounted' /\ SparesLessons(p)
      /\ c.op \in Edits /\ c.l \in SeriesLessons /\ KnowsLesson(p, c.l)
      /\ lesson'[c.l] = First(Saw(p), c) /\ Sent(c) /\ SawTyped(p) /\ NamesRequest(p)
  BY <1>1, UpdateFits
<1>3. q \in RequestIds /\ c.op = "setMark" /\ c.l = asked[q].l /\ c.mark = asked[q].wanted
  BY <1>1, <1>2 DEF Sent, NamesRequest
<1> HIDE DEF c, q
<1>4. First(Saw(p), c).mark = c.mark
  BY <1>2, <1>3, FirstRow DEF SawTyped
<1>5. lesson[asked[q].l].mark = asked[q].before /\ lesson'[asked[q].l].mark = asked[q].wanted
  BY <1>1, <1>2, <1>3, <1>4 DEF AsRequested, KnowsLesson
<1>6. /\ RequestsFit' /\ SparesRequests(p)
      /\ \A r \in RequestIds \ {q} : asked'[r] = asked[r]
  BY <1>1, <1>3, DecisionFits DEF LessonsSound
<1> QED BY <1>1, <1>2, <1>5, <1>6, LessonStep

LEMMA DeclineFits ==
    ASSUME LessonsSound, NEW p \in Instances, Decline(p)
    PROVE  /\ LessonsSound'
           /\ \A q \in RequestIds : asked'[q] # asked[q] =>
                 asked[q].state = "pending" /\ asked'[q].state # "approved"
<1>1. PICK q \in RequestIds, state \in {"rejected", "withdrawn"} :
        asked[q].state = "pending" /\ asked' = [asked EXCEPT ![q].state = state]
  BY DEF Decline
<1>2. /\ run' = run /\ acked' = acked /\ UNCHANGED <<lessonRows, everLeft, approvedAs>>
      /\ run[p].cmd.op = "none"
  BY DEF Decline
<1>3. /\ RequestsFit' /\ SparesRequests(p) /\ asked'[q].state = state
      /\ \A r \in RequestIds \ {q} : asked'[r] = asked[r]
  BY <1>1, <1>2, DecisionFits DEF LessonsSound
<1>4. LessonsFit' /\ ReportsAccounted' /\ SparesLessons(p)
  BY <1>2, LessonRowsStay DEF LessonsSound
<1>5. ASSUME NEW r \in Instances PROVE LessonFits(r)'
  <2>1. CASE r = p
    BY <1>2, <2>1 DEF LessonFits
  <2>2. CASE r # p
    BY <1>2, <1>3, <1>4, <2>2, OthersKnowLessons
  <2> QED BY <2>1, <2>2
<1>6. DOMAIN run' = Instances /\ LocksExclude'
  BY <1>2 DEF LessonsSound, LocksExclude
<1> QED BY <1>1, <1>3, <1>4, <1>5, <1>6 DEF LessonsSound

-----------------------------------------------------------------------------
(* A bulk request is stored, or answered with what its key has.            *)
LEMMA KnownBatch ==
    ASSUME LessonsSound, NEW p \in Instances, Running(p, "bulk")
    PROVE  /\ run[p].cmd.by \in Lecturers /\ run[p].cmd.key \in BatchKeys /\ run[p].cmd.body \in Bodies
           /\ run[p].saw.existing = BatchOf(run[p].cmd.by, run[p].cmd.key)
           /\ <<"batch", run[p].cmd.by, run[p].cmd.key>> \in run[p].held
<1>1. run[p].cmd.op = "bulk" /\ Sent(run[p].cmd) /\ KnowsBatch(p)
  BY DEF Running, LessonsSound, LessonFits
<1> QED BY <1>1 DEF Sent, KnowsBatch

LEMMA ReplayBatchKeeps ==
    ASSUME LessonsSound, NEW p \in Instances, ReplayBatch(p)
    PROVE  LessonsSound'
<1> DEFINE c == run[p].cmd
           rows == BatchOf(c.by, c.key)
<1>1. Running(p, "bulk") /\ End(p) /\ UNCHANGED <<lessonRows, everLeft, approvedAs>> /\ asked' = asked
      /\ acked' = acked \cup {[by |-> c.by, key |-> c.key, body |-> c.body]}
  BY DEF ReplayBatch, Answered, lessonVars
<1>2. c.by \in Lecturers /\ c.key \in BatchKeys /\ c.body \in Bodies /\ run[p].saw.existing = rows
  BY <1>1, KnownBatch
<1>3. /\ Cardinality(rows) = Len(c.body) /\ \A q \in rows : asked[q].print = c.body
      /\ {asked[q].index : q \in rows} = 0 .. Len(c.body) - 1
  BY <1>2 DEF ReplayBatch, Replayed
<1>4. {<<asked[q].print, asked[q].index>> : q \in rows} = {<<c.body, i>> : i \in 0 .. Len(c.body) - 1}
  BY <1>3
<1>5. \A by, key : BatchOf(by, key)' = BatchOf(by, key)
  BY <1>1 DEF BatchOf
<1>6. AcknowledgedBatchIsStored'
  <2> SUFFICES ASSUME NEW a \in acked'
               PROVE  /\ Cardinality(BatchOf(a.by, a.key)) = Len(a.body)
                      /\ {<<asked[q].print, asked[q].index>> : q \in BatchOf(a.by, a.key)}
                            = {<<a.body, i>> : i \in 0 .. Len(a.body) - 1}
    BY <1>1, <1>5 DEF AcknowledgedBatchIsStored
  <2>1. CASE a \in acked
    BY <2>1 DEF LessonsSound, RequestsFit, AcknowledgedBatchIsStored
  <2>2. CASE a \notin acked
    <3>1. a.by = c.by /\ a.key = c.key /\ a.body = c.body
      BY <1>1, <2>2
    <3> QED BY <1>3, <1>4, <3>1
  <2> QED BY <2>1, <2>2
<1>7. acked' \subseteq [by : Lecturers, key : BatchKeys, body : Bodies]
  BY <1>1, <1>2 DEF LessonsSound, RequestsFit
<1>8. RequestsFit' /\ SparesRequests(p)
  BY <1>1, <1>5, <1>6, <1>7 DEF LessonsSound, RequestsFit, RequestFits, OnePending, SparesRequests
<1>9. LessonsFit' /\ ReportsAccounted' /\ SparesLessons(p)
  BY <1>1, LessonRowsStay DEF LessonsSound
<1> QED BY <1>1, <1>8, <1>9, LessonStep

LEMMA StoreBatchKeeps ==
    ASSUME LessonsSound, NEW p \in Instances, StoreBatch(p)
    PROVE  LessonsSound'
<1> DEFINE c == run[p].cmd
           ids == NextIds(Len(c.body))
           new(q) == [NoRequest EXCEPT !.state = "pending", !.by = c.by, !.key = c.key, !.print = c.body,
                                       !.index = Cardinality(Below(ids, q))]
<1>1. /\ Running(p, "bulk") /\ End(p) /\ UNCHANGED <<lessonRows, everLeft, approvedAs>>
      /\ run[p].saw.existing = {} /\ Cardinality(ids) = Len(c.body)
      /\ asked' = [q \in RequestIds |-> IF q \in ids THEN new(q) ELSE asked[q]]
      /\ acked' \in {acked, acked \cup {[by |-> c.by, key |-> c.key, body |-> c.body]}}
  BY DEF StoreBatch, Store, Answered, Below, lessonVars
<1>2. /\ c.by \in Lecturers /\ c.key \in BatchKeys /\ c.body \in Bodies /\ BatchOf(c.by, c.key) = {}
      /\ <<"batch", c.by, c.key>> \in run[p].held
  BY <1>1, KnownBatch
<1>3. Len(c.body) \in Nat \ {0} /\ c.key # NoKey
  BY <1>2, RequestsAssumption
<1>4. /\ asked \in [RequestIds -> RequestRows] /\ (\A q \in RequestIds : RequestFits(q)) /\ OnePending
      /\ acked \subseteq [by : Lecturers, key : BatchKeys, body : Bodies] /\ AcknowledgedBatchIsStored
  BY DEF LessonsSound, RequestsFit
<1>5. /\ ids \subseteq RequestIds /\ \A q \in ids : asked[q].state = "absent" /\ asked[q].key = NoKey
  BY <1>4, NextIdsAreUnused DEF RequestFits
<1>6. IsFiniteSet(ids) /\ ids \in SUBSET Nat
  BY <1>5, RequestsAssumption, FS_Subset
<1>7. ASSUME NEW q \in ids PROVE Cardinality(Below(ids, q)) \in Nat
  <2>1. Below(ids, q) \subseteq ids
    BY DEF Below
  <2> QED BY <1>6, <2>1, FS_Subset, FS_CardinalityType
<1>8. {Cardinality(Below(ids, q)) : q \in ids} = 0 .. Len(c.body) - 1
  BY <1>1, <1>6, NumberedFromZero
<1> HIDE DEF c, ids
<1>9. ASSUME NEW q \in ids
      PROVE  /\ new(q) \in RequestRows
             /\ new(q).state = "pending" /\ new(q).by = c.by /\ new(q).l = 0 /\ new(q).key = c.key
             /\ new(q).print = c.body /\ new(q).index = Cardinality(Below(ids, q))
  BY <1>2, <1>7 DEF NoRequest, RequestRows, Marks
<1>10. asked' \in [RequestIds -> RequestRows]
  BY <1>1, <1>4, <1>9
<1>11. /\ \A q \in RequestIds \ ids : asked'[q] = asked[q]
       /\ \A q \in ids : /\ asked'[q].state = "pending" /\ asked'[q].by = c.by /\ asked'[q].l = 0
                         /\ asked'[q].key = c.key /\ asked'[q].print = c.body
                         /\ asked'[q].index = Cardinality(Below(ids, q))
  BY <1>1, <1>5, <1>9
<1> HIDE DEF new
<1>12. ASSUME NEW q \in RequestIds PROVE RequestFits(q)'
  <2>1. CASE q \in ids
    BY <1>3, <1>11, <2>1 DEF RequestFits
  <2>2. CASE q \notin ids
    BY <1>4, <1>11, <2>2 DEF RequestFits
  <2> QED BY <2>1, <2>2
<1>13. OnePending'
  <2> SUFFICES ASSUME NEW q \in RequestIds, NEW r \in RequestIds, q # r,
                      asked'[q].state = "pending", asked'[r].state = "pending", asked'[q].key = NoKey
               PROVE  asked'[q].by # asked'[r].by \/ asked'[q].l # asked'[r].l
    BY DEF OnePending
  <2>1. q \notin ids
    BY <1>3, <1>11
  <2>2. CASE r \in ids
    <3>1. asked'[q].l \in SeriesLessons
      BY <1>12 DEF RequestFits
    <3> QED BY <1>11, <2>2, <3>1, LessonIdsAssumption
  <2>3. CASE r \notin ids
    BY <1>4, <1>11, <2>1, <2>3 DEF OnePending
  <2> QED BY <2>2, <2>3
<1>14. ASSUME NEW by, NEW key, by = c.by, key = c.key PROVE BatchOf(by, key)' = ids
  <2>1. \A q \in RequestIds : q \notin ids => ~(asked[q].by = c.by /\ asked[q].key = c.key)
    BY <1>2 DEF BatchOf
  <2> QED BY <1>5, <1>11, <1>14, <2>1 DEF BatchOf
<1>15. ASSUME NEW by, NEW key \in BatchKeys, ~(by = c.by /\ key = c.key)
       PROVE  BatchOf(by, key)' = BatchOf(by, key) /\ \A q \in BatchOf(by, key) : q \in RequestIds \ ids
  <2>1. key # NoKey
    BY RequestsAssumption
  <2> QED BY <1>5, <1>11, <1>15, <2>1 DEF BatchOf
<1>16. ASSUME NEW a \in acked
       PROVE  /\ Cardinality(BatchOf(a.by, a.key)') = Len(a.body)
              /\ {<<asked'[q].print, asked'[q].index>> : q \in BatchOf(a.by, a.key)'}
                     = {<<a.body, i>> : i \in 0 .. Len(a.body) - 1}
  <2>1. a.key \in BatchKeys /\ Len(a.body) \in Nat \ {0}
    BY <1>4, RequestsAssumption
  <2>2. /\ Cardinality(BatchOf(a.by, a.key)) = Len(a.body)
        /\ {<<asked[q].print, asked[q].index>> : q \in BatchOf(a.by, a.key)} = {<<a.body, i>> : i \in 0 .. Len(a.body) - 1}
    BY <1>4 DEF AcknowledgedBatchIsStored
  <2>3. ~(a.by = c.by /\ a.key = c.key)
    <3> SUFFICES ASSUME a.by = c.by, a.key = c.key PROVE FALSE
      OBVIOUS
    <3>1. Cardinality(BatchOf(c.by, c.key)) = 0
      BY <1>2, FS_EmptySet
    <3> QED BY <2>1, <2>2, <3>1
  <2>4. BatchOf(a.by, a.key)' = BatchOf(a.by, a.key) /\ \A q \in BatchOf(a.by, a.key) : asked'[q] = asked[q]
    BY <1>11, <1>15, <2>1, <2>3
  <2>5. {<<asked'[q].print, asked'[q].index>> : q \in BatchOf(a.by, a.key)}
            = {<<asked[q].print, asked[q].index>> : q \in BatchOf(a.by, a.key)}
    BY <2>4
  <2> QED BY <2>2, <2>4, <2>5
<1>17. {<<asked'[q].print, asked'[q].index>> : q \in ids} = {<<c.body, i>> : i \in 0 .. Len(c.body) - 1}
  <2>1. {<<asked'[q].print, asked'[q].index>> : q \in ids} = {<<c.body, Cardinality(Below(ids, q))>> : q \in ids}
    BY <1>11
  <2>2. \A q \in ids : Cardinality(Below(ids, q)) \in 0 .. Len(c.body) - 1
    BY <1>8
  <2>3. \A i \in 0 .. Len(c.body) - 1 : \E q \in ids : i = Cardinality(Below(ids, q))
    BY <1>8
  <2>4. {<<c.body, Cardinality(Below(ids, q))>> : q \in ids} = {<<c.body, i>> : i \in 0 .. Len(c.body) - 1}
    BY <2>2, <2>3
  <2> QED BY <2>1, <2>4
<1>18. AcknowledgedBatchIsStored'
  <2> SUFFICES ASSUME NEW a \in acked'
               PROVE  /\ Cardinality(BatchOf(a.by, a.key)') = Len(a.body)
                      /\ {<<asked'[q].print, asked'[q].index>> : q \in BatchOf(a.by, a.key)'}
                            = {<<a.body, i>> : i \in 0 .. Len(a.body) - 1}
    BY DEF AcknowledgedBatchIsStored
  <2>1. CASE a \in acked
    BY <1>16, <2>1
  <2>2. CASE a \notin acked
    <3>1. a.by = c.by /\ a.key = c.key /\ a.body = c.body
      BY <1>1, <2>2
    <3>2. BatchOf(a.by, a.key)' = ids
      BY <1>14, <3>1
    <3> QED BY <1>1, <1>17, <3>1, <3>2 DEF ids
  <2> QED BY <2>1, <2>2
<1>19. acked' \subseteq [by : Lecturers, key : BatchKeys, body : Bodies]
  BY <1>1, <1>2, <1>4
<1>20. RequestsFit'
  BY <1>10, <1>12, <1>13, <1>18, <1>19 DEF RequestsFit
<1>21. SparesRequests(p)
  BY <1>2, <1>5, <1>11, <1>15 DEF SparesRequests
<1>22. LessonsFit' /\ ReportsAccounted' /\ SparesLessons(p)
  BY <1>1, LessonRowsStay DEF LessonsSound
<1> QED BY <1>1, <1>20, <1>21, <1>22, LessonStep

LEMMA RefuseLessonKeeps ==
    ASSUME LessonsSound, NEW p \in Instances, RefuseLesson(p), UNCHANGED requestVars
    PROVE  LessonsSound'
<1>1. End(p) /\ UNCHANGED <<lessonRows, everLeft, approvedAs>>
  BY DEF RefuseLesson, Abort, lessonVars
<1> QED BY <1>1, LessonRowsStay, RequestsStay, LessonStep DEF LessonsSound

LEMMA LessonsNextKeeps == LessonsSound /\ LessonRequestsNext => LessonsSound'
<1> SUFFICES ASSUME LessonsSound, LessonRequestsNext PROVE LessonsSound'
  OBVIOUS
<1>1. ASSUME LessonsNext, UNCHANGED requestVars PROVE LessonsSound'
  <2>1. PICK p \in Instances :
          \/ AskLesson(p) \/ ReadLesson(p) \/ RefuseLesson(p)
          \/ EditLesson(p) \/ RemoveLesson(p) \/ Assign(p) \/ Price(p) \/ LinkOrRelease(p)
          \/ LeaveOrRejoin(p) \/ Attend(p) \/ ClearMark(p)
          \/ Write(p) \/ Rewrite(p) \/ WithdrawDraft(p) \/ Submit(p)
          \/ Approve(p) \/ RejectReport(p) \/ Revise(p)
    BY <1>1 DEF LessonsNext
  <2>2. CASE AskLesson(p) \/ ReadLesson(p) \/ RefuseLesson(p)
    BY <1>1, <2>2, AskLessonKeeps, ReadLessonKeeps, RefuseLessonKeeps
  <2>3. CASE EditLesson(p) \/ RemoveLesson(p) \/ Assign(p) \/ Price(p) \/ LinkOrRelease(p)
    BY <1>1, <2>3, EditLessonKeeps, RemoveLessonKeeps, AssignKeeps, PriceKeeps, LinkOrReleaseKeeps
  <2>4. CASE LeaveOrRejoin(p) \/ Attend(p) \/ ClearMark(p)
    BY <1>1, <2>4, LeaveOrRejoinKeeps, AttendKeeps, ClearMarkKeeps
  <2>5. CASE Write(p) \/ Rewrite(p) \/ WithdrawDraft(p) \/ Submit(p)
    BY <1>1, <2>5, WriteKeeps, RewriteKeeps, WithdrawDraftKeeps, SubmitKeeps
  <2>6. CASE Approve(p) \/ RejectReport(p) \/ Revise(p)
    BY <1>1, <2>6, ApproveKeeps, RejectReportKeeps, ReviseKeeps
  <2> QED BY <2>1, <2>2, <2>3, <2>4, <2>5, <2>6
<1>2. ASSUME NEW p \in Instances, RequestCorrection(p) \/ AskApproval(p) \/ ApproveCorrection(p) \/ Decline(p)
      PROVE  LessonsSound'
  BY <1>2, RequestCorrectionKeeps, AskApprovalKeeps, ApproveCorrectionFits, DeclineFits
<1>3. ASSUME NEW p \in Instances, AskBatch(p) \/ ReplayBatch(p) \/ StoreBatch(p) PROVE LessonsSound'
  BY <1>3, AskBatchKeeps, ReplayBatchKeeps, StoreBatchKeeps
<1> QED BY <1>1, <1>2, <1>3 DEF LessonRequestsNext

-----------------------------------------------------------------------------
(* Both parts.  Only the rows of the part that does not move are known to  *)
(* fit: the commands that run are the ones of the other part.              *)
ClassworkSound ==
    /\ TemplatesFit /\ LessonsFit /\ ReportsAccounted /\ RequestsFit
    /\ part = "lessons" => LessonsSound
    /\ part = "templates" => TemplatesSound

LEMMA ClassworkInitSound == ClassworkInit => ClassworkSound
BY InitLessons, InitTemplates DEF ClassworkInit, ClassworkSound, LessonsSound, TemplatesSound

LEMMA ClassworkNextKeeps ==
    ClassworkSound /\ [ClassworkNext]_<<part, run, lessonVars, requestVars, templateVars>> => ClassworkSound'
<1> SUFFICES ASSUME ClassworkSound, [ClassworkNext]_<<part, run, lessonVars, requestVars, templateVars>>
             PROVE  ClassworkSound'
  OBVIOUS
<1>1. CASE UNCHANGED <<part, run, lessonVars, requestVars, templateVars>>
  <2>1. /\ part' = part /\ run' = run /\ UNCHANGED <<lessonRows, everLeft, approvedAs>> /\ UNCHANGED requestVars
        /\ UNCHANGED templateVars /\ UNCHANGED template
    BY <1>1 DEF lessonVars, templateVars
  <2>2. /\ LessonsFit' /\ ReportsAccounted' /\ RequestsFit' /\ TemplatesFit'
        /\ \A p \in Instances : SparesLessons(p) /\ SparesRequests(p)
    BY <2>1, LessonRowsStay, RequestsStay, TemplateRowsStay DEF ClassworkSound
  <2>3. part = "templates" => TemplatesSound'
    BY <2>1, TemplatesNextKeeps DEF ClassworkSound
  <2>4. ASSUME part = "lessons" PROVE LessonsSound'
    <3>1. LessonsSound
      BY <2>4 DEF ClassworkSound
    <3>2. ASSUME NEW p \in Instances PROVE LessonFits(p)'
      <4>1. /\ lesson' = lesson /\ marked' = marked /\ cohort' = cohort /\ written' = written
            /\ everLeft' = everLeft /\ asked' = asked
        BY <2>1 DEF lessonRows, requestVars
      <4>2. LessonFits(p) /\ run' = run
        BY <2>1, <3>1 DEF LessonsSound
      <4> QED BY <4>1, <4>2 DEF LessonFits, Sent, NamesReport, NamesRequest, KnowsBatch, BatchOf, Knows, SawTyped,
                                Saw, KnowsLesson, HoldsLesson, LessonTargets, ThereIn
    <3> QED BY <2>1, <2>2, <3>1, <3>2 DEF LessonsSound, LocksExclude
  <2> QED BY <2>1, <2>2, <2>3, <2>4 DEF ClassworkSound
<1>2. CASE part = "lessons" /\ LessonRequestsNext /\ UNCHANGED templateVars /\ part' = part
  <2>1. LessonsSound' /\ UNCHANGED template
    BY <1>2, LessonsNextKeeps DEF ClassworkSound, templateVars
  <2>2. TemplatesFit'
    BY <2>1, TemplateRowsStay DEF ClassworkSound
  <2> QED BY <1>2, <2>1, <2>2 DEF ClassworkSound, LessonsSound
<1>3. CASE part = "templates" /\ TemplatesNext /\ UNCHANGED <<lessonVars, requestVars>> /\ part' = part
  <2>1. TemplatesSound'
    BY <1>3, TemplatesNextKeeps DEF ClassworkSound
  <2>2. UNCHANGED <<lessonRows, everLeft, approvedAs>> /\ UNCHANGED requestVars
    BY <1>3 DEF lessonVars
  <2>3. LessonsFit' /\ ReportsAccounted' /\ RequestsFit'
    BY <2>2, LessonRowsStay, RequestsStay DEF ClassworkSound
  <2> QED BY <1>3, <2>1, <2>3 DEF ClassworkSound, TemplatesSound
<1> QED BY <1>1, <1>2, <1>3 DEF ClassworkNext

(* Whatever runs, what is recorded of a lesson belongs to it, an approved  *)
(* report says what was approved or revised on record, a bulk request      *)
(* answered with rows is stored once, and a scope has one selected         *)
(* template: all rows fit, and the commands know what their locks cover.   *)
THEOREM ClassworkIsSound == ClassworkSpec => []ClassworkSound
<1> QED BY ClassworkInitSound, ClassworkNextKeeps, PTL DEF ClassworkSpec

(* assertDependentsCompatible, reports.create, attendance.upsert, remove:  *)
(* a report or an attendance row belongs to a lesson that is there, to     *)
(* somebody who takes part, and to the lecturer.                           *)
THEOREM DependentsAlwaysBelong == ClassworkSpec => []DependentsBelong
<1>1. ClassworkSound => DependentsBelong
  BY FitLessonsBelong DEF ClassworkSound
<1> QED BY <1>1, ClassworkIsSound, PTL

(* updateContent, reject, approve, reviseApproved: the text of an approved *)
(* report is the approved one or comes from it by the revisions on record. *)
THEOREM ApprovedTextsAreAccounted == ClassworkSpec => []ApprovedTextIsAccounted
<1>1. ClassworkSound => ApprovedTextIsAccounted
  BY SoundTextsAreAccounted DEF ClassworkSound
<1> QED BY <1>1, ClassworkIsSound, PTL

(* createBulk: an answer with rows means the elements are stored, once.    *)
THEOREM AcknowledgedBatchesAreStored == ClassworkSpec => []AcknowledgedBatchIsStored
<1>1. ClassworkSound => AcknowledgedBatchIsStored
  BY DEF ClassworkSound, RequestsFit
<1> QED BY <1>1, ClassworkIsSound, PTL

(* report templates: at most one default and one enforced template for a   *)
(* scope, whatever was moved between scopes meanwhile.                     *)
THEOREM OneSelectedTemplate == ClassworkSpec => []OneSelectionPerScope
<1>1. ClassworkSound => OneSelectionPerScope
  BY DEF ClassworkSound, TemplatesFit
<1> QED BY <1>1, ClassworkIsSound, PTL

(* approveInstructorAttendanceCorrection: a correction is decided once,    *)
(* approved only from the attendance it saw, together with the change it   *)
(* asks for, and never two of a lecturer wait for one lesson.              *)
DecidedAsSeen ==
    \A q \in RequestIds : asked[q].state # "absent" /\ asked'[q] # asked[q] =>
        /\ asked[q].state = "pending"
        /\ asked'[q].state = "approved" =>
             lesson[asked[q].l].mark = asked[q].before /\ lesson'[asked[q].l].mark = asked[q].wanted

LEMMA RequestsDecidedAsSeen == LessonsSound /\ LessonRequestsNext => DecidedAsSeen
<1> SUFFICES ASSUME LessonsSound, LessonRequestsNext PROVE DecidedAsSeen
  OBVIOUS
<1>1. ASSUME UNCHANGED requestVars PROVE DecidedAsSeen
  BY <1>1 DEF DecidedAsSeen, requestVars
<1>2. ASSUME NEW p \in Instances, AskApproval(p) \/ AskBatch(p) \/ ReplayBatch(p) PROVE DecidedAsSeen
  <2>1. asked' = asked
    BY <1>2 DEF AskApproval, AskBatch, ReplayBatch, requestVars
  <2> QED BY <2>1 DEF DecidedAsSeen
<1>3. ASSUME NEW p \in Instances, RequestCorrection(p) \/ StoreBatch(p) PROVE DecidedAsSeen
  <2>1. PICK n : \A q \in RequestIds : q \notin NextIds(n) => asked'[q] = asked[q]
    <3>1. ASSUME RequestCorrection(p) PROVE \A q \in RequestIds : q \notin NextIds(1) => asked'[q] = asked[q]
      BY <3>1 DEF RequestCorrection, Store
    <3>2. ASSUME StoreBatch(p)
          PROVE  \A q \in RequestIds : q \notin NextIds(Len(run[p].cmd.body)) => asked'[q] = asked[q]
      BY <3>2 DEF StoreBatch, Store
    <3> QED BY <1>3, <3>1, <3>2
  <2> QED BY <2>1, NextIdsAreUnused DEF DecidedAsSeen
<1>4. ASSUME NEW p \in Instances, ApproveCorrection(p) \/ Decline(p) PROVE DecidedAsSeen
  BY <1>4, ApproveCorrectionFits, DeclineFits DEF DecidedAsSeen
<1> QED BY <1>1, <1>2, <1>3, <1>4 DEF LessonRequestsNext

(* requestCorrection, approve, reject, withdraw: a request is decided once,*)
(* a correction is approved only while the attendance is what it saw, in   *)
(* the step that makes it what it asks for; and no lecturer has two        *)
(* corrections waiting for one lesson.                                     *)
THEOREM CorrectionsAreDecidedAsSeen == ClassworkSpec => CorrectionsChangeWhatWasSeen
<1>1. ASSUME ClassworkSound, [ClassworkNext]_<<part, run, lessonVars, requestVars, templateVars>>
      PROVE  DecidedAsSeen /\ OnePending'
  <2>1. OnePending'
    BY <1>1, ClassworkNextKeeps DEF ClassworkSound, RequestsFit
  <2>2. CASE UNCHANGED requestVars
    BY <2>1, <2>2 DEF DecidedAsSeen, requestVars
  <2>3. CASE part = "lessons" /\ LessonRequestsNext
    BY <1>1, <2>1, <2>3, RequestsDecidedAsSeen DEF ClassworkSound
  <2> QED BY <1>1, <2>1, <2>2, <2>3 DEF ClassworkNext
<1>2. ASSUME ClassworkSound, [ClassworkNext]_<<part, run, lessonVars, requestVars, templateVars>>
      PROVE  [/\ \A q \in RequestIds : asked[q].state # "absent" /\ asked'[q] # asked[q] =>
                    /\ asked[q].state = "pending"
                    /\ asked'[q].state = "approved" =>
                         /\ lesson[asked[q].l].mark = asked[q].before
                         /\ lesson'[asked[q].l].mark = asked[q].wanted
              /\ \A q, r \in RequestIds :
                   q # r /\ asked'[q].state = "pending" /\ asked'[r].state = "pending" /\ asked'[q].key = NoKey
                       => asked'[q].by # asked'[r].by \/ asked'[q].l # asked'[r].l]_<<lessonVars, requestVars>>
  BY <1>1, <1>2 DEF DecidedAsSeen, OnePending
<1> QED BY <1>2, ClassworkIsSound, PTL DEF ClassworkSpec, CorrectionsChangeWhatWasSeen

-----------------------------------------------------------------------------
(* What lessons are worth, and that a command that lowers it was shown it. *)
Loses(was, is) == was[3] > is[3] \/ was[1] > is[1]

Taught(row) == row.there /\ row.status = "held" /\ row.mark # "absent"

Priced(row, marks, approved, enrolled) ==
    /\ Taught(row) /\ row.teacher # NoLecturer
    /\ row.fee # NoFee \/ Automatic(row, marks, approved, enrolled)

Nothing3 == <<0, 0, 0>>

LEMMA WorthParts ==
    ASSUME NEW row, NEW marks, NEW approved, NEW enrolled
    PROVE  /\ Worth(row, marks, approved, enrolled)[1] = IF Taught(row) THEN 1 ELSE 0
           /\ Worth(row, marks, approved, enrolled)[3] =
                 IF ~Priced(row, marks, approved, enrolled) THEN 0 ELSE IF row.fee # NoFee THEN row.fee ELSE Rate
BY DEF Worth, Taught, Priced

(* A lesson that is not held, or is gone, is worth nothing.                *)
LEMMA NotHeldIsWorthNothing ==
    ASSUME NEW row, NEW marks, NEW approved, NEW enrolled, row.status # "held" \/ ~row.there
    PROVE  Worth(row, marks, approved, enrolled) = Nothing3
BY DEF Worth, Nothing3

(* Who is enrolled does not matter to a lesson held with its participants. *)
LEMMA HeldForGood ==
    ASSUME NEW row, NEW marks, NEW approved, NEW enrolled, NEW others, row.status = "held" => row.roster # {}
    PROVE  Worth(row, marks, approved, enrolled) = Worth(row, marks, approved, others)
<1>1. CASE row.status = "held"
  BY <1>1 DEF Worth, Automatic, Participants
<1>2. CASE row.status # "held"
  BY <1>2, NotHeldIsWorthNothing
<1> QED BY <1>1, <1>2

(* What is the same of a held lesson, or has only grown, loses nothing.    *)
LEMMA WorthOnlyGrows ==
    ASSUME NEW row \in LessonRows, NEW new \in LessonRows, NEW marks, NEW more, NEW approved, NEW further,
           NEW enrolled, NEW others, approved \subseteq further,
           row.status = "held" =>
              /\ row.roster # {} /\ new.there = row.there /\ new.status = "held" /\ new.mark = row.mark
              /\ new.roster = row.roster /\ new.fee = row.fee
              /\ row.teacher # NoLecturer => new.teacher # NoLecturer
              /\ marks \subseteq more
    PROVE  ~Loses(Worth(row, marks, approved, enrolled), Worth(new, more, further, others))
<1>1. new.fee \in Nat \cup {NoFee} /\ Rate \in Nat
  BY RowFields, RateAssumption
<1>2. /\ Worth(new, more, further, others)[1] \in {0, 1}
      /\ Worth(new, more, further, others)[3] \in Nat
  BY <1>1, WorthParts
<1>3. CASE row.status # "held"
  <2>1. Worth(row, marks, approved, enrolled)[1] = 0 /\ Worth(row, marks, approved, enrolled)[3] = 0
    BY <1>3, WorthParts DEF Taught, Priced
  <2> QED BY <1>2, <2>1 DEF Loses
<1>4. CASE row.status = "held"
  <2>1. Taught(row) => Taught(new)
    BY <1>4 DEF Taught
  <2>2. Automatic(row, marks, approved, enrolled) => Automatic(new, more, further, others)
    BY <1>4 DEF Automatic, Participants
  <2>3. Priced(row, marks, approved, enrolled) => Priced(new, more, further, others)
    BY <1>4, <2>1, <2>2 DEF Priced
  <2>4. Worth(row, marks, approved, enrolled)[1] <= Worth(new, more, further, others)[1]
    BY <2>1, WorthParts
  <2>5. Worth(row, marks, approved, enrolled)[3] <= Worth(new, more, further, others)[3]
    <3>1. CASE Priced(row, marks, approved, enrolled)
      BY <1>1, <1>4, <2>3, <3>1, WorthParts
    <3>2. CASE ~Priced(row, marks, approved, enrolled)
      <4>1. Worth(row, marks, approved, enrolled)[3] = 0
        BY <3>2, WorthParts
      <4> QED BY <1>2, <4>1
    <3> QED BY <3>1, <3>2
  <2>6. /\ Worth(row, marks, approved, enrolled)[1] \in {0, 1}
        /\ Worth(row, marks, approved, enrolled)[3] \in Nat
    BY <1>1, <1>4, WorthParts
  <2> QED BY <1>2, <2>4, <2>5, <2>6 DEF Loses
<1> QED BY <1>3, <1>4

(* The learners with an approved report on lesson l.                       *)
Approved(rows, l) ==
    {rows[r].x : r \in {q \in ReportIds : rows[q].live /\ rows[q].l = l /\ rows[q].approval = "approved"}}

LEMMA ApprovedOf ==
    ASSUME NEW db, NEW l
    PROVE  ApprovedFor(db, l) = Approved(db.written, l)
BY DEF ApprovedFor, ReportsOn, Approved

LEMMA WorthNow ==
    ASSUME NEW l
    PROVE  /\ WorthIn(Now, l) = Worth(lesson[l], marked[l], Approved(written, l), cohort)
           /\ WorthIn(Now', l) = Worth(lesson'[l], marked'[l], Approved(written', l), cohort')
<1>1. /\ Now.lesson = lesson /\ Now.marked = marked /\ Now.written = written /\ Now.cohort = cohort
      /\ Now'.lesson = lesson' /\ Now'.marked = marked' /\ Now'.written = written' /\ Now'.cohort = cohort'
  BY DEF Now
<1> QED BY <1>1, ApprovedOf DEF WorthIn

Improves(l) ==
    /\ lesson[l].status = "held" =>
          /\ lesson'[l].there = lesson[l].there /\ lesson'[l].status = "held"
          /\ lesson'[l].mark = lesson[l].mark /\ lesson'[l].roster = lesson[l].roster
          /\ lesson'[l].fee = lesson[l].fee
          /\ lesson[l].teacher # NoLecturer => lesson'[l].teacher # NoLecturer
          /\ marked[l] \subseteq marked'[l]
    /\ \A r \in ReportIds :
          written[r].live /\ written[r].l = l /\ written[r].approval = "approved" =>
              /\ written'[r].live /\ written'[r].l = l /\ written'[r].x = written[r].x
              /\ written'[r].approval = "approved"

LEMMA ImprovedLosesNothing ==
    ASSUME LessonsFit, LessonsFit', HeldWithParticipants(lesson), NEW l \in SeriesLessons, Improves(l)
    PROVE  ~Loses(WorthIn(Now, l), WorthIn(Now', l))
<1>1. lesson[l] \in LessonRows /\ lesson'[l] \in LessonRows
  BY DEF LessonsFit, LessonsTyped
<1>2. Approved(written, l) \subseteq Approved(written', l)
  BY DEF Improves, Approved
<1>3. lesson[l].status = "held" =>
        /\ lesson[l].roster # {} /\ lesson'[l].there = lesson[l].there /\ lesson'[l].status = "held"
        /\ lesson'[l].mark = lesson[l].mark /\ lesson'[l].roster = lesson[l].roster
        /\ lesson'[l].fee = lesson[l].fee
        /\ lesson[l].teacher # NoLecturer => lesson'[l].teacher # NoLecturer
        /\ marked[l] \subseteq marked'[l]
  BY DEF Improves, HeldWithParticipants
<1>4. ~Loses(Worth(lesson[l], marked[l], Approved(written, l), cohort),
             Worth(lesson'[l], marked'[l], Approved(written', l), cohort'))
  BY <1>1, <1>2, <1>3, WorthOnlyGrows
<1> QED BY <1>4, WorthNow

(* A client was shown what the command that ends now makes of lesson l.    *)
WasShown(p, l) ==
    LET c == run[p].cmd IN
    /\ run'[p] = Idle /\ c.op \in Previewed \cup {"price"} /\ l \in LessonTargets(Now, c)
    /\ c.op # "price" =>
         run[p].saw.shown =
             ImpactOn(LessonTargets(Now, c), FALSE,
                 [t \in LessonTargets(Now, c) |-> WorthIn(Now, t)],
                 [t \in LessonTargets(Now, c) |-> WorthIn(Now', t)])

LossShown(l) == Loses(WorthIn(Now, l), WorthIn(Now', l)) => \E p \in Instances : WasShown(p, l)

LEMMA WorthIsNat ==
    ASSUME NEW row \in LessonRows, NEW marks, NEW approved, NEW enrolled
    PROVE  /\ Worth(row, marks, approved, enrolled)[1] \in Nat
           /\ Worth(row, marks, approved, enrolled)[3] \in Nat
<1>1. row.fee \in Nat \cup {NoFee} /\ Rate \in Nat
  BY RowFields, RateAssumption
<1> QED BY <1>1, WorthParts

LEMMA NothingToLose ==
    ASSUME LessonsFit, LessonsFit', NEW l \in SeriesLessons, Loses(WorthIn(Now, l), WorthIn(Now', l))
    PROVE  /\ lesson[l].status = "held" /\ lesson[l].there
           /\ WorthIn(Now, l) # WorthIn(Now', l)
<1>1. lesson[l] \in LessonRows /\ lesson'[l] \in LessonRows
  BY DEF LessonsFit, LessonsTyped
<1>2. /\ WorthIn(Now, l)[1] \in Nat /\ WorthIn(Now, l)[3] \in Nat
      /\ WorthIn(Now', l)[1] \in Nat /\ WorthIn(Now', l)[3] \in Nat
  BY <1>1, WorthNow, WorthIsNat
<1>3. WorthIn(Now, l) # WorthIn(Now', l)
  BY <1>2 DEF Loses
<1>4. ASSUME lesson[l].status # "held" \/ ~lesson[l].there PROVE FALSE
  <2>1. WorthIn(Now, l) = Nothing3
    BY <1>4, WorthNow, NotHeldIsWorthNothing
  <2> QED BY <1>2, <2>1 DEF Loses, Nothing3
<1> QED BY <1>3, <1>4

(* A command holds all lessons that are in its scope by now.               *)
LEMMA SameTargets ==
    ASSUME LessonsSound, NEW p \in Instances, "now" \in DOMAIN run[p].saw,
           run[p].cmd.op \in OfLessons \cup OfReports
    PROVE  LessonTargets(Now, run[p].cmd) = LessonTargets(Saw(p), run[p].cmd)
<1>1. run[p].cmd.op # "none"
  BY DEF OfLessons, OfReports, Edits
<1>2. \A l \in LessonTargets(Saw(p), run[p].cmd) : KnowsLesson(p, l)
  BY <1>1, KnownLesson
<1>3. \A l \in SeriesLessons : lesson[l].there => Saw(p).lesson[l].there
  BY <1>1 DEF LessonsSound, LessonFits, Knows
<1> SUFFICES ASSUME NEW c, c = run[p].cmd, NEW db, db = Saw(p) PROVE LessonTargets(Now, c) = LessonTargets(db, c)
  OBVIOUS
<1>4. ThereIn(Now) = {l \in SeriesLessons : lesson[l].there} /\ ThereIn(db) = {l \in SeriesLessons : db.lesson[l].there}
  BY DEF ThereIn, Now
<1>5. ASSUME NEW l \in SeriesLessons, l \in LessonTargets(db, c) PROVE l \in ThereIn(Now) <=> l \in ThereIn(db)
  BY <1>2, <1>4, <1>5 DEF KnowsLesson
<1>6. ThereIn(Now) \subseteq ThereIn(db) /\ ThereIn(db) \subseteq SeriesLessons
  BY <1>3, <1>4
<1>7. CASE "scope" \notin DOMAIN c \/ c.scope = "this"
  BY <1>7 DEF LessonTargets
<1>8. CASE ~("scope" \notin DOMAIN c \/ c.scope = "this")
  <2>1. /\ LessonTargets(Now, c) = {l \in ThereIn(Now) : c.scope = "all" \/ l >= c.l} \cup {c.l}
        /\ LessonTargets(db, c) = {l \in ThereIn(db) : c.scope = "all" \/ l >= c.l} \cup {c.l}
    BY <1>8 DEF LessonTargets
  <2> QED BY <1>5, <1>6, <2>1
<1> QED BY <1>7, <1>8

(* What a command reads of the lessons it holds is worth what they are.    *)
LEMMA KnownWorth ==
    ASSUME LessonsSound, HeldWithParticipants(lesson), NEW p \in Instances, NEW l \in SeriesLessons, KnowsLesson(p, l)
    PROVE  /\ WorthIn(Saw(p), l) = WorthIn(Now, l)
           /\ ApprovedFor(Saw(p), l) = Approved(written, l)
<1>1. ApprovedFor(Saw(p), l) = Approved(written, l)
  BY KnownReports DEF ApprovedFor, Approved
<1>2. lesson[l].status = "held" => lesson[l].roster # {}
  BY DEF HeldWithParticipants
<1>3. WorthIn(Saw(p), l) = Worth(lesson[l], marked[l], Approved(written, l), Saw(p).cohort)
  BY <1>1 DEF WorthIn, KnowsLesson
<1> QED BY <1>1, <1>2, <1>3, HeldForGood, WorthNow

(* A command that makes of its lessons what its client was shown.          *)
LEMMA Previewing ==
    ASSUME LessonsSound, LessonsFit', HeldWithParticipants(lesson), NEW p \in Instances,
           "now" \in DOMAIN run[p].saw, run[p].cmd.op \in Previewed, End(p),
           NEW db, db = Saw(p), NEW c, c = run[p].cmd,
           \A t \in LessonTargets(db, c) : ~db.lesson[t].linked,
           NEW l \in LessonTargets(db, c), Loses(WorthIn(Now, l), WorthIn(Now', l)),
           \A t \in LessonTargets(db, c) :
              WorthIn(Now', t) = Worth(Edited(db, c, t), MarksAfter(db, c, t), ApprovedAfter(db, c, t), db.cohort),
           Changes(Impact(db, c)) => Acknowledged(p, Impact(db, c))
    PROVE  WasShown(p, l)
<1>1. c.op \in OfLessons \cup OfReports /\ c.op # "none" /\ c.op # "price"
  BY DEF Previewed, OfLessons, OfReports, Edits
<1> DEFINE T == LessonTargets(db, c)
           before == [t \in T |-> WorthIn(Now, t)]
           after  == [t \in T |-> WorthIn(Now', t)]
<1>2. T \subseteq SeriesLessons /\ \A t \in T : KnowsLesson(p, t)
  BY <1>1, KnownLesson
<1>3. LessonTargets(Now, c) = T
  BY <1>1, SameTargets
<1>4. \A t \in T : WorthIn(db, t) = WorthIn(Now, t)
  BY <1>2, KnownWorth
<1>5. [t \in T |-> WorthIn(db, t)] = before
  BY <1>4
<1>6. [t \in T |-> Worth(Edited(db, c, t), MarksAfter(db, c, t), ApprovedAfter(db, c, t), db.cohort)] = after
  OBVIOUS
<1>7. (\E t \in T : db.lesson[t].linked) = FALSE
  OBVIOUS
<1>8. Impact(db, c) = ImpactOn(T, FALSE, before, after)
  BY <1>5, <1>6, <1>7 DEF Impact
<1>9. before # after
  <2>1. WorthIn(Now, l) # WorthIn(Now', l)
    BY <1>2, NothingToLose DEF LessonsSound
  <2>2. before[l] = WorthIn(Now, l) /\ after[l] = WorthIn(Now', l)
    OBVIOUS
  <2> QED BY <2>1, <2>2
<1> HIDE DEF before, after
<1>10. ImpactOn(T, FALSE, before, after).changed
  BY <1>9 DEF ImpactOn
<1>11. run[p].saw.shown = ImpactOn(T, FALSE, before, after)
  BY <1>8, <1>10 DEF Changes, Acknowledged
<1>12. run'[p] = Idle
  BY DEF LessonsSound, End
<1> QED BY <1>1, <1>3, <1>11, <1>12 DEF WasShown, before, after

-----------------------------------------------------------------------------
(* The actions that take nothing from any lesson.                          *)
LEMMA SameRowsImprove ==
    ASSUME UNCHANGED <<lesson, marked, written>>, NEW l \in SeriesLessons
    PROVE  Improves(l)
BY DEF Improves

LEMMA AssignImproves ==
    ASSUME LessonsSound, NEW p \in Instances, Assign(p), NEW l \in SeriesLessons
    PROVE  Improves(l)
<1> SUFFICES ASSUME NEW c, c = run[p].cmd PROVE Improves(l)
  OBVIOUS
<1>1. /\ Doing(p, "assign") /\ lesson' = [lesson EXCEPT ![c.l].teacher = c.teacher]
      /\ marked' = marked /\ written' = written
      /\ c.teacher = NoLecturer => Saw(p).lesson[c.l].status # "held"
  BY DEF Assign
<1>2. c.l \in SeriesLessons /\ Saw(p).lesson[c.l] = lesson[c.l]
  BY <1>1, AboutOne DEF OfLessons, KnowsLesson
<1>3. lesson \in [SeriesLessons -> LessonRows]
  BY LessonTyping DEF LessonsSound
<1>4. CASE l = c.l
  <2>1. lesson'[l] = [lesson[l] EXCEPT !.teacher = c.teacher]
    BY <1>1, <1>2, <1>3, <1>4
  <2> QED BY <1>1, <1>2, <1>3, <1>4, <2>1 DEF Improves, LessonRows
<1>5. CASE l # c.l
  BY <1>1, <1>2, <1>3, <1>5 DEF Improves
<1> QED BY <1>4, <1>5

LEMMA LinkOrReleaseImproves ==
    ASSUME LessonsSound, NEW p \in Instances, LinkOrRelease(p), NEW l \in SeriesLessons
    PROVE  Improves(l)
<1> SUFFICES ASSUME NEW c, c = run[p].cmd PROVE Improves(l)
  OBVIOUS
<1>1. /\ lesson' = [lesson EXCEPT ![c.l].linked = ~lesson[c.l].linked]
      /\ marked' = marked /\ written' = written
  BY DEF LinkOrRelease
<1>2. lesson \in [SeriesLessons -> LessonRows]
  BY LessonTyping DEF LessonsSound
<1>3. lesson'[l].there = lesson[l].there /\ lesson'[l].status = lesson[l].status /\ lesson'[l].mark = lesson[l].mark
      /\ lesson'[l].roster = lesson[l].roster /\ lesson'[l].fee = lesson[l].fee /\ lesson'[l].teacher = lesson[l].teacher
  BY <1>1, <1>2 DEF LessonRows
<1> QED BY <1>1, <1>3 DEF Improves

(* FactsComplete is of a lesson that is still scheduled.                   *)
LEMMA AttendImproves ==
    ASSUME LessonsSound, NEW p \in Instances, Attend(p), NEW l \in SeriesLessons
    PROVE  Improves(l)
<1> SUFFICES ASSUME NEW c, c = run[p].cmd, NEW row, row = Saw(p).lesson[c.l],
                    NEW marks, marks = Saw(p).marked[c.l] \cup {c.x}
             PROVE  Improves(l)
  OBVIOUS
<1>1. /\ Doing(p, "attend") /\ marked' = [marked EXCEPT ![c.l] = marked[c.l] \cup {c.x}] /\ written' = written
      /\ lesson' = [lesson EXCEPT ![c.l] = IF FactsComplete(row, marks, Saw(p).cohort)
                                             THEN HeldIfComplete(row, marks, Saw(p).cohort) ELSE lesson[c.l]]
  BY DEF Attend
<1>2. c.l \in SeriesLessons /\ row = lesson[c.l]
  BY <1>1, AboutOne DEF OfLessons, KnowsLesson
<1>3. lesson \in [SeriesLessons -> LessonRows] /\ marked \in [SeriesLessons -> SUBSET Learners]
  BY LessonTyping DEF LessonsSound
<1>4. marked[l] \subseteq marked'[l]
  BY <1>1, <1>2, <1>3
<1>5. lesson[l].status = "held" => lesson'[l] = lesson[l]
  BY <1>1, <1>2, <1>3 DEF FactsComplete
<1> QED BY <1>1, <1>4, <1>5 DEF Improves

LEMMA ApproveImproves ==
    ASSUME LessonsSound, NEW p \in Instances, Approve(p), NEW l \in SeriesLessons
    PROVE  Improves(l)
<1> SUFFICES ASSUME NEW c, c = run[p].cmd, NEW row, row = Saw(p).lesson[Report(p).l]
             PROVE  Improves(l)
  OBVIOUS
<1>1. /\ Doing(p, "approve") /\ marked' = marked /\ Report(p).approval = "submitted"
      /\ written' = [written EXCEPT ![c.r] = [Stored(p) EXCEPT !.approval = "approved"]]
      /\ lesson' = [lesson EXCEPT ![c.l] = IF FactsComplete(row, Saw(p).marked[c.l], Saw(p).cohort)
                        THEN HeldIfComplete(row, Saw(p).marked[c.l], Saw(p).cohort) ELSE lesson[c.l]]
  BY DEF Approve, SetReport
<1>2. /\ c.l \in SeriesLessons /\ c.l = written[c.r].l /\ c.r \in ReportIds
      /\ Report(p) = written[c.r] /\ Saw(p).lesson[c.l] = lesson[c.l]
  BY <1>1, AboutReport DEF OfReports, KnowsLesson, Stored
<1>3. lesson \in [SeriesLessons -> LessonRows] /\ written \in [ReportIds -> ReportRows]
  BY LessonTyping DEF LessonsSound
<1>4. row = lesson[c.l]
  BY <1>2
<1>5. lesson[l].status = "held" => lesson'[l] = lesson[l]
  BY <1>1, <1>2, <1>3, <1>4 DEF FactsComplete
<1>6. \A r \in ReportIds : written[r].approval = "approved" => written'[r] = written[r]
  BY <1>1, <1>2, <1>3
<1> QED BY <1>1, <1>5, <1>6 DEF Improves

(* One report changes that was not approved, or stays so.                  *)
LEMMA OneReportImproves ==
    ASSUME NEW q \in ReportIds, NEW new, written' = [written EXCEPT ![q] = new],
           written \in [ReportIds -> ReportRows], UNCHANGED <<lesson, marked>>, NEW l \in SeriesLessons,
           written[q].live /\ written[q].l = l /\ written[q].approval = "approved" =>
              new.live /\ new.l = l /\ new.x = written[q].x /\ new.approval = "approved"
    PROVE  Improves(l)
<1>1. written'[q] = new /\ \A r \in ReportIds \ {q} : written'[r] = written[r]
  OBVIOUS
<1> QED BY <1>1 DEF Improves

LEMMA WriteImproves ==
    ASSUME LessonsSound, NEW p \in Instances, Write(p), NEW l \in SeriesLessons
    PROVE  Improves(l)
<1>0. PICK r \in ReportIds : \E new : written[r] = NoReport /\ written' = [written EXCEPT ![r] = new]
  BY DEF Write
<1>1. PICK new : written[r] = NoReport /\ written' = [written EXCEPT ![r] = new]
  BY <1>0
<1>2. written \in [ReportIds -> ReportRows] /\ ~written[r].live /\ UNCHANGED <<lesson, marked>>
  BY <1>1, LessonTyping DEF LessonsSound, NoReport, Write
<1> QED BY <1>1, <1>2, OneReportImproves

LEMMA ReportImproves ==
    ASSUME LessonsSound, NEW p \in Instances, Rewrite(p) \/ WithdrawDraft(p) \/ Submit(p) \/ Revise(p),
           NEW l \in SeriesLessons
    PROVE  Improves(l)
<1> SUFFICES ASSUME NEW c, c = run[p].cmd, NEW old, old = Stored(p) PROVE Improves(l)
  OBVIOUS
<1>1. PICK op \in OfReports : Doing(p, op)
  BY DEF Rewrite, WithdrawDraft, Submit, Revise, OfReports
<1>2. c.r \in ReportIds /\ old = written[c.r] /\ Report(p) = old
  BY <1>1, AboutReport DEF Stored
<1>3. written \in [ReportIds -> ReportRows] /\ old \in ReportRows
  BY <1>2, LessonTyping DEF LessonsSound
<1>4. UNCHANGED <<lesson, marked>>
  BY DEF Rewrite, WithdrawDraft, Submit, Revise
<1>5. CASE (Rewrite(p) \/ WithdrawDraft(p) \/ Submit(p)) /\ ~Revise(p)
  <2>1. old.approval # "approved"
    BY <1>2, <1>5 DEF Rewrite, MayRewrite, WithdrawDraft, Submit
  <2>2. PICK new : written' = [written EXCEPT ![c.r] = new]
    BY <1>5 DEF Rewrite, WithdrawDraft, Submit, SetReport
  <2> QED BY <1>2, <1>3, <1>4, <2>1, <2>2, OneReportImproves
<1>6. CASE Revise(p)
  <2>1. written' = [written EXCEPT ![c.r] = [old EXCEPT !.text = c.text, !.version = old.version + 1]]
    BY <1>6 DEF Revise, SetReport
  <2> SUFFICES ASSUME NEW new, new = [old EXCEPT !.text = c.text, !.version = old.version + 1] PROVE Improves(l)
    OBVIOUS
  <2>2. new.live = old.live /\ new.l = old.l /\ new.x = old.x /\ new.approval = old.approval
    BY <1>3 DEF ReportRows
  <2>3. written' = [written EXCEPT ![c.r] = new]
    BY <2>1
  <2>4. written[c.r].live /\ written[c.r].l = l /\ written[c.r].approval = "approved" =>
           new.live /\ new.l = l /\ new.x = written[c.r].x /\ new.approval = "approved"
    BY <1>2, <2>2
  <2> QED BY <1>2, <1>3, <1>4, <2>3, <2>4, OneReportImproves
<1> QED BY <1>5, <1>6

-----------------------------------------------------------------------------
(* The actions that may lower what a lesson is worth, each acknowledged.   *)
LEMMA UpdateShows ==
    ASSUME LessonsSound, LessonsFit', HeldWithParticipants(lesson), HeldWithParticipants(lesson'),
           NEW p \in Instances, Update(p), NEW l \in SeriesLessons
    PROVE  LossShown(l)
<1> SUFFICES ASSUME NEW c, c = run[p].cmd, NEW db, db = Saw(p), NEW T, T = LessonTargets(db, c),
                    Loses(WorthIn(Now, l), WorthIn(Now', l))
             PROVE  WasShown(p, l)
  BY DEF LossShown
<1>1. /\ c.op \in Edits /\ "now" \in DOMAIN run[p].saw /\ End(p)
      /\ \A t \in T : ~db.lesson[t].linked
      /\ Changes(Impact(db, c)) /\ (\E t \in T : db.lesson[t].status = "held") => Acknowledged(p, Impact(db, c))
      /\ lesson' = [t \in SeriesLessons |-> IF t \in T THEN Edited(db, c, t) ELSE lesson[t]]
      /\ marked' = [t \in SeriesLessons |-> IF c.op = "move" /\ t \in T THEN {} ELSE marked[t]]
      /\ cohort' = cohort /\ written' = written
  BY DEF Update, Doing, Locked
<1>2. c.op \in Previewed /\ c.op \in OfLessons /\ c.op # "none" /\ c.op # "clear" /\ c.op # "reject" /\ c.op # "remove"
  BY <1>1 DEF Previewed, OfLessons, Edits
<1>3. SawTyped(p) /\ c.l \in SeriesLessons /\ T \subseteq SeriesLessons /\ \A t \in T : KnowsLesson(p, t)
  BY <1>1, <1>2, KnownLesson
<1>4. db.lesson \in [SeriesLessons -> LessonRows]
  BY <1>3 DEF SawTyped
<1>5. lesson[l].status = "held"
  BY NothingToLose DEF LessonsSound
<1>6. l \in T
  <2> SUFFICES ASSUME l \notin T PROVE FALSE
    OBVIOUS
  <2>1. lesson'[l] = lesson[l] /\ marked'[l] = marked[l]
    BY <1>1
  <2>2. Improves(l)
    BY <1>1, <2>1 DEF Improves
  <2> QED BY <2>2, ImprovedLosesNothing DEF LessonsSound
<1>7. Changes(Impact(db, c)) => Acknowledged(p, Impact(db, c))
  <2>1. db.lesson[l].status = "held"
    BY <1>3, <1>5, <1>6 DEF KnowsLesson
  <2> QED BY <1>1, <1>6, <2>1
<1>8. ASSUME NEW t \in T
      PROVE  WorthIn(Now', t) = Worth(Edited(db, c, t), MarksAfter(db, c, t), ApprovedAfter(db, c, t), db.cohort)
  <2>1. lesson'[t] = Edited(db, c, t)
    BY <1>1, <1>3
  <2>2. WorthIn(Now', t) = Worth(lesson'[t], marked'[t], Approved(written, t), cohort)
    BY <1>1, WorthNow
  <2>3. MarksAfter(db, c, t) = marked[t] /\ ApprovedAfter(db, c, t) = Approved(written, t)
    <3>1. db.marked[t] = marked[t] /\ ApprovedFor(db, t) = Approved(written, t)
      BY <1>3, KnownWorth DEF KnowsLesson
    <3> QED BY <1>2, <3>1 DEF MarksAfter, ApprovedAfter
  <2>4. CASE c.op = "move"
    <3>1. Edited(db, c, t).status = "scheduled"
      <4>1. db.lesson[t] \in LessonRows /\ db.lesson[c.l] \in LessonRows
        BY <1>3, <1>4
      <4>2. CASE t = c.l
        <5>1. Edited(db, c, t) = [db.lesson[c.l] EXCEPT !.status = "scheduled", !.mark = "none", !.past = c.past]
          BY <2>4, <4>2 DEF Edited, First
        <5> QED BY <4>1, <5>1 DEF LessonRows
      <4>3. CASE t # c.l
        <5>1. Edited(db, c, t) = [db.lesson[t] EXCEPT !.status = "scheduled", !.mark = "none", !.past = c.past,
                                                     !.teacher = db.lesson[c.l].teacher]
          BY <2>4, <4>3 DEF Edited
        <5> QED BY <4>1, <5>1 DEF LessonRows
      <4> QED BY <4>2, <4>3
    <3> QED BY <2>1, <2>2, <3>1, NotHeldIsWorthNothing
  <2>5. CASE c.op # "move"
    <3>1. marked'[t] = marked[t]
      BY <1>1, <1>3, <2>5
    <3>2. lesson'[t].status = "held" => lesson'[t].roster # {}
      BY <1>3 DEF HeldWithParticipants
    <3>3. Worth(lesson'[t], marked[t], Approved(written, t), cohort)
            = Worth(lesson'[t], marked[t], Approved(written, t), db.cohort)
      BY <3>2, HeldForGood
    <3> QED BY <2>1, <2>2, <2>3, <3>1, <3>3
  <2> QED BY <2>4, <2>5
<1> QED BY <1>1, <1>2, <1>6, <1>7, <1>8, Previewing

LEMMA RemoveLessonShows ==
    ASSUME LessonsSound, LessonsFit', HeldWithParticipants(lesson), NEW p \in Instances, RemoveLesson(p),
           NEW l \in SeriesLessons
    PROVE  LossShown(l)
<1> SUFFICES ASSUME NEW c, c = run[p].cmd, NEW db, db = Saw(p), NEW T, T = LessonTargets(db, c),
                    Loses(WorthIn(Now, l), WorthIn(Now', l))
             PROVE  WasShown(p, l)
  BY DEF LossShown
<1>1. /\ c.op = "remove" /\ "now" \in DOMAIN run[p].saw /\ End(p)
      /\ \A t \in T : ~db.lesson[t].linked
      /\ Changes(Impact(db, c)) => Acknowledged(p, Impact(db, c))
      /\ lesson' = [t \in SeriesLessons |-> IF t \in T THEN [lesson[t] EXCEPT !.there = FALSE] ELSE lesson[t]]
      /\ marked' = [t \in SeriesLessons |-> IF t \in T THEN {} ELSE marked[t]]
      /\ written' = [r \in ReportIds |->
                       IF written[r].l \in T THEN [written[r] EXCEPT !.live = FALSE] ELSE written[r]]
  BY DEF RemoveLesson, Doing, Locked
<1>2. c.op \in Previewed /\ c.op \in OfLessons /\ c.op # "none"
  BY <1>1 DEF Previewed, OfLessons
<1>3. SawTyped(p) /\ c.l \in SeriesLessons /\ T \subseteq SeriesLessons
  BY <1>1, <1>2, KnownLesson
<1>4. db.lesson \in [SeriesLessons -> LessonRows] /\ lesson \in [SeriesLessons -> LessonRows]
  BY <1>3, LessonTyping DEF SawTyped, LessonsSound
<1>5. l \in T
  <2> SUFFICES ASSUME l \notin T PROVE FALSE
    OBVIOUS
  <2>1. lesson'[l] = lesson[l] /\ marked'[l] = marked[l]
    BY <1>1
  <2>2. \A r \in ReportIds : written[r].l = l => written'[r] = written[r]
    BY <1>1
  <2>3. Improves(l)
    BY <2>1, <2>2 DEF Improves
  <2> QED BY <2>3, ImprovedLosesNothing DEF LessonsSound
<1>6. ASSUME NEW t \in T
      PROVE  WorthIn(Now', t) = Worth(Edited(db, c, t), MarksAfter(db, c, t), ApprovedAfter(db, c, t), db.cohort)
  <2>1. lesson[t] \in LessonRows /\ db.lesson[t] \in LessonRows
    BY <1>3, <1>4
  <2>2. lesson'[t] = [lesson[t] EXCEPT !.there = FALSE]
    BY <1>1, <1>3
  <2>3. Edited(db, c, t) = [db.lesson[t] EXCEPT !.there = FALSE]
    BY <1>1 DEF Edited, First
  <2>4. ~lesson'[t].there /\ ~Edited(db, c, t).there
    BY <2>1, <2>2, <2>3 DEF LessonRows
  <2> QED BY <2>4, WorthNow, NotHeldIsWorthNothing
<1> QED BY <1>1, <1>2, <1>5, <1>6, Previewing

(* A command without a scope is about its one lesson.                      *)
LEMMA OneTarget ==
    ASSUME NEW c, Sent(c), c.op \notin Edits \cup {"remove"}, NEW db
    PROVE  LessonTargets(db, c) = {c.l}
BY DEF Sent, LessonTargets

LEMMA ClearMarkShows ==
    ASSUME LessonsSound, LessonsFit', HeldWithParticipants(lesson), NEW p \in Instances, ClearMark(p),
           NEW l \in SeriesLessons
    PROVE  LossShown(l)
<1> SUFFICES ASSUME NEW c, c = run[p].cmd, NEW db, db = Saw(p), Loses(WorthIn(Now, l), WorthIn(Now', l))
             PROVE  WasShown(p, l)
  BY DEF LossShown
<1>1. /\ Doing(p, "clear") /\ c.op = "clear" /\ "now" \in DOMAIN run[p].saw /\ End(p)
      /\ ~db.lesson[c.l].linked
      /\ Changes(Impact(db, c)) => Acknowledged(p, Impact(db, c))
      /\ marked' = [marked EXCEPT ![c.l] = marked[c.l] \ {c.x}] /\ written' = written
      /\ lesson' = IF db.lesson[c.l].status = "held" THEN [lesson EXCEPT ![c.l].status = "scheduled"] ELSE lesson
  BY DEF ClearMark, Doing, Locked
<1>2. c.op \in Previewed /\ c.op \in OfLessons /\ c.op \notin Edits \cup {"remove"}
  BY <1>1 DEF Previewed, OfLessons, Edits
<1>3. /\ Sent(c) /\ SawTyped(p) /\ c.l \in SeriesLessons /\ KnowsLesson(p, c.l)
  BY <1>1, <1>2, AboutOne
<1>4. LessonTargets(db, c) = {c.l}
  BY <1>2, <1>3, OneTarget
<1>5. lesson \in [SeriesLessons -> LessonRows] /\ db.lesson[c.l] = lesson[c.l] /\ lesson[l].status = "held"
  BY <1>3, LessonTyping, NothingToLose DEF KnowsLesson, LessonsSound
<1>6. l = c.l
  <2> SUFFICES ASSUME l # c.l PROVE FALSE
    OBVIOUS
  <2>1. lesson'[l] = lesson[l] /\ marked'[l] = marked[l]
    BY <1>1, <1>5, LessonTyping DEF LessonsSound
  <2>2. Improves(l)
    BY <1>1, <2>1 DEF Improves
  <2> QED BY <2>2, ImprovedLosesNothing DEF LessonsSound
<1>7. lesson'[l].status = "scheduled"
  BY <1>1, <1>5, <1>6 DEF LessonRows
<1>8. Edited(db, c, l).status = "scheduled"
  <2>1. Edited(db, c, l) = [lesson[l] EXCEPT !.status = IF lesson[l].status = "held" THEN "scheduled" ELSE lesson[l].status]
    BY <1>1, <1>5, <1>6 DEF Edited, First
  <2> QED BY <1>5, <2>1 DEF LessonRows
<1>9. WorthIn(Now', l) = Worth(Edited(db, c, l), MarksAfter(db, c, l), ApprovedAfter(db, c, l), db.cohort)
  BY <1>7, <1>8, WorthNow, NotHeldIsWorthNothing
<1> QED BY <1>1, <1>2, <1>4, <1>6, <1>9, Previewing

LEMMA RejectReportShows ==
    ASSUME LessonsSound, LessonsFit', HeldWithParticipants(lesson), NEW p \in Instances, RejectReport(p),
           NEW l \in SeriesLessons
    PROVE  LossShown(l)
<1> SUFFICES ASSUME NEW c, c = run[p].cmd, NEW db, db = Saw(p), NEW old, old = Stored(p),
                    Loses(WorthIn(Now, l), WorthIn(Now', l))
             PROVE  WasShown(p, l)
  BY DEF LossShown
<1>1. /\ Doing(p, "reject") /\ c.op = "reject" /\ "now" \in DOMAIN run[p].saw /\ End(p)
      /\ Report(p).approval = "approved" /\ db.lesson[Report(p).l].there =>
            ~db.lesson[Report(p).l].linked /\ (Changes(Impact(db, c)) => Acknowledged(p, Impact(db, c)))
      /\ Report(p).live
      /\ written' = [written EXCEPT ![c.r] = [old EXCEPT !.approval = "rejected"]]
      /\ lesson' = lesson /\ marked' = marked /\ cohort' = cohort
  BY DEF RejectReport, Doing, Locked, SetReport
<1>2. c.op \in Previewed /\ c.op \in OfReports /\ c.op \notin Edits \cup {"remove"}
  BY <1>1 DEF Previewed, OfReports, Edits
<1>3. /\ Sent(c) /\ c.l \in SeriesLessons /\ KnowsLesson(p, c.l) /\ c.r \in ReportIds
      /\ c.l = written[c.r].l /\ Report(p) = old /\ old = written[c.r]
  BY <1>1, <1>2, AboutReport DEF Stored
<1>4. LessonTargets(db, c) = {c.l}
  BY <1>2, <1>3, OneTarget
<1>5. written \in [ReportIds -> ReportRows] /\ OneReportEach /\ ReportFits(c.r)
  BY <1>3, LessonTyping DEF LessonsSound, LessonsFit
<1>6. l = c.l /\ old.approval = "approved"
  <2> SUFFICES ASSUME ~(l = c.l /\ old.approval = "approved") PROVE FALSE
    OBVIOUS
  <2>1. ~(written[c.r].live /\ written[c.r].l = l /\ written[c.r].approval = "approved")
    BY <1>3
  <2>2. PICK new : written' = [written EXCEPT ![c.r] = new]
    BY <1>1
  <2>3. Improves(l)
    BY <1>1, <1>3, <1>5, <2>1, <2>2, OneReportImproves
  <2> QED BY <2>3, ImprovedLosesNothing DEF LessonsSound
<1>7. /\ ~db.lesson[c.l].linked
      /\ Changes(Impact(db, c)) => Acknowledged(p, Impact(db, c))
  <2>1. lesson[c.l].there /\ db.lesson[c.l] = lesson[c.l]
    BY <1>1, <1>3, <1>5 DEF ReportFits, KnowsLesson
  <2> QED BY <1>1, <1>3, <1>6, <2>1
<1>8. Approved(written', l) = Approved(written, l) \ {old.x}
  <2>1. /\ \A q \in ReportIds \ {c.r} : written'[q] = written[q]
        /\ written'[c.r].approval = "rejected"
    <3>1. /\ \A q \in ReportIds \ {c.r} : written'[q] = written[q]
          /\ written'[c.r] = [old EXCEPT !.approval = "rejected"] /\ old \in ReportRows
      BY <1>1, <1>3, <1>5
    <3> QED BY <3>1, DecidedReport
  <2>2. \A q \in ReportIds : written[q].live /\ written[q].l = l /\ written[q].x = old.x => q = c.r
    BY <1>1, <1>3, <1>5, <1>6 DEF OneReportEach
  <2>3. ASSUME NEW x PROVE x \in Approved(written', l) <=> x \in Approved(written, l) \ {old.x}
    <3>1. x \in Approved(written', l) <=>
             \E q \in ReportIds : written'[q].live /\ written'[q].l = l /\ written'[q].approval = "approved" /\ x = written'[q].x
      BY DEF Approved
    <3>2. x \in Approved(written, l) <=>
             \E q \in ReportIds : written[q].live /\ written[q].l = l /\ written[q].approval = "approved" /\ x = written[q].x
      BY DEF Approved
    <3> QED BY <1>3, <2>1, <2>2, <3>1, <3>2
  <2> QED BY <2>3
<1>9. WorthIn(Now', l) = Worth(Edited(db, c, l), MarksAfter(db, c, l), ApprovedAfter(db, c, l), db.cohort)
  <2>1. Edited(db, c, l) = lesson[l] /\ MarksAfter(db, c, l) = marked[l]
    BY <1>1, <1>3, <1>6 DEF Edited, First, MarksAfter, KnowsLesson
  <2>2. ApprovedAfter(db, c, l) = Approved(written, l) \ {old.x}
    <3>1. ApprovedFor(db, l) = Approved(written, l) /\ db.written[c.r] = old
      BY <1>3, <1>6, KnownWorth DEF KnowsLesson
    <3> QED BY <1>1, <3>1 DEF ApprovedAfter
  <2>3. WorthIn(Now', l) = Worth(lesson[l], marked[l], Approved(written, l) \ {old.x}, cohort)
    BY <1>1, <1>8, WorthNow
  <2>4. lesson[l].status = "held" => lesson[l].roster # {}
    BY DEF HeldWithParticipants
  <2> QED BY <2>1, <2>2, <2>3, <2>4, HeldForGood
<1> QED BY <1>1, <1>2, <1>4, <1>6, <1>7, <1>9, Previewing

LEMMA PriceShows ==
    ASSUME LessonsSound, LessonsFit', HeldWithParticipants(lesson), NEW p \in Instances, Price(p),
           NEW l \in SeriesLessons
    PROVE  LossShown(l)
<1> SUFFICES ASSUME NEW c, c = run[p].cmd, Loses(WorthIn(Now, l), WorthIn(Now', l)) PROVE WasShown(p, l)
  BY DEF LossShown
<1>1. /\ Doing(p, "price") /\ c.op = "price" /\ End(p) /\ lesson' = [lesson EXCEPT ![c.l].fee = c.fee]
      /\ marked' = marked /\ written' = written
  BY DEF Price, Doing
<1>2. c.l \in SeriesLessons
  BY <1>1, AboutOne DEF OfLessons
<1>3. l = c.l
  <2> SUFFICES ASSUME l # c.l PROVE FALSE
    OBVIOUS
  <2>1. lesson'[l] = lesson[l]
    BY <1>1, LessonTyping DEF LessonsSound
  <2>2. Improves(l)
    BY <1>1, <2>1 DEF Improves
  <2> QED BY <2>2, ImprovedLosesNothing DEF LessonsSound
<1>4. l \in LessonTargets(Now, c)
  BY <1>2, <1>3, TargetsOf
<1>5. run'[p] = Idle
  BY <1>1 DEF LessonsSound, End
<1> QED BY <1>1, <1>4, <1>5 DEF WasShown

(* Every step: what a lesson loses was shown.                              *)
LEMMA LossesShown ==
    ASSUME LessonsSound, LessonsFit', LessonRequestsNext, HeldWithParticipants(lesson), HeldWithParticipants(lesson'),
           NEW l \in SeriesLessons
    PROVE  LossShown(l)
<1>1. ASSUME Improves(l) PROVE LossShown(l)
  BY <1>1, ImprovedLosesNothing DEF LossShown, LessonsSound
<1>2. ASSUME UNCHANGED <<lesson, marked, written>> PROVE LossShown(l)
  BY <1>1, <1>2, SameRowsImprove
<1>3. ASSUME NEW p \in Instances,
             \/ AskLesson(p) \/ ReadLesson(p) \/ RefuseLesson(p) \/ LeaveOrRejoin(p)
             \/ RequestCorrection(p) \/ AskApproval(p) \/ Decline(p)
             \/ AskBatch(p) \/ ReplayBatch(p) \/ StoreBatch(p)
      PROVE  LossShown(l)
  <2>1. UNCHANGED <<lesson, marked, written>>
    BY <1>3 DEF AskLesson, ReadLesson, RefuseLesson, LeaveOrRejoin, RequestCorrection, AskApproval, Decline,
                AskBatch, ReplayBatch, StoreBatch, lessonVars, lessonRows
  <2> QED BY <1>2, <2>1
<1>4. ASSUME NEW p \in Instances, EditLesson(p) \/ ApproveCorrection(p) PROVE LossShown(l)
  BY <1>4, UpdateShows DEF EditLesson, ApproveCorrection
<1>5. ASSUME NEW p \in Instances, RemoveLesson(p) \/ Price(p) \/ ClearMark(p) \/ RejectReport(p) PROVE LossShown(l)
  BY <1>5, RemoveLessonShows, PriceShows, ClearMarkShows, RejectReportShows
<1>6. ASSUME NEW p \in Instances, Assign(p) \/ LinkOrRelease(p) \/ Attend(p) \/ Approve(p) PROVE LossShown(l)
  BY <1>1, <1>6, AssignImproves, LinkOrReleaseImproves, AttendImproves, ApproveImproves
<1>7. ASSUME NEW p \in Instances, Write(p) \/ Rewrite(p) \/ WithdrawDraft(p) \/ Submit(p) \/ Revise(p)
      PROVE  LossShown(l)
  BY <1>1, <1>7, WriteImproves, ReportImproves
<1> QED BY <1>3, <1>4, <1>5, <1>6, <1>7 DEF LessonRequestsNext, LessonsNext

(* update, remove, attendance.clear, reports.reject and the correction of  *)
(* attendance: as long as lessons are held with their participants, hours  *)
(* or pay of a lesson go down only in a command whose client was shown     *)
(* which lessons it changes, that none is in a payout, and their sums      *)
(* before and after it as they are then; or by a price that is set.        *)
THEOREM LossesWereShown == ClassworkSpec => NothingLostUnseen
<1>1. ASSUME ClassworkSound, [ClassworkNext]_<<part, run, lessonVars, requestVars, templateVars>>,
             HeldWithParticipants(lesson), HeldWithParticipants(lesson'), NEW l \in SeriesLessons
      PROVE  LossShown(l)
  <2>1. LessonsFit /\ LessonsFit'
    BY <1>1, ClassworkNextKeeps DEF ClassworkSound
  <2>2. CASE UNCHANGED lessonVars
    <3>1. UNCHANGED <<lesson, marked, written>>
      BY <2>2 DEF lessonVars, lessonRows
    <3> QED BY <1>1, <2>1, <3>1, SameRowsImprove, ImprovedLosesNothing DEF LossShown
  <2>3. CASE part = "lessons" /\ LessonRequestsNext
    BY <1>1, <2>1, <2>3, LossesShown DEF ClassworkSound
  <2> QED BY <1>1, <2>2, <2>3 DEF ClassworkNext
<1>2. ASSUME ClassworkSound, [ClassworkNext]_<<part, run, lessonVars, requestVars, templateVars>>
      PROVE  [HeldWithParticipants(lesson) /\ HeldWithParticipants(lesson') =>
                \A l \in SeriesLessons :
                   LET was == WorthIn(Now, l)
                       is  == WorthIn(Now', l)
                   IN  was[3] > is[3] \/ was[1] > is[1] =>
                         \E p \in Instances :
                             LET c == run[p].cmd IN
                             /\ run'[p] = Idle /\ c.op \in Previewed \cup {"price"} /\ l \in LessonTargets(Now, c)
                             /\ c.op # "price" =>
                                  run[p].saw.shown =
                                      ImpactOn(LessonTargets(Now, c), FALSE,
                                          [t \in LessonTargets(Now, c) |-> WorthIn(Now, t)],
                                          [t \in LessonTargets(Now, c) |-> WorthIn(Now', t)])
               ]_lessonVars
  BY <1>1, <1>2 DEF LossShown, Loses, WasShown
<1> QED BY <1>2, ClassworkIsSound, PTL DEF ClassworkSpec, NothingLostUnseen
=============================================================================
