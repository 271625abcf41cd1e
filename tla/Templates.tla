----------------------------- MODULE Templates -----------------------------
(***************************************************************************)
(* Report templates (report-templates.service): everybody's and those of   *)
(* one lecturer.  In a scope names are unique and at most one template is  *)
(* the default; of everybody's at most one is enforced.  Two lockTargets   *)
(* calls: the template, then the scopes it is in and goes to.              *)
(***************************************************************************)
EXTENDS UnitOfWork, Functions

CONSTANTS TemplateIds, Owners,
          Everybody,       \* owner_user_id is NULL
          TemplateSeeds, TemplateCommands,
          MaxTemplateSteps \* bound: commands that begin

VARIABLES template,        \* report_templates: [live, owner, name, isDefault, isEnforced]
          templateSteps    \* counts up to MaxTemplateSteps

templateVars == <<template, templateSteps>>

RequestedNames == {c.name : c \in {d \in TemplateCommands : d.op # "drop"}}
TemplateNames  == {""} \cup RequestedNames \cup UNION {{s[t].name : t \in TemplateIds} : s \in TemplateSeeds}

TemplateRows ==
    [live : BOOLEAN, owner : Owners \cup {Everybody}, name : TemplateNames, isDefault : BOOLEAN, isEnforced : BOOLEAN]

NoTemplate == [live |-> FALSE, owner |-> Everybody, name |-> "", isDefault |-> FALSE, isEnforced |-> FALSE]

(* In a scope no name twice and no two defaults; only everybody's are      *)
(* enforced, and no two of them.                                           *)
OneSelection(rows) ==
    \A t, u \in {v \in TemplateIds : rows[v].live} :
        /\ rows[t].isEnforced => rows[t].owner = Everybody
        /\ t # u /\ rows[t].owner = rows[u].owner =>
             /\ rows[t].name # rows[u].name
             /\ ~(rows[t].isDefault /\ rows[u].isDefault)
             /\ ~(rows[t].isEnforced /\ rows[u].isEnforced)

(* CreateReportTemplateDto, UpdateReportTemplateDto; what an update leaves *)
(* out stays.                                                              *)
ASSUME TemplatesAssumption ==
    /\ \A s \in TemplateSeeds : s \in [TemplateIds -> TemplateRows] /\ OneSelection(s)
    /\ \A c \in TemplateCommands :
          /\ c.op \in {"add", "edit", "drop"}
          /\ c.op = "add" => "owner" \in DOMAIN c
          /\ c.op # "add" => c.t \in TemplateIds
          /\ "owner" \in DOMAIN c => c.owner \in Owners \cup {Everybody}
          /\ "isDefault" \in DOMAIN c => c.isDefault \in BOOLEAN
          /\ "isEnforced" \in DOMAIN c => c.isEnforced \in BOOLEAN

TemplatesInit == template \in TemplateSeeds /\ templateSteps = 0

(* resolveScope: what the request leaves out stays as in the row read.     *)
Scope(c, row) ==
    [f \in {"owner", "isDefault", "isEnforced"} |-> IF f \in DOMAIN c THEN c[f] ELSE row[f]]

Resolves(scope) == scope.isEnforced => scope.owner = Everybody

(* Mutant: only the scope the template leaves is locked.                   *)
ScopeItLeaves(c, row) == {<<"scope", row.owner>>}

ScopeKeys(c, row) ==
    IF c.op = "drop" THEN {<<"scope", row.owner>>}
    ELSE {<<"scope", row.owner>>, <<"scope", Scope(c, row).owner>>}

(* The scope of a new template is in the request: one call.                *)
BeginTemplate(p) ==
    /\ templateSteps < MaxTemplateSteps
    /\ \E c \in TemplateCommands :
          IF c.op = "add"
            THEN Begin(p, c, {<<"scope", c.owner>>}, [row |-> NoTemplate, rows |-> template])
            ELSE template[c.t].live /\ Begin(p, c, {<<"template", c.t>>}, [row |-> template[c.t]])
    /\ templateSteps' = templateSteps + 1
    /\ UNCHANGED template

LockScopes(p) ==
    LET saw  == run[p].saw
        keys == ScopeKeys(run[p].cmd, saw.row)
    IN  /\ "row" \in DOMAIN saw /\ "rows" \notin DOMAIN saw
        /\ Free(p, keys)
        /\ run' = [run EXCEPT ![p].held = @ \cup keys, ![p].saw = [row |-> saw.row, rows |-> template]]
        /\ UNCHANGED templateVars

Resolved(p, op) == Running(p, op) /\ "rows" \in DOMAIN run[p].saw

Rows(p) == {t \in TemplateIds : run[p].saw.rows[t].live}

(* assertUniqueName.                                                       *)
NameIsFree(p, name, owner, except) ==
    \A t \in Rows(p) \ except :
        run[p].saw.rows[t].name # name \/ run[p].saw.rows[t].owner # owner

(* clearCompetingSelections: the rows as read, but for the one meant.      *)
Cleared(p, t, scope) ==
    LET row == run[p].saw.rows[t] IN
    [template[t] EXCEPT
        !.isDefault  = @ /\ ~(scope.isDefault /\ row.isDefault /\ row.owner = scope.owner),
        !.isEnforced = @ /\ ~(scope.isEnforced /\ row.isEnforced /\ row.owner = Everybody)]

Put(p, t, name, scope) ==
    template' = [u \in TemplateIds |->
        IF u = t THEN [live |-> TRUE, owner |-> scope.owner, name |-> name,
                       isDefault |-> scope.isDefault, isEnforced |-> scope.isEnforced]
        ELSE IF u \in Rows(p) THEN Cleared(p, u, scope)
        ELSE template[u]]

AddTemplate(p) ==
    LET c     == run[p].cmd
        scope == Scope(c, run[p].saw.row)
    IN  /\ Resolved(p, "add") /\ Resolves(scope)
        /\ NameIsFree(p, c.name, scope.owner, {})
        /\ \E t \in TemplateIds : template[t] = NoTemplate /\ Put(p, t, c.name, scope)
        /\ End(p)
        /\ UNCHANGED templateSteps

EditTemplate(p) ==
    LET c     == run[p].cmd
        scope == Scope(c, run[p].saw.row)
    IN  /\ Resolved(p, "edit") /\ Resolves(scope)
        /\ NameIsFree(p, c.name, scope.owner, {c.t})
        /\ Put(p, c.t, c.name, scope)
        /\ End(p)
        /\ UNCHANGED templateSteps

DropTemplate(p) ==
    /\ Resolved(p, "drop")
    /\ template' = [template EXCEPT ![run[p].cmd.t].live = FALSE]
    /\ End(p)
    /\ UNCHANGED templateSteps

RefuseTemplate(p) == Abort(p) /\ UNCHANGED templateVars

TemplatesNext ==
    \E p \in Instances :
        \/ BeginTemplate(p) \/ LockScopes(p) \/ AddTemplate(p) \/ EditTemplate(p) \/ DropTemplate(p)
        \/ RefuseTemplate(p)

-----------------------------------------------------------------------------
(* assertUniqueName, clearCompetingSelections: however templates are       *)
(* added, edited and moved between scopes, by several managers, a scope    *)
(* has no name twice and no two defaults, only everybody's templates are   *)
(* enforced, and no two of them: effective finds at most one of each.      *)
OneSelectionPerScope == OneSelection(template)
=============================================================================
