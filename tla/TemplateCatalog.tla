---------------------------- MODULE TemplateCatalog ----------------------------
(***************************************************************************)
(* The templates that apps are rendered with: the sources they are synced  *)
(* from (internal/tpl/registrysync/sync.go, runOneTemplateSync of          *)
(* cmd/suparship/server.go), the registry that says which source provides  *)
(* which (internal/tpl/registry.go, template_registry_handler.go), the     *)
(* copies in the cluster (internal/kube/templates.go), the versions that   *)
(* an app is pinned to (app_handler.go, app_retemplate.go) and the charts  *)
(* that its publication puts into Git (syncChart).                         *)
(*                                                                         *)
(* A ticker syncs all sources every few minutes, beside one request at a   *)
(* time.  Both read the registry, work for minutes, and save the whole of  *)
(* it; nothing compares versions.                                          *)
(*                                                                         *)
(* Every source ships one chart, and all give it the same name: the        *)
(* template of a bare source is called Chart, and that of a namespaced     *)
(* source by the source's name, which stands for "<source>.<chart>".  One  *)
(* app without components, whose environments are all stable.              *)
(***************************************************************************)
EXTENDS Naturals, FiniteSets

CONSTANTS
    Source, Env,
    Fallback,    \* those of its environments that StableEnvsFromOrg names unread
    Overridden,  \* the environments that have overrides of the app from the start
    Releasing,   \* bound: the sources that ship new versions
    MaxVersion,  \* bound: versions that a source ships
    MaxEdits,    \* bound: requests
    MaxFailures  \* bound: failing calls and dying servers

None   == "none"
Absent == [absent |-> TRUE]
Chart  == "chart"
Wizard == "wizard"   \* who provides an uploaded chart

ASSUME CatalogAssumption ==
    /\ IsFiniteSet(Source) /\ Source # {} /\ Source \cap {None, Chart, Wizard} = {}
    /\ Env # {} /\ None \notin Env
    /\ Releasing \subseteq Source /\ Overridden \subseteq Env /\ Fallback \subseteq Env
    /\ MaxVersion \in Nat \ {0} /\ MaxEdits \in Nat /\ MaxFailures \in Nat

Names    == Source \cup {Chart}
Versions == 1..MaxVersion
Content  == [source : Source \cup {Wizard}, version : Versions]
Rows     == [name : Names, source : Source]
Registry == [ext : [Source -> {"absent", "bare", "namespaced"}], rows : SUBSET Rows]
Pins     == [name : Names, version : Versions]

\* The app's pin, and those of its environments; 0 follows the app's.  An
\* environment's pin is part of its overrides, if it has any (EnvironmentDefaults).
AppSpecs == [name : Names, version : Versions, env : [Env -> Versions \cup {0}],
             over : SUBSET Env]

Process == {"ticker", "request"}

VARIABLES
    upstream,  \* the version that each source ships
    reg,       \* the registry
    alias,     \* the current template under each name
    archive,   \* who provided each version that is kept under a name
    pinned,    \* the saved app
    charts,    \* the charts in Git, by name and version
    published, \* what is published of the app: the pin of each environment
    job,       \* the sync round of the ticker, and the request
    edits, failures,
    owed,      \* history variable: the app is not published as it is saved
    lacking    \* history variable: pins whose version was dropped, replaced before it
               \* was archived, or never archived

catalog == <<alias, archive>>
repo    == <<charts, published>>
catVars == <<upstream, reg, catalog, pinned, repo, job, edits, failures, owed, lacking>>

NoJob == [at |-> "idle"]
Busy ==
    [at : {"put", "flag", "next", "alias", "archive", "repin", "publish", "drop"},
     op : {"sync", "namespace", "update", "drop", "import", "upgrade", "upgradeEnv"},
     reg : Registry, of : SUBSET Source, todo : SUBSET Source, got : SUBSET Rows,
     new : [name : Names, content : Content] \cup {Absent},
     names : SUBSET Names, env : Env \cup {None}, prev : AppSpecs \cup {Absent},
     seen : SUBSET Env]   \* history variable: the environments that it listed

CatTypeOK ==
    /\ upstream \in [Source -> Versions]
    /\ reg \in Registry
    /\ alias \in [Names -> Content \cup {Absent}]
    /\ archive \in [Names -> [Versions -> Source \cup {Wizard, None}]]
    /\ pinned \in AppSpecs
    /\ charts \in [Pins -> Content \cup {Absent}]
    /\ published \in [Env -> Pins]
    /\ job \in [Process -> {NoJob} \cup Busy]
    /\ edits \in 0..MaxEdits /\ failures \in 0..MaxFailures
    /\ owed \in BOOLEAN /\ lacking \in SUBSET Pins

-----------------------------------------------------------------------------
(* Who provides a name.                                                    *)

NameOf(s, mode) == IF mode = "namespaced" THEN s ELSE Chart

Live(r) == {s \in Source : r.ext[s] # "absent"}

\* The names that a source must not claim.
templateOwners(r, s) == {x.name : x \in {y \in r.rows : y.source \in Live(r) \ {s}}}

PruneOrphanSources(r) == [r EXCEPT !.rows = {x \in @ : x.source \in Live(r)}]

\* Mutant: what is no longer imported stays in the registry.
MergesResult(r, of, got) == [r EXCEPT !.rows = @ \cup got]

\* ApplyResult for the synced sources: only what this round imported remains.
ApplyResult(r, of, got) == [r EXCEPT !.rows = {x \in @ : x.source \notin of} \cup got]

-----------------------------------------------------------------------------
(* What an app is pinned to.                                               *)

\* AppForEnvTemplateVersions.
PinOf(a, e) == [name |-> a.name, version |-> IF a.env[e] # 0 THEN a.env[e] ELSE a.version]

PinsIn(a) == [e \in Env |-> PinOf(a, e)]

Follow == [e \in Env |-> 0]

\* When all environments that are listed have the same pin it becomes the app's.
collapseConvergedTemplateVersions(a, listed) ==
    LET v == {a.env[e] : e \in listed}
    IN  IF 0 \notin v /\ Cardinality(v) = 1
        THEN [a EXCEPT !.version = CHOOSE x \in v : TRUE,
                       !.env = [e \in Env |-> IF e \in listed THEN 0 ELSE @[e]]]
        ELSE a

\* Mutant: the app's pin moves, and every environment that follows it.
PinsTheApp(a, e, v) == [a EXCEPT !.version = v, !.env[e] = 0]

\* The targets of an upgrade for e: at the app's version it follows that again.
TargetsFor(a, e, v) ==
    [a EXCEPT !.env[e] = IF v = a.version THEN 0 ELSE v, !.over = @ \cup {e}]

\* Pins are not folded if another environment's would change, of those that are seen.
Folds(a, e, seen, listed) ==
    LET folded == collapseConvergedTemplateVersions(a, listed)
    IN  IF \A x \in seen \ {e} : PinOf(folded, x) = PinOf(a, x) THEN folded ELSE a

\* ListTemplateVersions reads the labels of the archives and of the alias.
ListTemplateVersions(n) ==
    {v \in Versions : archive[n][v] # None \/ (alias[n] # Absent /\ alias[n].version = v)}

\* Mutant: the current chart, whichever version is asked for.
LoadsCurrent(pin) == alias[pin.name]

\* LoadChartBundleVersion: the alias stands in for a missing archive.
LoadChartBundleVersion(pin) ==
    IF archive[pin.name][pin.version] # None
    THEN [source |-> archive[pin.name][pin.version], version |-> pin.version]
    ELSE alias[pin.name]

\* syncChart, for the app's pin and those of its environments: a chart that is in
\* Git already is left as it is.
syncChart(a) ==
    LET used == {PinOf(a, e) : e \in Env} \cup {[name |-> a.name, version |-> a.version]}
    IN  [pin \in Pins |-> IF pin \in used /\ charts[pin] = Absent
                          THEN LoadChartBundleVersion(pin) ELSE charts[pin]]

-----------------------------------------------------------------------------
\* One bare source has been synced, and the app is created from its template.
First == CHOOSE s \in Source : TRUE

CatInit ==
    LET content == [source |-> First, version |-> 1]
        pin     == [name |-> Chart, version |-> 1]
    IN
    /\ upstream = [s \in Source |-> 1]
    /\ reg = [ext |-> [s \in Source |-> IF s = First THEN "bare" ELSE "absent"],
              rows |-> {[name |-> Chart, source |-> First]}]
    /\ alias = [n \in Names |-> IF n = Chart THEN content ELSE Absent]
    /\ archive = [n \in Names |->
                    [v \in Versions |-> IF n = Chart /\ v = 1 THEN First ELSE None]]
    /\ pinned = [name |-> Chart, version |-> 1, env |-> Follow, over |-> Overridden]
    /\ charts = [p \in Pins |-> IF p = pin THEN content ELSE Absent]
    /\ published = PinsIn(pinned)
    /\ job = [p \in Process |-> NoJob]
    /\ edits = 0 /\ failures = 0
    /\ owed = FALSE /\ lacking = {}

Failure == failures < MaxFailures /\ failures' = failures + 1

Goes(p, step)   == job' = [job EXCEPT ![p].at = step]
Finishes(p)     == job' = [job EXCEPT ![p] = NoJob]

\* In place of a registry that a request does not read, or no longer.
Unread == [ext |-> [s \in Source |-> "absent"], rows |-> {}]

NewJob(op, at, r, of) ==
    [at |-> at, op |-> op, reg |-> r, of |-> of, todo |-> of, got |-> {}, new |-> Absent,
     names |-> {}, env |-> None, prev |-> Absent, seen |-> Env]

\* What is left to do: remove the templates with these names.
Drops(names) ==
    job' = [job EXCEPT !["request"] =
              IF names = {} THEN NoJob
              ELSE [NewJob("drop", "drop", Unread, {}) EXCEPT !.names = names]]

Request(new) ==
    /\ job["request"] = NoJob
    /\ edits < MaxEdits /\ edits' = edits + 1
    /\ job' = [job EXCEPT !["request"] = new]

Release(s) ==
    /\ s \in Releasing /\ upstream[s] < MaxVersion
    /\ upstream' = [upstream EXCEPT ![s] = @ + 1]
    /\ UNCHANGED <<reg, catalog, pinned, repo, job, edits, failures, owed, lacking>>

-----------------------------------------------------------------------------
(* A sync round: of all sources, or of one.                                *)

runOneTemplateSync ==
    /\ job["ticker"] = NoJob /\ Live(reg) # {}
    /\ job' = [job EXCEPT !["ticker"] = NewJob("sync", "next", reg, Live(reg))]
    /\ UNCHANGED <<upstream, reg, catalog, pinned, repo, edits, failures, owed, lacking>>

handleSyncOne(s) ==
    /\ s \in Live(reg)
    /\ Request(NewJob("sync", "next", reg, {s}))
    /\ UNCHANGED <<upstream, reg, catalog, pinned, repo, failures, owed, lacking>>

\* SyncOne: what the source ships now is imported unless its name is taken.
SyncOne(p, s) ==
    LET j    == job[p]
        name == NameOf(s, j.reg.ext[s])
        rest == [j EXCEPT !.todo = @ \ {s}]
        new  == [name |-> name, content |-> [source |-> s, version |-> upstream[s]]]
    IN
    /\ j.at = "next" /\ s \in j.todo
    /\ \/ /\ job' = [job EXCEPT ![p] =
                       IF name \in templateOwners(j.reg, s) THEN rest
                       ELSE [rest EXCEPT !.at = "alias", !.new = new]]
          /\ UNCHANGED failures
       \/ Failure /\ job' = [job EXCEPT ![p] = rest]
    /\ UNCHANGED <<upstream, reg, catalog, pinned, repo, edits, owed, lacking>>

\* After the template is saved, or could not be.
AfterSave(p, got) ==
    job' = [job EXCEPT ![p] = IF job[p].op = "import" THEN NoJob
                ELSE [job[p] EXCEPT !.at = "next", !.new = Absent, !.got = @ \cup got]]

\* SaveTemplate: first the alias, then the archive of its version.  If the version
\* that the alias had is on its way to its archive still, nobody has it meanwhile.
SaveAlias(p) ==
    LET new == job[p].new IN
    /\ job[p].at = "alias"
    /\ \/ /\ alias' = [alias EXCEPT ![new.name] = new.content] /\ Goes(p, "archive")
          /\ lacking' = lacking \cup {pin \in Pins :
                /\ pin.name = new.name /\ pin.version # new.content.version
                /\ alias[pin.name] # Absent /\ alias[pin.name].version = pin.version
                /\ archive[pin.name][pin.version] = None}
          /\ UNCHANGED failures
       \/ Failure /\ AfterSave(p, {}) /\ UNCHANGED <<alias, lacking>>
    /\ UNCHANGED <<upstream, reg, archive, pinned, repo, edits, owed>>

SaveArchive(p) ==
    LET new == job[p].new
        pin == [name |-> new.name, version |-> new.content.version]
    IN
    /\ job[p].at = "archive"
    /\ \/ /\ archive' = [archive EXCEPT ![pin.name][pin.version] = new.content.source]
          /\ AfterSave(p, {[name |-> new.name, source |-> new.content.source]})
          /\ UNCHANGED <<failures, lacking>>
       \/ /\ Failure /\ AfterSave(p, {})
          /\ lacking' = lacking \cup {pin} /\ UNCHANGED archive
    /\ UNCHANGED <<upstream, reg, alias, pinned, repo, edits, owed>>

\* The round ends with its copy of the registry, brought up to date, being saved.
SaveRound(p) ==
    LET j == job[p] IN
    /\ j.at = "next" /\ j.op = "sync" /\ j.todo = {}
    /\ \/ reg' = PruneOrphanSources(ApplyResult(j.reg, j.of, j.got)) /\ UNCHANGED failures
       \/ Failure /\ UNCHANGED reg
    /\ Finishes(p)
    /\ UNCHANGED <<upstream, catalog, pinned, repo, edits, owed, lacking>>

-----------------------------------------------------------------------------
(* Requests that edit the registry or the templates.                       *)

\* The console loads the registry; a source is added or removed in it.
EditRegistry(s, mode) ==
    /\ (reg.ext[s] = "absent") # (mode = "absent")
    /\ Request(NewJob("update", "put", [reg EXCEPT !.ext[s] = mode], {}))
    /\ UNCHANGED <<upstream, reg, catalog, pinned, repo, failures, owed, lacking>>

\* Then it is sent back.  The templates of removed rows are removed as well.
handleUpdateRegistry ==
    LET j   == job["request"]
        new == PruneOrphanSources(j.reg)
    IN
    /\ j.at = "put"
    /\ \/ /\ reg' = new
          /\ Drops({x.name : x \in j.reg.rows \ new.rows})
          /\ UNCHANGED failures
       \/ Failure /\ Finishes("request") /\ UNCHANGED reg
    /\ UNCHANGED <<upstream, catalog, pinned, repo, edits, owed, lacking>>

\* DeleteTemplate: the archives that are gone, and the alias.
Deletes(n, gone, current) ==
    /\ alias' = IF current THEN [alias EXCEPT ![n] = Absent] ELSE alias
    /\ archive' = [archive EXCEPT ![n] =
                     [v \in Versions |-> IF v \in gone THEN None ELSE @[v]]]
    /\ lacking' = lacking \cup
          {pin \in Pins : /\ pin.name = n
                          /\ \/ pin.version \in gone
                             \/ current /\ archive[n][pin.version] = None}

\* One by one; a failure leaves the rest.
DeletesTemplate(n) ==
    \/ Deletes(n, Versions, TRUE) /\ UNCHANGED failures
    \/ /\ Failure
       /\ \E gone \in SUBSET {v \in Versions : archive[n][v] # None}, current \in BOOLEAN :
             Deletes(n, gone, current)

\* A failure is logged.
DropTemplate(n) ==
    LET j == job["request"] IN
    /\ j.at = "drop" /\ n \in j.names
    /\ Drops(j.names \ {n})
    /\ DeletesTemplate(n)
    /\ UNCHANGED <<upstream, reg, pinned, repo, edits, owed>>

\* handleDelete asks neither for a source nor for apps.
handleDelete(n) ==
    /\ alias[n] # Absent \/ \E v \in Versions : archive[n][v] # None
    /\ job["request"] = NoJob /\ edits < MaxEdits /\ edits' = edits + 1
    /\ DeletesTemplate(n)
    /\ UNCHANGED <<upstream, reg, pinned, repo, job, owed>>

\* handleImport saves an uploaded chart under its name, whoever provides that.
handleImport(v) ==
    /\ Request([NewJob("import", "alias", Unread, {}) EXCEPT
                  !.new = [name |-> Chart, content |-> [source |-> Wizard, version |-> v]]])
    /\ UNCHANGED <<upstream, reg, catalog, pinned, repo, failures, owed, lacking>>

-----------------------------------------------------------------------------
(* A bare source gets a name space: flag, sync, pins, and then the old     *)
(* templates.                                                              *)

\* Of the source's rows only its chart's is imported again under the new name.
handleNamespaceSource(s) ==
    /\ reg.ext[s] = "bare"
    /\ Request([NewJob("namespace", "flag", [reg EXCEPT !.ext[s] = "namespaced"], {s}) EXCEPT
                  !.names = {Chart} \cap {x.name : x \in {y \in reg.rows : y.source = s}}])
    /\ UNCHANGED <<upstream, reg, catalog, pinned, repo, failures, owed, lacking>>

SaveFlag ==
    /\ job["request"].at = "flag"
    /\ \/ reg' = job["request"].reg /\ Goes("request", "next") /\ UNCHANGED failures
       \/ Failure /\ Finishes("request") /\ UNCHANGED reg
    /\ UNCHANGED <<upstream, catalog, pinned, repo, edits, owed, lacking>>

\* Without a template under the new name the flag is taken back.
TakeBack ==
    LET j    == job["request"]
        bare == [s \in Source |-> IF s \in j.of THEN "bare" ELSE j.reg.ext[s]]
    IN
    /\ j.at = "next" /\ j.op = "namespace" /\ j.todo = {} /\ j.got = {}
    /\ \/ reg' = [j.reg EXCEPT !.ext = bare]
       \/ UNCHANGED reg   \* fails as the sync before it did
    /\ Finishes("request")
    /\ UNCHANGED <<upstream, catalog, pinned, repo, edits, failures, owed, lacking>>

SaveNamespaced ==
    LET j == job["request"] IN
    /\ j.at = "next" /\ j.op = "namespace" /\ j.todo = {} /\ j.got # {}
    /\ \/ /\ reg' = PruneOrphanSources(ApplyResult(j.reg, j.of, j.got))
          /\ job' = [job EXCEPT !["request"].at = "repin", !["request"].reg = Unread,
                                !["request"].got = {}]
          /\ UNCHANGED failures
       \/ Failure /\ Finishes("request") /\ UNCHANGED reg
    /\ UNCHANGED <<upstream, catalog, pinned, repo, edits, owed, lacking>>

\* repinApp: the name changes, the versions stay; the app is then published.  One
\* that could not be saved is not, though its saving may only have looked so.
RepinTemplates ==
    LET j  == job["request"]
        to == CHOOSE x \in j.of : TRUE
        a  == [pinned EXCEPT !.name = to]
    IN
    /\ j.at = "repin"
    /\ IF pinned.name \in j.names
       THEN \/ /\ pinned' = a
               /\ lacking' = lacking \cup {pin \in Pins :
                     pin.name = to /\ pin.version \notin ListTemplateVersions(to)}
               /\ \/ Goes("request", "publish") /\ UNCHANGED <<failures, owed>>
                  \/ Failure /\ Drops(j.names) /\ owed' = TRUE
            \/ Failure /\ Drops(j.names) /\ UNCHANGED <<pinned, owed, lacking>>
       ELSE Drops(j.names) /\ UNCHANGED <<pinned, failures, owed, lacking>>
    /\ UNCHANGED <<upstream, reg, catalog, repo, edits>>

-----------------------------------------------------------------------------
(* Requests that change what the app is pinned to.                         *)

\* The app is saved, and then published; or it is saved and the answer lost, which
\* ends the request.  A listing that was not complete is a failure as well.
Saves(a, op, e, seen, complete) ==
    LET new == [NewJob(op, "publish", Unread, {}) EXCEPT !.prev = pinned, !.env = e,
                                                         !.seen = seen] IN
    /\ pinned' = a
    /\ \/ /\ Request(new) /\ UNCHANGED owed
          /\ IF complete THEN UNCHANGED failures ELSE Failure
       \/ /\ Failure /\ owed' = TRUE
          /\ job["request"] = NoJob /\ edits < MaxEdits /\ edits' = edits + 1
          /\ UNCHANGED job
    /\ UNCHANGED <<upstream, reg, catalog, repo, lacking>>

\* For all environments; their own pins go.
upgradeTemplatelessApp(v) ==
    /\ v \in ListTemplateVersions(pinned.name) /\ v # pinned.version
    /\ Saves([pinned EXCEPT !.version = v, !.env = Follow], "upgrade", None, Env, TRUE)

\* For one of them.  stableEnvNamesForApp lists them for the check and again for the
\* fold; when it can read neither the app's nor the organisation's it says Fallback.
upgradeAppTemplateForEnv(e, v) ==
    /\ v \in ListTemplateVersions(pinned.name) /\ v # PinOf(pinned, e).version
    /\ \E seen, listed \in {Env, Fallback} :
          Saves(Folds(TargetsFor(pinned, e, v), e, seen, listed), "upgradeEnv", e, seen,
                seen = Env /\ listed = Env)

\* To another template.
retemplateApp(n, v) ==
    /\ alias[n] # Absent /\ n # pinned.name /\ v \in ListTemplateVersions(n)
    /\ Saves([pinned EXCEPT !.name = n, !.version = v, !.env = Follow],
             "upgrade", None, Env, TRUE)

\* handleSyncApp and forceRepublish publish the app as it is saved.
forceRepublish ==
    /\ Request(NewJob("upgrade", "publish", Unread, {}))
    /\ UNCHANGED <<upstream, reg, catalog, pinned, repo, failures, owed, lacking>>

AfterPublish(j) == IF j.op = "namespace" THEN Drops(j.names) ELSE Finishes("request")

\* Mutant: a failed upgrade stays saved.
KeepsPins(j) == pinned

\* restoreEnvTemplateVersions puts back the pins of the environments that had
\* overrides before: the pin of one that had none stays.
Stays(j, e) == j.prev # Absent /\ e \notin j.prev.over /\ pinned.env[e] # 0

\* What is saved when the publication fails.  A repinned app keeps its new name.
PinsRestored(j) ==
    IF j.prev = Absent THEN pinned
    ELSE [j.prev EXCEPT !.env = [e \in Env |-> IF Stays(j, e) THEN pinned.env[e] ELSE @[e]],
                        !.over = pinned.over]

\* The charts and the app go into one commit.
PublishApp == charts' = syncChart(pinned) /\ published' = PinsIn(pinned)

\* republishStable.  The commit may be pushed although the push is said to have failed.
republishStable ==
    LET j == job["request"] IN
    /\ j.at = "publish"
    /\ AfterPublish(j)
    /\ \/ PublishApp /\ owed' = FALSE /\ UNCHANGED <<pinned, failures>>
       \/ /\ Failure /\ pinned' = PinsRestored(j)
          /\ \/ /\ owed' = (owed \/ j.prev = Absent \/ \E e \in Env : Stays(j, e))
                /\ UNCHANGED repo
             \/ PublishApp /\ owed' = (j.prev # Absent)
       \/ \* the environments could not be listed, or the pins not be restored
          Failure /\ owed' = TRUE /\ (UNCHANGED repo \/ PublishApp) /\ UNCHANGED pinned
    /\ UNCHANGED <<upstream, reg, catalog, edits, lacking>>

\* The server dies.
Crash ==
    /\ Failure
    /\ job # [p \in Process |-> NoJob]
    /\ job' = [p \in Process |-> NoJob]
    /\ owed' = (owed \/ job["request"].at = "publish")
    /\ lacking' = lacking \cup
         {[name |-> job[p].new.name, version |-> job[p].new.content.version] :
            p \in {q \in Process : job[q].at = "archive"}}
    /\ UNCHANGED <<upstream, reg, catalog, pinned, repo, edits>>

-----------------------------------------------------------------------------
Syncing(p) == (\E s \in Source : SyncOne(p, s)) \/ SaveAlias(p) \/ SaveArchive(p) \/ SaveRound(p)

CatNext ==
    \/ runOneTemplateSync
    \/ \E p \in Process : Syncing(p)
    \/ \E s \in Source :
          \/ Release(s) \/ handleSyncOne(s) \/ handleNamespaceSource(s)
          \/ \E mode \in {"absent", "bare", "namespaced"} : EditRegistry(s, mode)
    \/ handleUpdateRegistry
    \/ \E n \in Names : DropTemplate(n) \/ handleDelete(n)
    \/ SaveFlag \/ TakeBack \/ SaveNamespaced \/ RepinTemplates
    \/ \E v \in Versions :
          \/ handleImport(v) \/ upgradeTemplatelessApp(v)
          \/ \E e \in Env : upgradeAppTemplateForEnv(e, v)
          \/ \E n \in Names : retemplateApp(n, v)
    \/ forceRepublish \/ republishStable \/ Crash

CatSpec == CatInit /\ [][CatNext]_catVars

\* The ticker runs for ever; its calls may fail MaxFailures times.
FairSpec == CatSpec /\ WF_catVars(runOneTemplateSync \/ Syncing("ticker"))

-----------------------------------------------------------------------------
(* Properties.                                                             *)

\* Between requests the app is pinned as it is published (saveAndRepublishUpgrade).
\* It is not if a push or a save took effect and was said to have failed, the
\* environments could not be listed, the restored pins not be saved, a renamed app not
\* be published, or if the failed upgrade was of an environment without overrides.
PinsAgree == job["request"] = NoJob /\ ~owed => published = PinsIn(pinned)

\* "the env-scoped upgrade must only touch envName" (upgradeAppTemplateForEnv): its
\* publication changes no other environment that its check could list, though it may
\* fold their pins into the app's.
OnlyThatEnvironment ==
    [][job["request"] # NoJob /\ job["request"].op = "upgradeEnv" /\ ~owed =>
          \A e \in job["request"].seen \ {job["request"].env} :
             published'[e] = published[e]]_catVars

\* "restoring the pre-upgrade state through restore() if the publish fails so the store
\* never drifts from what's actually in the gitops repo" (saveAndRepublishUpgrade): what
\* is put back is what is published.
NeverDrifts ==
    [][job["request"].at = "publish" /\ ~owed /\ pinned' # pinned =>
          published' = PinsIn(pinned)']_catVars

\* "if the fold would alter another environment's effective versions (a convergence
\* universe that missed an env ...), keep the explicit per-env pin"
\* (upgradeAppTemplateForEnv): also an environment that a listing missed stays.
NoOtherEnvironment ==
    [][job["request"] # NoJob /\ job["request"].op = "upgradeEnv" /\ ~owed =>
          \A e \in Env \ {job["request"].env} : published'[e] = published[e]]_catVars

\* A chart in Git is of the version that its directory names, whatever has been
\* synced, removed and imported again meanwhile.  Excepted are versions that were
\* not there to be archived under the name: of a source that got a name space when
\* it shipped another version already, of a deleted template, or after a failure;
\* and one that was replaced as the current version before its archive was saved
\* (SaveTemplate, syncChart, LoadChartBundleVersion).
ChartOfPin ==
    \A pin \in Pins \ lacking : charts[pin] # Absent => charts[pin].version = pin.version

\* A live source whose name nobody else claims is followed: in the end the
\* template is what it ships, also when another source gave the name up, or the
\* registry was saved over (runOneTemplateSync, templateOwners, ApplyResult).
Follows ==
    \A s \in Source :
        <>[](/\ s \in Live(reg)
             /\ \A x \in Live(reg) \ {s} :
                   NameOf(x, reg.ext[x]) # NameOf(s, reg.ext[s]))
        => <>[](\A n \in Names : s \in Live(reg) /\ n = NameOf(s, reg.ext[s]) =>
                   alias[n] = [source |-> s, version |-> upstream[s]])
=============================================================================
