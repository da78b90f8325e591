------------------------------ MODULE Projects ------------------------------
(***************************************************************************)
(* Projects, their repos and their GitPOAPs (POST /gitpoaps in             *)
(* routes/gitpoaps/index.ts, POST /projects/add-repos in                   *)
(* routes/projects.ts, lib/projects.ts, lib/repos.ts): a GitPOAP is made   *)
(* for a project that is named, found by a repo, or created from repos;    *)
(* a creation that fails is rolled back.  Requests interleave at every     *)
(* await.                                                                  *)
(***************************************************************************)
CONSTANTS Creators,     \* POST /gitpoaps requests
          Adders,       \* POST /projects/add-repos requests
          Repos,        \* repositories of GitHub
          OldProjects,  \* projects from before
          NoProject

Requests == Creators \cup Adders
ProjectIds == Creators \cup OldProjects   \* a project is named by who creates it

ASSUME ProjectsAssumption ==
    /\ Creators \cap Adders = {} /\ Requests \cap OldProjects = {}
    /\ NoProject \notin ProjectIds

VARIABLES projects,  \* the Project rows
          repoOf,    \* the Repo rows: the project of a GitHub repository
          pulled,    \* the repos whose row has pull requests
          projectOf, \* projectId of the GitPOAP a request has made
          asking     \* the requests
VARIABLES early      \* history: who was given a project that was still being created

projectVars == <<projects, repoOf, pulled, projectOf, asking, early>>

Unfinished == {"create", "undo repos", "undo project"}
Ask == [at : {"idle", "project", "event", "gitpoap", "made", "add", "added", "refused",
              "undone", "threw"} \cup Unfinished,
        project : ProjectIds \cup {NoProject},
        wanted : SUBSET Repos,   \* the repos that were asked for
        todo : SUBSET Repos]     \* those still to be created
NoAsk == [at |-> "idle", project |-> NoProject, wanted |-> {}, todo |-> {}]

ProjectsTypeOK ==
    /\ projects \subseteq ProjectIds
    /\ repoOf \in [Repos -> projects \cup {NoProject}]
    /\ pulled \subseteq {r \in Repos : repoOf[r] # NoProject}
    /\ projectOf \in [Creators -> projects \cup {NoProject}]
    /\ asking \in [Requests -> Ask]
    /\ early \subseteq Requests

ProjectsInit ==
    /\ projects \in SUBSET OldProjects
    /\ repoOf \in [Repos -> projects \cup {NoProject}]
    /\ pulled = {}
    /\ projectOf = [h \in Creators |-> NoProject]
    /\ asking = [h \in Requests |-> NoAsk]
    /\ early = {}

-----------------------------------------------------------------------------
Step(h, at) == asking' = [asking EXCEPT ![h].at = at]
Of(p) == {r \in Repos : repoOf[r] = p}

\* Whether the request that created a project may still roll it back.
BeingCreated(p) == p \in Creators /\ asking[p].at \in Unfinished

\* A project is found, by its id or by a repo: what comes next is at.
Take(h, p, at, wanted, todo) ==
    /\ asking' = [asking EXCEPT ![h] = [at |-> at, project |-> p, wanted |-> wanted, todo |-> todo]]
    /\ early' = IF BeingCreated(p) THEN early \cup {h} ELSE early

\* POST /gitpoaps with a projectId: findUnique, 404 without it.
ChooseProject(h, p) ==
    /\ asking[h].at = "idle"
    /\ IF p \in projects THEN Take(h, p, "event", {}, {}) ELSE Step(h, "refused") /\ UNCHANGED early
    /\ UNCHANGED <<projects, repoOf, pulled, projectOf>>

\* getOrCreateProjectWithGithubRepoId, for one repo; several are created together.
ChooseRepos(h, wanted) ==
    /\ asking[h].at = "idle"
    /\ \/ \E r \in Repos : /\ wanted = {r} /\ repoOf[r] # NoProject
                           /\ Take(h, repoOf[r], "event", wanted, {})
       \/ /\ \A r \in Repos : wanted = {r} => repoOf[r] = NoProject
          /\ Take(h, NoProject, "project", wanted, wanted)
    /\ UNCHANGED <<projects, repoOf, pulled, projectOf>>

-----------------------------------------------------------------------------
(* createProjectWithGithubRepoIds                                          *)

CreateProject(h) ==
    /\ asking[h].at = "project"
    /\ projects' = projects \cup {h}
    /\ asking' = [asking EXCEPT ![h] = [@ EXCEPT !.at = "create", !.project = h]]
    /\ UNCHANGED <<repoOf, pulled, projectOf, early>>

\* createRepo: the row is inserted unless there is one or the project is gone.
Insertable(r, p) == repoOf[r] = NoProject /\ p \in projects

\* ... or GitHub does not know the repository, or does not answer.
CreateRepo(h, r) ==
    /\ asking[h].at = "create" /\ r \in asking[h].todo
    /\ \/ /\ Insertable(r, asking[h].project)
          /\ repoOf' = [repoOf EXCEPT ![r] = asking[h].project]
          /\ asking' = [asking EXCEPT ![h] = [@ EXCEPT !.todo = asking[h].todo \ {r},
                !.at = IF asking[h].todo = {r} THEN "event" ELSE "create"]]
       \/ Step(h, "undo repos") /\ UNCHANGED repoOf
    /\ UNCHANGED <<projects, pulled, projectOf, early>>

\* Mutant: the project is left behind.
RemoveReposOnly(h) ==
    /\ asking[h].at = "undo repos"
    /\ repoOf' = [r \in Repos |-> IF r \in Of(h) THEN NoProject ELSE repoOf[r]]
    /\ Step(h, "undone")
    /\ UNCHANGED <<projects, pulled, projectOf, early>>

\* deleteMany throws if one of the repos has pull requests, whose rows refer to it.
RemoveRepos(h) ==
    /\ asking[h].at = "undo repos"
    /\ IF Of(h) \cap pulled = {}
       THEN /\ repoOf' = [r \in Repos |-> IF r \in Of(h) THEN NoProject ELSE repoOf[r]]
            /\ Step(h, "undo project")
       ELSE Step(h, "threw") /\ UNCHANGED repoOf
    /\ UNCHANGED <<projects, pulled, projectOf, early>>

\* The deletion throws if somebody has added a repo; GitPOAPs lose the project.
RemoveProject(h) ==
    /\ asking[h].at = "undo project"
    /\ IF Of(h) = {}
       THEN /\ projects' = projects \ {h}
            /\ projectOf' = [k \in Creators |->
                  IF projectOf[k] = h THEN NoProject ELSE projectOf[k]]
            /\ Step(h, "undone")
       ELSE Step(h, "threw") /\ UNCHANGED <<projects, projectOf>>
    /\ UNCHANGED <<repoOf, pulled, early>>

-----------------------------------------------------------------------------
\* Mutant: a project without a POAP event is rolled back, whoever made it.
MakeEventUndoing(h) ==
    /\ asking[h].at = "event"
    /\ \/ Step(h, "gitpoap") /\ UNCHANGED repoOf
       \/ /\ Step(h, "refused")
          /\ repoOf' = [r \in Repos |-> IF r \in Of(asking[h].project) \ pulled THEN NoProject
                                        ELSE repoOf[r]]
    /\ UNCHANGED <<projects, pulled, projectOf, early>>

\* createPOAPEvent: if it fails, the answer is 500 and the project stays.
MakeEvent(h) ==
    /\ asking[h].at = "event"
    /\ Step(h, "gitpoap") \/ Step(h, "refused")
    /\ UNCHANGED <<projects, repoOf, pulled, projectOf, early>>

\* gitPOAP.create throws without the project that it connects.
MakeGitPOAP(h) ==
    /\ asking[h].at = "gitpoap"
    /\ IF asking[h].project \in projects
       THEN /\ projectOf' = [projectOf EXCEPT ![h] = asking[h].project]
            /\ Step(h, "made")
       ELSE Step(h, "threw") /\ UNCHANGED projectOf
    /\ UNCHANGED <<projects, repoOf, pulled, early>>

-----------------------------------------------------------------------------
(* POST /projects/add-repos                                                *)

ReadProject(h, p, wanted) ==
    /\ asking[h].at = "idle" /\ wanted # {}
    /\ IF p \in projects THEN Take(h, p, "add", wanted, wanted) ELSE Step(h, "refused") /\ UNCHANGED early
    /\ UNCHANGED <<projects, repoOf, pulled, projectOf>>

\* One that fails does not keep the others from being added; the answer is 500 then.
AddRepo(h, r) ==
    /\ asking[h].at = "add" /\ r \in asking[h].todo
    /\ LET left == asking[h].todo \ {r} IN
       \/ /\ Insertable(r, asking[h].project)
          /\ repoOf' = [repoOf EXCEPT ![r] = asking[h].project]
          /\ asking' = [asking EXCEPT ![h] = [@ EXCEPT !.todo = left,
                !.at = IF left = {} THEN "added" ELSE "add"]]
       \/ /\ asking' = [asking EXCEPT ![h] = [@ EXCEPT !.todo = left,
                !.wanted = asking[h].wanted \ {r}, !.at = IF left = {} THEN "added" ELSE "add"]]
          /\ UNCHANGED repoOf
    /\ UNCHANGED <<projects, pulled, projectOf, early>>

-----------------------------------------------------------------------------
\* The bot, a backload or the updater records a pull request of a repo.
RecordPull(r) ==
    /\ repoOf[r] # NoProject
    /\ pulled' = pulled \cup {r}
    /\ UNCHANGED <<projects, repoOf, projectOf, asking, early>>

\* The server stops.
Stop(h) ==
    /\ asking[h].at \notin {"idle", "made", "added", "refused", "undone", "threw"}
    /\ Step(h, "threw")
    /\ UNCHANGED <<projects, repoOf, pulled, projectOf, early>>

CreatorStep(h) ==
    \/ \E p \in ProjectIds : ChooseProject(h, p)
    \/ \E wanted \in (SUBSET Repos) \ {{}} : ChooseRepos(h, wanted)
    \/ CreateProject(h) \/ RemoveRepos(h) \/ RemoveProject(h) \/ MakeEvent(h)
    \/ \E r \in Repos : CreateRepo(h, r)
    \/ MakeGitPOAP(h) \/ Stop(h)

AdderStep(h) ==
    \/ \E p \in ProjectIds, wanted \in SUBSET Repos : ReadProject(h, p, wanted)
    \/ \E r \in Repos : AddRepo(h, r)
    \/ Stop(h)

ProjectsNext ==
    \/ \E h \in Creators : CreatorStep(h)
    \/ \E h \in Adders : AdderStep(h)
    \/ \E r \in Repos : RecordPull(r)

ProjectsSpec == ProjectsInit /\ [][ProjectsNext]_projectVars

-----------------------------------------------------------------------------
\* A GitPOAP that was made keeps a project with all the repos it was asked for, and
\* added repos stay in their project, whatever creations fail and are rolled back,
\* unless the project was given out before its creation had come to its end.
ReposStay ==
    \A h \in Requests \ early :
        /\ asking[h].at = "made" => projectOf[h] \in projects
        /\ asking[h].at \in {"event", "gitpoap", "made", "added"} =>
              \A r \in asking[h].wanted : repoOf[r] = asking[h].project

\* lib/projects.ts: "Rolling back creation of Project": a creation that was rolled
\* back has left no project and no repos, whoever else used the project meanwhile.
UndoneAreGone ==
    \A h \in Creators : asking[h].at = "undone" => h \notin projects /\ Of(h) = {}

-----------------------------------------------------------------------------
(* Why they hold: an inductive invariant.                                  *)

\* A project that is not rolled back any more.
Settled(p) == p \in projects /\ ~BeingCreated(p)

\* What a request creates is its own; adders create nothing.
OwnProject(h) ==
    /\ h \in Creators /\ asking[h].at \in Unfinished => asking[h].project = h /\ h \in projects
    /\ h \in Creators /\ asking[h].at \in {"idle", "project", "undone"} => h \notin projects
    /\ h \in Adders => asking[h].at \in {"idle", "add", "added", "refused", "threw"}

\* Whoever was given a settled project has it, and in it the repos got so far.
KeepsProject(h) ==
    LET q == asking[h] IN
    /\ q.at \in {"event", "gitpoap", "made", "add", "added"} => Settled(q.project)
    /\ q.at = "made" => projectOf[h] = q.project
    /\ q.at \in {"create", "event", "gitpoap", "made", "add", "added"} =>
          \A r \in q.wanted \ q.todo : repoOf[r] = q.project
    /\ q.at = "project" => q.todo = q.wanted
    /\ q.at \in {"event", "gitpoap", "made", "added"} => q.todo = {}

ProjectsInv ==
    /\ ProjectsTypeOK
    /\ \A h \in Requests : OwnProject(h)
    /\ \A h \in Requests \ early : KeepsProject(h)
=============================================================================
