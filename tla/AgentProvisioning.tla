------------------------- MODULE AgentProvisioning -------------------------
(***************************************************************************)
(* Provisioning of managed agents: providers/provision.py over the         *)
(* Anthropic adapter, and the older sync_*.py scripts.  A run makes sure,  *)
(* one after another, that an environment, a vault with a credential, a    *)
(* memory store with a seed, the role agents and the coordinator exist and *)
(* are up to date, each with a listing followed by a POST, and writes the  *)
(* ids to files.  Runs may overlap (a CI job and an operator) and may end  *)
(* anywhere.                                                               *)
(*                                                                         *)
(* There is one resource of each kind.  A manifest's payload is abstracted *)
(* to one field, the set of its value, empty when the manifest does not    *)
(* give it (a tool whose URL is not configured).  The listing of           *)
(* credentials shows no keys.                                              *)
(***************************************************************************)
EXTENDS Integers, Sequences, FiniteSets

CONSTANTS
    Procs,       \* runs
    Fields,      \* the values of the field
    MaxEdits,    \* bound: changes of the role's manifest, before runs overlap
    MaxDeaths    \* bound: runs that end early, before runs overlap

VARIABLES
    manifest,    \* the role's field in the repository
    remote,      \* resources at Anthropic; the id is the index
    procs,       \* the local variables of a run
    files,       \* environment-ids, vault-ids, memory-ids and agent-ids.json
    edits, deaths,
    overlapped,  \* history: two runs were under way at once
    fresh        \* history: no run began and no manifest changed since the last full run

provVars == <<manifest, remote, procs, files, edits, deaths, overlapped, fresh>>

\* The order of apply(), and the file each part ends with.
Steps == <<"env", "vault", "cred", "memory", "seed", "role", "coord">>
FileOf == [env |-> "env", cred |-> "vault", seed |-> "memory", coord |-> "agents"]

NoRun == [pc |-> "new", at |-> 1, post |-> FALSE, want |-> {}, base |-> 0, ver |-> 0, state |-> {}]

Init ==
    /\ manifest = {CHOOSE v \in Fields : TRUE}
    /\ remote = <<>>
    /\ procs = [p \in Procs |-> NoRun]
    /\ files = [f \in {"env", "vault", "memory", "agents"} |-> {}]
    /\ edits = 0 /\ deaths = 0 /\ overlapped = FALSE /\ fresh = FALSE

\* Mutant: what a listing by name shows is taken for another's, unless it is an agent.
list_all_agents(kind) ==
    LET ids == {i \in 1..Len(remote) : remote[i].kind = kind /\ kind \in {"role", "coord", "cred"}}
    IN  IF ids = {} THEN 0 ELSE CHOOSE i \in ids : \A j \in ids : j <= i

\* A dictionary by name keeps the last of those that share it; 0 for none.
list_all(kind) ==
    LET ids == {i \in 1..Len(remote) : remote[i].kind = kind}
    IN  IF ids = {} THEN 0 ELSE CHOOSE i \in ids : \A j \in ids : j <= i

\* The role agents as this run resolved them, which the coordinator refers to.
Roster(p) == {r \in procs[p].state : r[1] = "role"}

\* What the manifest asks for; a coordinator's is the roster of what this run resolved.
\* agent_payload leaves out a server, and its tools, whose URL is not set.
agent_payload(p, kind) ==
    IF kind = "role" THEN manifest
    ELSE IF kind = "coord" THEN Roster(p)
    ELSE {}

\* Mutant: the roster of a coordinator is not compared.
agent_changed_role(i, want) == remote[i].kind = "role" /\ want # {} /\ remote[i].cfg # want

\* Mutant: only a field that the agent lacks is filled in.
agent_changed_lacking(i, want) ==
    remote[i].kind \in {"role", "coord"} /\ want # {} /\ (remote[i].kind = "coord" \/ remote[i].cfg = {}) /\ remote[i].cfg # want

\* An agent is updated if a field that the manifest gives differs.
agent_changed(i, want) ==
    remote[i].kind \in {"role", "coord"} /\ want # {} /\ remote[i].cfg # want

\* Whether an ensure_* posts; keys of credentials are not listed, so that one always is.
PostsEnvironment(i) == i = 0
PostsVault(kind, i) == i = 0 \/ kind = "cred"
PostsMemory(i) == i = 0
PostsAgent(i, want) == i = 0 \/ agent_changed(i, want)

NeedsPost(kind, i, want) ==
    CASE kind = "env" -> PostsEnvironment(i)
      [] kind \in {"vault", "cred"} -> PostsVault(kind, i)
      [] kind \in {"memory", "seed"} -> PostsMemory(i)
      [] kind \in {"role", "coord"} -> PostsAgent(i, want)

\* The run goes to its next part, and writes a file where one ends.
Advance(p, entry) ==
    LET kind == Steps[procs[p].at]
        state == procs[p].state \cup {entry}
        last == procs[p].at = Len(Steps)
    IN  /\ procs' = [procs EXCEPT ![p] = [pc |-> IF last THEN "done" ELSE "run", at |-> IF last THEN @.at ELSE @.at + 1,
                                          post |-> FALSE, want |-> {}, base |-> 0, ver |-> 0, state |-> state]]
        /\ files' = IF kind \in DOMAIN FileOf
                    THEN [files EXCEPT ![FileOf[kind]] =
                            {r \in state : r[1] \in (CASE kind = "env" -> {"env"} [] kind = "cred" -> {"vault"}
                                                       [] kind = "seed" -> {"memory"} [] kind = "coord" -> {"role", "coord"})}]
                    ELSE files
        /\ fresh' = (last /\ \A q \in Procs \ {p} : procs[q].pc # "run")

Begin(p) ==
    /\ procs[p].pc = "new"
    /\ procs' = [procs EXCEPT ![p].pc = "run"]
    /\ overlapped' = (overlapped \/ \E q \in Procs : procs[q].pc = "run")
    /\ fresh' = FALSE
    /\ UNCHANGED <<manifest, remote, files, edits, deaths>>

\* The first half of an ensure_*: list, and compare.
Look(p) ==
    /\ procs[p].pc = "run" /\ ~procs[p].post
    /\ LET kind == Steps[procs[p].at]
           i == list_all(kind)
           want == agent_payload(p, kind)
       IN  IF NeedsPost(kind, i, want)
           THEN procs' = [procs EXCEPT ![p].post = TRUE, ![p].want = want, ![p].base = i,
                                              ![p].ver = IF i = 0 THEN 0 ELSE remote[i].ver] /\ UNCHANGED <<files, fresh>>
           ELSE Advance(p, <<kind, i, remote[i].ver>>)
    /\ UNCHANGED <<manifest, remote, edits, deaths, overlapped>>

\* The second half: create, or update the version that was listed.  A credential that
\* exists is a 409, which counts as done; an agent whose version moved on is a 409 that
\* ends the run.  The answer's version is kept: first of a new resource, next of an old.
PostKeeping(p, first, next) ==
    /\ procs[p].pc = "run" /\ procs[p].post
    /\ LET kind == Steps[procs[p].at]
           i == IF kind = "cred" THEN list_all(kind) ELSE procs[p].base
       IN  \/ /\ i = 0
              /\ remote' = Append(remote, [kind |-> kind, ver |-> 1, cfg |-> procs[p].want])
              /\ Advance(p, <<kind, Len(remote) + 1, first>>)
           \/ i # 0 /\ kind = "cred" /\ Advance(p, <<kind, i, 1>>) /\ UNCHANGED remote
           \/ /\ i # 0 /\ kind # "cred" /\ remote[i].ver = procs[p].ver
              /\ remote' = [remote EXCEPT ![i].ver = @ + 1, ![i].cfg = procs[p].want]
              /\ Advance(p, <<kind, i, next>>)
           \/ /\ i # 0 /\ kind # "cred" /\ remote[i].ver # procs[p].ver
              /\ procs' = [procs EXCEPT ![p].pc = "dead"] /\ UNCHANGED <<remote, files, fresh>>
    /\ UNCHANGED <<manifest, edits, deaths, overlapped>>

\* Mutants: an update is believed to keep the version; a new one to have the second already.
PostOldVersion(p) == PostKeeping(p, 1, procs[p].ver)
PostNextVersion(p) == PostKeeping(p, procs[p].ver + 2, procs[p].ver + 1)

Post(p) == PostKeeping(p, 1, procs[p].ver + 1)

\* A request fails, which raises SystemExit, or the run is killed; it is started again.
Die(p) ==
    /\ deaths < MaxDeaths /\ ~overlapped /\ procs[p].pc = "run"
    /\ deaths' = deaths + 1
    /\ procs' = [procs EXCEPT ![p] = NoRun]
    /\ UNCHANGED <<manifest, remote, files, edits, overlapped, fresh>>

\* The manifest, or the environment its URLs come from, changes between runs.
Edit ==
    /\ edits < MaxEdits /\ ~overlapped /\ \A p \in Procs : procs[p].pc # "run"
    /\ edits' = edits + 1
    /\ manifest' \in {{v} : v \in Fields} \cup {{}}
    /\ fresh' = FALSE
    /\ UNCHANGED <<remote, procs, files, deaths, overlapped>>

Next == Edit \/ \E p \in Procs : Begin(p) \/ Look(p) \/ Post(p) \/ Die(p)

Spec == Init /\ [][Next]_provVars

------------------------------------------------------------------------------
(* Properties                                                              *)

\* "idempotently" (provision.py): runs that are cut off and repeated make no second
\* resource of a name, unless two runs look before either of them posts.
OneOfEach ==
    ~overlapped => \A i, j \in 1..Len(remote) : remote[i].kind = remote[j].kind => i = j

\* What launch_session.py and the hand-off server read from the files is there, in a
\* version that exists, with duplicates and partial runs too.
FilesResolve ==
    \A f \in DOMAIN files : \A r \in files[f] :
        r[2] <= Len(remote) /\ remote[r[2]].kind = r[1] /\ r[3] \in 1..remote[r[2]].ver

\* After a full run agent-ids.json has the role's current version, and the coordinator
\* "can reference the freshly-resolved role agent ids/versions" (sync_agents.py).
RosterMatches ==
    fresh /\ ~overlapped =>
        \A r \in files["agents"] :
            /\ r[3] = remote[r[2]].ver
            /\ r[1] = "coord" => remote[r[2]].cfg = {x \in files["agents"] : x[1] = "role"}

\* After a full run the role is as its manifest says, where that gives the field: a
\* field that is taken out of the manifest stays as it was.
AppliedWhereGiven ==
    fresh /\ ~overlapped /\ manifest # {} => remote[list_all("role")].cfg = manifest
=============================================================================
