------------------------------ MODULE Environment -----------------------------
(***************************************************************************)
(* The environment of a session's program: ResolveEnvironment with its     *)
(* layers, the parser of .env files, BootstrappedEnvCache, and the way the *)
(* result reaches the program.                                             *)
(*                                                                         *)
(* Most of it is one step of the io thread. RunBootstrap is not: the io    *)
(* thread runs a login shell and waits for it, at most until a deadline,   *)
(* while the shell prints, warns, ends, or leaves processes behind that    *)
(* hold its pipes, and the profile of the user may change.                 *)
(*                                                                         *)
(* Abstractions. A value is a sequence of pieces of text. A line of a .env *)
(* file is its key, how the value is quoted, and its parts: text, or a     *)
(* reference to a variable; comments, blank lines and lines without a      *)
(* proper key are not valid. The order of the entries is left out. The     *)
(* shell prints its environment at once.                                   *)
(***************************************************************************)
EXTENDS Naturals, Sequences, SequencesExt

CONSTANTS
    Requests,       \* requests that create a session
    Workspaces,     \* what a workspace may hold: per path None, or the lines of the file
    Hosts,          \* what the host configuration may say of environments
    ShellEnvs,      \* per shell: the environments it prints, as its profile changes
    DaemonEnv,      \* the environment of the daemon; SHELL is one of its variables
    Ttl,            \* ttl_
    Timeout,        \* kBootstrapTimeoutSeconds
    MaxTime         \* bound: how far the clock goes

ASSUME TimesAssumption == {Ttl, Timeout, MaxTime} \subseteq Nat \ {0}

None == <<>>    \* an optional value that is not there; one that is there is <<value>>
Shells == DOMAIN ShellEnvs

\* A path that the workspace knows has no file or one that is a sequence of lines.
ASSUME WorkspacesAssumption ==
    \A w \in Workspaces :
        /\ {".env.in", ".env"} \subseteq DOMAIN w
        /\ \A path \in DOMAIN w :
              w[path] = None \/ (w[path] = <<w[path][1]>> /\ w[path][1] \in Seq(ToSet(w[path][1])))
        /\ \A request \in Requests :
              request.file = None \/ \E path \in DOMAIN w : request.file = <<path>>

ASSUME RequestsAssumption ==
    \A request \in Requests :
        request.kind \in {"pty", "log"} /\ request.mode \in {"clean", "shell", "bootstrap"}

\* The shell is one that is there.
ASSUME ShellsAssumption ==
    /\ DaemonEnv["SHELL"][1] \in Shells
    /\ \A h \in Hosts : h.shell # None => h.shell[1] \in Shells

VARIABLES
    clock,      \* the steady clock
    since,      \* per shell: when each of its environments so far began
    workspace,  \* the files of the workspace
    host,       \* the host configuration
    cache,      \* cache_: per shell None, or the environment and captured_at
    job,        \* the bootstrap under way: its request and its login shell
    given       \* the session that has just been created: what it was told and what it has

envVars == <<clock, since, workspace, host, cache, job, given>>

Nothing == [k \in {} |-> <<>>]    \* the environment without variables
Idle == [step |-> "idle"]
NoSession == [outcome |-> "none"]

\* F(x); TLC evaluates x once, and all of it.
With(x, F(_)) == CHOOSE y \in {F(v) : v \in {v \in {x} : v = v}} : TRUE

\* The variables of both environments; the upper one goes first.
Over(upper, lower) ==
    With(upper, LAMBDA u : With(lower, LAMBDA l :
        [k \in DOMAIN u \cup DOMAIN l |-> IF k \in DOMAIN u THEN u[k] ELSE l[k]]))
-------------------------------------------------------------------------------
(* .env files *)

\* The last of the lines 1..n that sets k, or 0.
LastLine(lines, k, n) ==
    LET found == {i \in 1..n : lines[i].valid /\ lines[i].key = k}
    IN  IF found = {} THEN 0 ELSE Max(found)

\* ExpandVars: a reference in line n is to the lines before it, or else to the environment
\* so far; one that leads nowhere is empty.
Reference(lines, n, value, current, k) ==
    LET earlier == LastLine(lines, k, n - 1)
    IN  IF earlier # 0 THEN value[earlier]
        ELSE IF k \in DOMAIN current THEN current[k] ELSE <<>>

\* UnquoteValue: what line n stands for. A reference in single quotes is text.
LineValue(lines, n, value, current) ==
    FlattenSeq([i \in DOMAIN lines[n].parts |->
        LET part == lines[n].parts[i]
        IN  CASE ~part.ref -> <<part.text>>
              [] part.ref /\ lines[n].quote = "single" -> <<"$", part.text>>
              [] part.ref /\ lines[n].quote # "single" -> Reference(lines, n, value, current, part.text)])

\* What each line of a file stands for.
ParseEnvFile(lines, current) ==
    LET value[n \in DOMAIN lines] == LineValue(lines, n, value, current)
    IN  value

\* The variables that the lines set, each as in its last line.
Assignments(lines, current) ==
    LET value == ParseEnvFile(lines, current)
        keys == {lines[i].key : i \in {i \in DOMAIN lines : lines[i].valid}}
    IN  [k \in keys |-> value[LastLine(lines, k, Len(lines))]]

LinesOf(path) == IF workspace[path] = None THEN <<>> ELSE workspace[path][1]

LoadEnvFile(path, current) == Assignments(LinesOf(path), current)

\* The file that was asked for, there or not; or else the two of the workspace.
ResolveEnvFilePaths(explicit) ==
    LET there(path) == IF workspace[path] = None THEN <<>> ELSE <<path>>
    IN  IF explicit # None THEN explicit ELSE there(".env.in") \o there(".env")
-------------------------------------------------------------------------------
(* ResolveEnvironment *)

EntriesToMap(entries) == [k \in DOMAIN entries |-> entries[k].value]

Layer(env, source) == [k \in DOMAIN env |-> [value |-> env[k], source |-> source]]

ApplyOverrides(entries, overrides, source) == Over(Layer(overrides, source), entries)

ApplyEnvFile(entries, path) ==
    With(entries, LAMBDA es : ApplyOverrides(es, LoadEnvFile(path, EntriesToMap(es)), "env_file"))

ApplyEnvFiles(entries, paths) ==
    LET after[i \in 0..Len(paths)] == IF i = 0 THEN entries ELSE ApplyEnvFile(after[i - 1], paths[i])
    IN  after[Len(paths)]

\* The minimal environment of clean mode.
CleanBase == Over([PATH |-> <<"minimal">>],
                  [k \in {"HOME", "USER", "TMPDIR"} \cap DOMAIN DaemonEnv |-> DaemonEnv[k]])

\* The variables of the daemon that the host configuration lets through.
ServiceManagerEnv(h) ==
    IF h.import THEN [k \in h.allowlist \cap DOMAIN DaemonEnv |-> DaemonEnv[k]] ELSE Nothing

BaseEntries(mode, captured) ==
    CASE mode = "clean" -> Layer(CleanBase, "daemon_inherited")
      [] mode = "shell" -> Nothing
      [] mode = "bootstrap" ->
            ApplyOverrides(Layer(captured, "bootstrap_shell"), ServiceManagerEnv(host), "service_manager")

\* Both providers: no overrides.
DefaultProviderConfig == Nothing

\* The layers, in order, for a request and what a login shell printed.
ResolveEnvironment(request, captured) ==
    LET base == BaseEntries(request.mode, captured)
        filed == ApplyEnvFiles(base, ResolveEnvFilePaths(request.file))
        provided == ApplyOverrides(filed, DefaultProviderConfig, "provider_config")
    IN  ApplyOverrides(provided, request.overrides, "session_override")

ResolveBootstrapShell == IF host.shell # None THEN host.shell[1] ELSE DaemonEnv["SHELL"][1]

\* What a login shell has in its environment now.
LoginEnv(sh) == ShellEnvs[sh][Len(since[sh])]

\* Shell mode: a login shell that exports the entries, quoted, before the command.
BuildShellModeCommand(entries) == Over(EntriesToMap(entries), LoginEnv(ResolveBootstrapShell))

\* The environment the program starts with. The command of a log session is not wrapped
\* in a login shell: in shell mode it inherits the environment of the daemon.
BuildEnvp(request, entries) ==
    CASE request.mode # "shell" -> EntriesToMap(entries)
      [] request.mode = "shell" /\ request.kind = "pty" -> BuildShellModeCommand(entries)
      [] OTHER -> DaemonEnv

Failed(request) == [outcome |-> "failed", request |-> request]

\* The session is launched; `at` is when its environment was asked for.
Launched(request, captured, warning, at) ==
    With(ResolveEnvironment(request, captured), LAMBDA entries :
        [outcome |-> "launched", request |-> request, captured |-> captured, entries |-> entries,
         warning |-> warning, program |-> BuildEnvp(request, entries),
         host |-> host, shell |-> ResolveBootstrapShell, at |-> at])
-------------------------------------------------------------------------------
(* BootstrappedEnvCache *)

\* Mutant: an entry is used however old it is.
CachedForever(sh) == cache[sh] # None

Cached(sh) == cache[sh] # None /\ clock - cache[sh][1].at < Ttl

\* The variables of `env -0`, without those of the shell itself.
ParseEnvZero(out) ==
    IF out = None THEN Nothing
    ELSE [k \in DOMAIN out[1] \ {"SHLVL", "_", "PWD", "OLDPWD"} |-> out[1][k]]

\* CreateSession and CreateLogSession in a mode that needs no bootstrap.
Create(request) ==
    /\ job = Idle
    /\ request.mode # "bootstrap"
    /\ given' = Launched(request, Nothing, FALSE, clock)
    /\ UNCHANGED <<clock, since, workspace, host, cache, job>>

\* Get finds the environment in the cache.
CreateFromCache(request) ==
    LET sh == ResolveBootstrapShell
    IN  /\ job = Idle
        /\ request.mode = "bootstrap" /\ Cached(sh)
        /\ given' = Launched(request, cache[sh][1].env, FALSE, clock)
        /\ UNCHANGED <<clock, since, workspace, host, cache, job>>

\* Get does not: an entry that is too old is dropped, and RunBootstrap begins, unless
\* there is no pipe or no process for it.
RunBootstrap(request) ==
    LET sh == ResolveBootstrapShell
    IN  /\ job = Idle /\ clock + Timeout <= MaxTime
        /\ request.mode = "bootstrap" /\ ~Cached(sh)
        /\ cache' = [cache EXCEPT ![sh] = None]
        /\ \/ /\ job' = [step |-> "reads", request |-> request, start |-> clock, out |-> None,
                         err |-> FALSE, child |-> "running", open |-> TRUE, holder |-> FALSE]
              /\ given' = NoSession
           \/ given' = Failed(request) /\ UNCHANGED job
        /\ UNCHANGED <<clock, since, workspace, host>>

Reading == job.step = "reads"

\* Mutant: the deadline counts only for a shell that has printed nothing yet.
DeadlineUnlessPrinted == job.out = None /\ clock >= job.start + Timeout

DeadlinePassed == clock >= job.start + Timeout

\* Too late: the shell is killed and waited for, and what it printed is dropped.
BootstrapTimesOut ==
    /\ Reading /\ DeadlinePassed
    /\ job' = Idle /\ given' = Failed(job.request)
    /\ UNCHANGED <<clock, since, workspace, host, cache>>

\* Nobody holds the pipes any more: everything has been read.
PipesEnd ==
    /\ Reading /\ ~job.open /\ ~job.holder
    /\ job' = [job EXCEPT !.step = "waits"]
    /\ UNCHANGED <<clock, since, workspace, host, cache, given>>

\* waitpid returns. The exit code decides; a warning goes to the session that waited.
BootstrapEndsWithShell ==
    LET sh == ResolveBootstrapShell
        env == ParseEnvZero(job.out)
    IN  /\ job.step = "waits" /\ job.child # "running"
        /\ job' = Idle
        /\ IF job.child = "failed" THEN given' = Failed(job.request) /\ UNCHANGED cache
           ELSE /\ cache' = [cache EXCEPT ![sh] = <<[env |-> env, at |-> job.start]>>]
                /\ given' = Launched(job.request, env, job.err, job.start)
        /\ UNCHANGED <<clock, since, workspace, host>>

Parent == BootstrapTimesOut \/ PipesEnd \/ BootstrapEndsWithShell
-------------------------------------------------------------------------------
(* The login shell and the world *)

ShellDoes(step) ==
    /\ job # Idle /\ job.child = "running"
    /\ job' = step
    /\ UNCHANGED <<clock, since, workspace, host, cache, given>>

\* external: the shell prints its environment, or something on stderr.
ShellPrints == Reading /\ job.open /\ job.out = None
               /\ ShellDoes([job EXCEPT !.out = <<LoginEnv(ResolveBootstrapShell)>>])
ShellWarns == Reading /\ job.open /\ ~job.err /\ ShellDoes([job EXCEPT !.err = TRUE])

\* external: its profile starts a process in the background, or closes the pipes.
ShellLeavesProcess == Reading /\ job.open /\ ~job.holder /\ ShellDoes([job EXCEPT !.holder = TRUE])
ShellCloses == Reading /\ job.open /\ ShellDoes([job EXCEPT !.open = FALSE])

\* external: it ends, also before it has printed anything.
ShellEnds(how) == job # Idle /\ ShellDoes([job EXCEPT !.child = how, !.open = FALSE])

\* external: the process in the background ends.
HolderEnds ==
    /\ job # Idle /\ job.holder
    /\ job' = [job EXCEPT !.holder = FALSE]
    /\ UNCHANGED <<clock, since, workspace, host, cache, given>>

\* external: the user changes the profile of a shell.
ProfileChanges(sh) ==
    /\ Len(since[sh]) < Len(ShellEnvs[sh])
    /\ since' = [since EXCEPT ![sh] = Append(@, clock)]
    /\ given' = NoSession
    /\ UNCHANGED <<clock, workspace, host, cache, job>>

\* external: the host configuration is edited, between two requests.
HostChanges ==
    /\ job = Idle
    /\ host' \in Hosts \ {host}
    /\ given' = NoSession
    /\ UNCHANGED <<clock, since, workspace, cache, job>>

Tick ==
    /\ clock < MaxTime
    /\ clock' = clock + 1
    /\ given' = NoSession
    /\ UNCHANGED <<since, workspace, host, cache, job>>

EnvInit ==
    /\ clock = 0
    /\ since = [sh \in Shells |-> <<0>>]
    /\ workspace \in Workspaces
    /\ host \in Hosts
    /\ cache = [sh \in Shells |-> None]
    /\ job = Idle
    /\ given = NoSession

EnvNext ==
    \/ \E request \in Requests : Create(request) \/ CreateFromCache(request) \/ RunBootstrap(request)
    \/ Parent
    \/ ShellPrints \/ ShellWarns \/ ShellLeavesProcess \/ ShellCloses
    \/ \E how \in {"done", "failed"} : ShellEnds(how)
    \/ HolderEnds \/ HostChanges \/ Tick
    \/ \E sh \in Shells : ProfileChanges(sh)

\* The io thread goes on with the bootstrap, and time passes.
EnvSpec == EnvInit /\ [][EnvNext]_envVars /\ WF_envVars(Parent) /\ WF_envVars(Tick)
-------------------------------------------------------------------------------
(* What it comes to *)

\* The files of a request as if they were one.
FileLines(request) ==
    IF request.file # None THEN LinesOf(request.file[1]) ELSE LinesOf(".env.in") \o LinesOf(".env")

\* The highest layer that has a variable gives it, and is named as its source.
Expected(request, captured, h) ==
    LET imported == IF request.mode = "bootstrap" THEN ServiceManagerEnv(h) ELSE Nothing
        base == CASE request.mode = "clean" -> CleanBase
                  [] request.mode = "shell" -> Nothing
                  [] request.mode = "bootstrap" -> Over(imported, captured)
        filed == Assignments(FileLines(request), base)
        session == request.overrides
        source(k) == CASE k \in DOMAIN session -> "session_override"
                       [] k \in DOMAIN filed \ DOMAIN session -> "env_file"
                       [] k \in DOMAIN imported \ (DOMAIN filed \cup DOMAIN session) -> "service_manager"
                       [] OTHER -> IF request.mode = "clean" THEN "daemon_inherited" ELSE "bootstrap_shell"
        all == Over(session, Over(filed, base))
    IN  [k \in DOMAIN all |-> [value |-> all[k], source |-> source(k)]]

\* What the shell would have printed at some moment since Ttl before the request.
Recent(sh, at) ==
    {ParseEnvZero(<<ShellEnvs[sh][v]>>) : v \in {v \in DOMAIN since[sh] :
        v < Len(since[sh]) => since[sh][v + 1] + Ttl > at}}

\* The environment that a session is told (GET /sessions/{id}/env) is its layers over what
\* its own login shell printed less than Ttl ago, or over nothing if the shell ended well
\* without having printed; and its program has it, except a log session in shell mode.
EnvironmentAsTold ==
    given.outcome = "launched" =>
        /\ given.captured # Nothing => given.captured \in Recent(given.shell, given.at)
        /\ given.entries = Expected(given.request, given.captured, given.host)
        /\ \/ given.request.kind = "log" /\ given.request.mode = "shell"
           \/ \A k \in DOMAIN given.entries : given.program[k] = given.entries[k].value

\* The io thread comes back from a bootstrap whatever the login shell leaves behind,
\* except that waitpid has no deadline: a shell that closes its pipes may keep it.
BootstrapReturns ==
    job # Idle ~> (job = Idle \/ (job.step = "waits" /\ job.child = "running"))
===============================================================================
