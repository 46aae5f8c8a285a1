SPECIFICATION EnvSpec
CONSTANTS
    Requests <- MCRequests
    Workspaces <- MCWorkspaces
    Hosts <- MCHosts
    ShellEnvs <- MCShellEnvs
    DaemonEnv <- MCDaemonEnv
    Ttl = 2
    Timeout = 1
    MaxTime = 3
CHECK_DEADLOCK FALSE
INVARIANT EnvironmentAsTold
PROPERTY BootstrapReturns
