SPECIFICATION LearnSpec
CONSTANTS
    sh = sh
    curl = curl
    py = py
    script = script
    missing = missing
    Missing = missing
    Tasks = {"t1", "t2", "t3"}
    Root = "t1"
    Calls <- MCCalls
    Binary <- MCBinary
    Absolute = {"/bin/sh", "/bin/py", "/bin/curl", "/opt/curl", "/bin/script"}
    Interpreter <- MCInterpreter
    Where <- MCWhere
    Commands = {"/bin/sh", "/bin/script"}
    MaxCalls = 4
    Readable = {sh, curl, script}
    Secrets = {".ssh"}
    Dangerous = {"ptrace", "mount"}
    Policies <- MCPolicies
    Hosts = {"a", "b"}
    Programs = {sh, curl}
    MaxOps = 3
    f1 = f1
    f2 = f2
    Lockfiles = {"Cargo.lock", "sub/go.sum"}
    AtRoot = {"Cargo.lock"}
    Ecosystem <- MCEcosystem
    Registries <- MCRegistries
    Hosting = {"github.com"}
    Bundled = {"model"}
    Wider = "other"
    Contents = {"x", "y"}
    Absent = "absent"
    Untracked = {"sub/go.sum"}
    ProfileFiles = {f1, f2}
    Signers = {"admin", "developer"}
    Trusted = {"admin"}
    Commits = {"c1"}
    Checkouts <- MCCheckouts
    MaxEdits = 1
    MaxCommands = 3
SYMMETRY MCSymmetry
INVARIANTS  TreeTold ReplayHonest StartsAsApproved RegistriesPinned
CHECK_DEADLOCK FALSE
