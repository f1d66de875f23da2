---------------------------- MODULE MCLearnLife ----------------------------
EXTENDS LearnLife, TLC

CONSTANTS sh, curl, py, script, missing, f1, f2

MCBinary == ("/bin/sh" :> sh) @@ ("/bin/py" :> py) @@ ("/bin/curl" :> curl)
            @@ ("/opt/curl" :> missing) @@ ("/bin/script" :> script)
MCInterpreter == script :> py
MCWhere == (sh :> "/bin/sh") @@ (curl :> "/bin/curl") @@ (py :> "/bin/py")

Exe(path, read) == [nr |-> "execve", path |-> path, read |-> read]
Open(shown, write) == [nr |-> "openat", place |-> ".ssh", shown |-> shown, write |-> write]
MCCalls == {Exe(p, p) : p \in {"/bin/curl", "/opt/curl", "/bin/script"}}
           \cup {Exe(p, None) : p \in {"/bin/curl", "/opt/curl"}}
           \cup {Open(TRUE, TRUE), Open(TRUE, FALSE)}
           \cup {[nr |-> nr] : nr \in {"connect", "fork", "clone", "ptrace"}}

\* The recorded and the proposed policies.
Nets == {[allow |-> a, defaultDeny |-> TRUE, private |-> p] :
            a \in {{}, {"a"}, {"a", "b"}}, p \in BOOLEAN}
        \cup {[allow |-> {}, defaultDeny |-> FALSE, private |-> TRUE]}
Walls == {[enforce |-> FALSE, digests |-> {}], [enforce |-> TRUE, digests |-> {sh}],
          [enforce |-> TRUE, digests |-> {sh, curl}]}
MCPolicies == {n @@ w : n \in Nets, w \in Walls}

\* A project with a lockfile in its root and one below, and one without the first
\* that is not in a repository.
Cargo == "Cargo.lock"
GoSum == "sub/go.sum"
MCEcosystem == Cargo :> "cargo" @@ GoSum :> "go"
MCRegistries == "cargo" :> {"crates.io"} @@ "go" :> {"proxy.golang.org"}
MCCheckouts == {[disk |-> Cargo :> "x" @@ GoSum :> "x", repo |-> TRUE],
                [disk |-> Cargo :> "absent" @@ GoSum :> "x", repo |-> FALSE]}
MCSymmetry == Permutations(ProfileFiles)
=============================================================================
