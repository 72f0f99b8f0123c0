------------------------------ MODULE MC_Files ------------------------------
(***************************************************************************)
(* Files for TLC: levels of the real bundles.                              *)
(***************************************************************************)
EXTENDS Files, TLC

CONSTANTS
    local, private,         \* users: ~/.local and ~/.local/private
    iptables, rules4, rules6,   \* iptables: the two rule files in one directory
    run_args,               \* docker: a file with an owner
    asc,                    \* docker: its Download
    vteA, vteB,             \* common_tweaks: two vte*.sh
    sh,                     \* common_tweaks: /bin/sh
    qemu,                   \* libvirtd: qemu.conf
    v1, v2, edited,         \* contents
    bash, dash,             \* targets of links
    right, wrong, other     \* lines

ThePaths == {local, private, iptables, rules4, rules6, run_args, asc, vteA, vteB, sh, qemu}
ThePlans == {{local, private}, {rules4, rules6}, {run_args, asc}, {vteA, vteB}, {sh, qemu}}
TheKind ==
    [p \in ThePaths |-> CASE p \in {local, private, iptables} -> "dir"
                          [] p \in {rules4, rules6, run_args} -> "file"
                          [] p = asc -> "download"
                          [] p \in {vteA, vteB} -> "absent"
                          [] p = sh -> "link"
                          [] p = qemu -> "line"]
TheAbove ==
    [p \in ThePaths |-> CASE p = private -> {local}
                          [] p \in {rules4, rules6} -> {iptables}
                          [] OTHER -> {}]
TheMode ==
    [p \in ThePaths |-> CASE p \in {private, run_args} -> "600"
                          [] p \in {rules4, rules6, asc} -> "644"
                          [] OTHER -> "any"]
TheOwner == [p \in ThePaths |-> IF p \in {local, private, run_args} THEN "alice" ELSE "any"]

\* Two configurations, the second of which asks for new contents.
TheConfigs ==
    {[p \in ThePaths |-> CASE p \in {rules4, rules6, run_args, asc} -> v
                           [] p = sh -> bash
                           [] OTHER -> Nothing] : v \in {v1, v2}}

AFile(c, m, o) == [type |-> "file", content |-> c, mode |-> m, owner |-> o]
ADir(m, o) == [type |-> "dir", content |-> Nothing, mode |-> m, owner |-> o]
ALink(t) == [type |-> "link", content |-> t, mode |-> "none", owner |-> "root"]
\* Texts with the line, without it, with others that match, and all of these.
SomeTexts == {<<>>, <<other>>, <<right>>, <<wrong, other>>, <<other, wrong, right>>, <<wrong, wrong>>}
TheFound ==
    [p \in ThePaths |->
        {Gone} \cup
        CASE p \in {local, private} -> {ADir(m, o) : m \in {"644", "600"}, o \in {"root", "alice"}}
          [] p = iptables -> {ADir("644", "root"), AFile(edited, "644", "root")}
          [] p \in {rules4, rules6} -> {AFile(edited, "644", "root"), AFile(v1, "600", "root")}
          [] p = run_args -> {AFile(edited, "644", "root"), AFile(v1, "600", "root")}
          [] p = asc -> {AFile(edited, "600", "root")}
          [] p = vteA -> {AFile(v1, "644", "root"), ADir("644", "root"), ALink(vteB), ALink(dash)}
          [] p = vteB -> {AFile(v1, "644", "root")}
          [] p = sh -> {ALink(dash), AFile(edited, "644", "root")}
          [] p = qemu -> {AFile(t, "600", "root") : t \in SomeTexts}]

=============================================================================
