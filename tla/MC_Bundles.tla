----------------------------- MODULE MC_Bundles -----------------------------
(***************************************************************************)
(* The real bundles: the default run, single bundles, and pairs of them in *)
(* both orders, under configurations that take every branch of a build().  *)
(***************************************************************************)
EXTENDS Bundles, PlanBuilder, TLC

Host(nvidia, tuxedo, ppa, users, container, x86, virtualbox) ==
    [nvidia |-> nvidia, tuxedo |-> tuxedo, ppa |-> ppa, users |-> users, container |-> container,
     x86 |-> x86, virtualbox |-> virtualbox]

\* docker's build() branches on nvidia and on the users, every other one on
\* at most two facts; each fact is met both ways.
RealConfigs ==
    {Host(FALSE, FALSE, FALSE, "none", TRUE, FALSE, FALSE),     \* a bare container
     Host(FALSE, FALSE, FALSE, "user", TRUE, TRUE, FALSE),      \* the e2e container
     Host(FALSE, FALSE, TRUE, "root", FALSE, FALSE, FALSE),     \* a server
     Host(FALSE, FALSE, FALSE, "user", FALSE, TRUE, TRUE),      \* a virtual machine
     Host(TRUE, TRUE, TRUE, "user", FALSE, TRUE, FALSE),        \* a laptop
     Host(TRUE, FALSE, FALSE, "none", FALSE, TRUE, FALSE),
     Host(TRUE, FALSE, FALSE, "homeless", FALSE, FALSE, FALSE),
     Host(TRUE, FALSE, FALSE, "root", TRUE, TRUE, FALSE)}

RealBuild == [c \in RealConfigs |-> BuildFunctions(c)]
RealVars ==
    BundleName \cup UNION {{RealBuild[c][b][k].as : k \in DOMAIN RealBuild[c][b]} :
                              b \in BundleName, c \in RealConfigs}

\* No --bundle flag; the widest single bundles; bundles before and after ones
\* that call them.
RealRequests ==
    {<<"common_devserver">>, <<"virtualbox", "docker">>, <<"users", "docker">>,
     <<"docker", "users">>, <<"node_exporter", "smartctl_exporter", "nvidia">>,
     <<"nvidia", "apt", "node_exporter", "smartctl_exporter", "apt">>}

Layers ==
    <<{"apt", "users"},
      {"apc_ups", "apparmor", "ca_cert", "chrony", "et", "flatpak", "gpg", "libvirtd", "locales",
       "nix", "nvidia", "nvim", "pip", "snapd", "systemd", "tailscale", "tuxedo", "tzdata",
       "virtualbox", "yubico"},
      {"common_tools", "docker", "iptables", "lvm"},
      {"common_tweaks", "node_exporter", "smartctl_exporter"},
      {"common", "ubuntu_devserver"},
      {"devserver"},
      {"common_devserver"}>>
RealLayer == [b \in BundleName |-> CHOOSE n \in DOMAIN Layers : b \in Layers[n]]

\* What OrdersSharers and DriversApart ask for, depth by depth: what each resource
\* of all the bundles waits for, directly or not, and how deep its dependencies lie.
MaxDepth == 20
NextDeep(all, known) == {r \in all : Place(r) \notin known /\ r.deps \subseteq known}
RealBefore(c) ==
    LET all == Declared(c, BundleName)
        upto[n \in 0 .. MaxDepth] ==
            IF n = 0 THEN [p \in {} |-> {}]
            ELSE LET before == upto[n - 1]
                     next == NextDeep(all, DOMAIN before)
                     deps(p) == (CHOOSE r \in next : Place(r) = p).deps
                 IN  before @@ [p \in {Place(r) : r \in next} |->
                                   deps(p) \cup UNION {before[d] : d \in deps(p)}]
    IN  upto[MaxDepth]
RealDepth(c) ==
    LET all == Declared(c, BundleName)
        upto[n \in 0 .. MaxDepth] ==
            IF n = 0 THEN [p \in {} |-> 0]
            ELSE LET depth == upto[n - 1]
                 IN  depth @@ [p \in {Place(r) : r \in NextDeep(all, DOMAIN depth)} |-> n - 1]
    IN  upto[MaxDepth]

\* What the theorems about the plan ask of the build() functions, whatever is
\* asked for: their calls form no cycle, they keep to the conventions, resources
\* that share something are ordered, and no package is as deep as the drivers.
RealConventions ==
    /\ at = 1 =>
           \A b \in BundleName : \A k \in DOMAIN body[b] :
               body[b][k].op = "call" => RealLayer[body[b][k].as] < RealLayer[b]
    /\ Done /\ asked = <<"common_devserver">> =>
           /\ \A b \in BundleName : Conventional(cfg, b)
           /\ OrdersSharers(cfg, RealBefore(cfg))
           /\ DriversApart(cfg, RealDepth(cfg))

=============================================================================
