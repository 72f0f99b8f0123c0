---------------------------- MODULE MC_Executor ----------------------------
(***************************************************************************)
(* Slices of the plans the bundles build, small enough for TLC.            *)
(***************************************************************************)
EXTENDS Executor, TLC

-----------------------------------------------------------------------------
(* Packages 0 and 1, one batch when they share a level; 2 a handler run    *)
(* when 1 changed; 3 a service restarted when 0 or 2 changed and skipped   *)
(* in containers; 4 a Command without trigger_on, after the service, or a  *)
(* task beside the packages.  Package 0 shares a level with 1, or with the *)
(* handler; a duplicate dependency, a cycle and an unknown id.             *)

PackagesKind == 0 :> "state" @@ 1 :> "state" @@ 2 :> "handler" @@ 3 :> "service" @@ 4 :> "command"
PackagesTrigger == 0 :> {} @@ 1 :> {} @@ 2 :> {1} @@ 3 :> {0, 2} @@ 4 :> {}
PackagesFamily == [i \in 0 .. 4 |-> IF i \in {0, 1} THEN "AptPackage" ELSE "none"]
PackagesSkip == [i \in 0 .. 4 |-> IF i = 3 THEN "InContainer" ELSE "Never"]
PackagesPlans ==
    {0 :> a @@ 1 :> <<>> @@ 2 :> <<1, 1>> @@ 3 :> <<0, 2>> @@ 4 :> c :
        a \in {<<>>, <<1>>}, c \in {<<3>>, <<>>}}
    \cup {0 :> a @@ 1 :> <<>> @@ 2 :> <<1>> @@ 3 :> <<0, 2>> @@ 4 :> <<3>> :
        a \in {<<3>>, <<7>>}}

-----------------------------------------------------------------------------
(* docker.rs with nvidia: the toolkit package (0), daemon.json (1), the    *)
(* nvidia bundle's Marker (2) and docker.service (3).                      *)

DockerKind == 0 :> "state" @@ 1 :> "state" @@ 2 :> "marker" @@ 3 :> "service"
DockerTrigger == 0 :> {} @@ 1 :> {} @@ 2 :> {} @@ 3 :> {1, 2}
DockerFamily == 0 :> "AptPackage" @@ 1 :> "none" @@ 2 :> "none" @@ 3 :> "none"
DockerSkip == [i \in 0 .. 3 |-> IF i = 3 THEN "InContainer" ELSE "Never"]
DockerPlans == {0 :> <<>> @@ 1 :> <<>> @@ 2 :> <<0>> @@ 3 :> <<1, 2>>}

-----------------------------------------------------------------------------
(* common_tweaks.rs: the file sysctl reads (0), a package to remove in the *)
(* same level (1), and the Command `sysctl --system` (2).                  *)

TweaksKind == 0 :> "state" @@ 1 :> "state" @@ 2 :> "handler"
TweaksTrigger == 0 :> {} @@ 1 :> {} @@ 2 :> {0}
TweaksFamily == 0 :> "none" @@ 1 :> "AbsentAptPackage" @@ 2 :> "none"
TweaksSkip == [i \in 0 .. 2 |-> IF i = 2 THEN "InContainer" ELSE "Never"]
TweaksPlans == {0 :> <<>> @@ 1 :> <<>> @@ 2 :> <<0>>}

=============================================================================
