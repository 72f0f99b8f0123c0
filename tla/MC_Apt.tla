------------------------------ MODULE MC_Apt ------------------------------
(* A package to install with one that it needs, and a package to remove with *)
(* one that needs it, as common_tweaks has them.                             *)
EXTENDS Apt

MCPackages == {"curl", "libcurl", "command-not-found", "ubuntu-standard"}
MCNeeds == [p \in MCPackages |->
               CASE p = "curl" -> {"libcurl"}
                 [] p = "ubuntu-standard" -> {"command-not-found"}
                 [] OTHER -> {}]
MCWanted == {"curl"}
MCUnwanted == {"command-not-found"}
===========================================================================
