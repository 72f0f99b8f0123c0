------------------------------ MODULE Bundles ------------------------------
(***************************************************************************)
(* The build() functions of src/src/bundles/, as tables for PlanBuilder:   *)
(* which bundles each one calls and which resources it adds, with their    *)
(* dependencies and triggers, under each configuration.  Packages and      *)
(* files that one loop adds with the same dependencies are one entry that  *)
(* acts on all of them.  Contents, modes and skip_when are left out.       *)
(***************************************************************************)
EXTENDS Integers, Sequences

\* The facts of Config and Env the build() functions branch on.
Configs ==
    [nvidia : BOOLEAN,      \* Config.nvidia
     tuxedo : BOOLEAN,      \* Config.system_vendor is "TUXEDO"
     ppa : BOOLEAN,         \* Config.apt_repos has ppa-pv-safronov-backports
     users : {"none", "root", "homeless", "user"},
                            \* Config.users: nobody, or one who is root, has
                            \* no home, or has one
     container : BOOLEAN,   \* Env::is_container
     x86 : BOOLEAN,         \* Env::architecture is "x86_64"
     virtualbox : BOOLEAN]  \* Env::is_in_virtualbox

-----------------------------------------------------------------------------
(* Statements.                                                             *)

Call(b) == [op |-> "call", as |-> b]
Add(as, kind, on, deps) ==
    [op |-> "add", as |-> as, kind |-> kind, on |-> on, deps |-> deps, trig |-> {}]
Triggered(as, kind, on, trig, deps) ==
    [op |-> "add", as |-> as, kind |-> kind, on |-> on, deps |-> deps, trig |-> trig]
Ready(deps) == Add("ready", "Marker", {}, deps)
When(condition, stmts) == IF condition THEN stmts ELSE <<>>
Names(condition, vs) == IF condition THEN vs ELSE {}

\* A bundle that only installs packages.
PackagesOnly(on) ==
    <<Call("apt"), Add("pkg", "AptPackage", on, {"apt"}), Ready({"pkg"})>>

-----------------------------------------------------------------------------
(* Package sources, users and the base system.                             *)

Apt(c) ==
    LET repos == {"sources_list", "ppa_pin", "pin", "list"} \cup Names(c.ppa, {"ppa_entry", "key"})
    IN  <<Add("confd_files", "File",
              {"00noinstallrecommends", "30allowunauth", "00timeout", "10periodic", "00release",
               "99debug"}, {}),
          Add("cleanup_files", "AbsentFile",
              {"90-updates-available", "99update-notifier", "cron.daily/update-notifier-common",
               "cron.weekly/update-notifier-common", "ubuntu.sources",
               "ppa-pv-safronov-backports.gpg"}, {}),
          Add("sources_list", "File", {"/etc/apt/sources.list"}, {}),
          Add("ppa_pin", "File", {"ppa.pref"}, {}),
          Add("pin", "File", {"ubuntu.pref"}, {}),
          Add("list", "File", {"ubuntu.list"}, {})>>
        \o When(c.ppa,
            <<Add("ppa_entry", "File",
                  {"ppa-pv-safronov-backports.pref", "ppa-pv-safronov-backports.list"}, {}),
              Add("key", "Download", {"ppa-pv-safronov-backports.asc"}, {})>>)
        \o <<Add("bootstrap_ids", "AptPackage",
                 {"software-properties-common", "python3-pycurl", "python3-apt",
                  "apt-transport-https", "openssh-client", "aptitude"},
                 {"confd_files", "cleanup_files"} \cup repos),
             Ready({"confd_files", "cleanup_files", "bootstrap_ids"} \cup repos)>>

Users(c) ==
    LET home == c.users \in {"root", "user"}
        mount == c.users = "user"
    IN  When(c.users # "none", <<Add("user_id", "User", {"user"}, {})>>)
        \o When(home,
            <<Add("local", "Directory", {"~/.local"}, {"user_id"}),
              Add("config", "Directory", {"~/.config"}, {"user_id"}),
              Add("private", "Directory", {"~/.local/private"}, {"user_id"})>>)
        \o When(mount,
            <<Add("unit_id", "SystemdUnit", {"home-user-.cache.mount"}, {"user_id"}),
              Add("svc_id", "Service", {"home-user-.cache.mount"}, {"unit_id"})>>)
        \o <<Ready(Names(c.users # "none", {"user_id"})
                   \cup Names(home, {"local", "config", "private"})
                   \cup Names(mount, {"unit_id", "svc_id"}))>>

Tzdata ==
    <<Call("apt"),
      Add("pkg", "AptPackage", {"tzdata"}, {"apt"}),
      Add("localtime", "Symlink", {"/etc/localtime"}, {"pkg"}),
      Add("timezone", "File", {"/etc/timezone"}, {"pkg"}),
      Ready({"pkg", "localtime", "timezone"})>>

CaCert ==
    <<Call("apt"),
      Add("pkg", "AptPackage", {"ca-certificates"}, {"apt"}),
      Add("cert_ids", "File", {"/usr/local/share/ca-certificates/*"}, {"pkg"}),
      Triggered("update", "Command", {}, {"cert_ids"}, {"pkg", "cert_ids"}),
      Ready({"pkg", "cert_ids", "update"})>>

Chrony ==
    <<Call("apt"),
      Add("pkg", "AptPackage", {"chrony"}, {"apt"}),
      Add("service", "Service", {"chrony.service"}, {"pkg"}),
      Ready({"pkg", "service"})>>

Gpg == PackagesOnly({"gnupg"})

Locales ==
    <<Call("apt"),
      Add("pkg", "AptPackage", {"locales"}, {"apt"}),
      Add("locale_gen_file", "File", {"/etc/locale.gen"}, {"pkg"}),
      Triggered("locale_gen_cmd", "Command", {}, {"locale_gen_file"}, {"pkg", "locale_gen_file"}),
      Ready({"pkg", "locale_gen_file", "locale_gen_cmd"})>>

Apparmor ==
    <<Call("apt"),
      Add("pkg", "AptPackage", {"apparmor"}, {"apt"}),
      Add("bwrap_profile", "File", {"/etc/apparmor.d/bwrap"}, {"pkg"}),
      Add("service", "Service", {"apparmor.service"}, {"pkg", "bwrap_profile"}),
      Ready({"pkg", "bwrap_profile", "service"})>>

Systemd ==
    <<Call("apt"),
      Add("conf", "File", {"/etc/systemd/journald.conf"}, {"apt"}),
      Triggered("service", "Service", {"systemd-journald.service"}, {"conf"}, {"conf"}),
      Ready({"conf", "service"})>>

\* A plausible bug: the list does not wait for the pin and the key.
RepositoryEarly(pin, legacy, key, list) ==
    <<Call("apt"),
      Add("pin", "File", {pin}, {"apt"}),
      Add("legacy_key", "AbsentFile", {legacy}, {"apt"}),
      Add("key", "Download", {key}, {"apt"}),
      Add("repo", "AptRepo", {list}, {"apt"})>>
\* The start of a bundle with a repository of its own: pin, keys and list.
Repository(pin, legacy, key, list) ==
    <<Call("apt"),
      Add("pin", "File", {pin}, {"apt"}),
      Add("legacy_key", "AbsentFile", {legacy}, {"apt"}),
      Add("key", "Download", {key}, {"apt"}),
      Add("repo", "AptRepo", {list}, {"apt", "pin", "key"})>>

\* A plausible bug: the nvidia-ctk units are put here, which needs docker.
NvidiaWithUnits(c) == <<Call("docker"), Ready({"docker"})>>
Nvidia(c) ==
    IF ~c.nvidia THEN <<Ready({})>>
    ELSE Repository("nvidia.pref", "nvidia-container-toolkit-keyring.gpg",
                    "nvidia-container-toolkit.asc", "nvidia.list")
         \o <<Add("unattended_blacklist", "File", {"51unattended-upgrades-nvidia-blacklist"}, {"apt"}),
              Add("toolkit", "AptPackage", {"nvidia-container-toolkit"},
                  {"apt", "repo", "unattended_blacklist"}),
              Ready({"pin", "legacy_key", "key", "repo", "unattended_blacklist", "toolkit"})>>

Tuxedo(c) ==
    IF ~c.tuxedo THEN <<Ready({})>>
    ELSE Repository("tuxedo.pref", "tuxedo.gpg", "tuxedo.asc", "tuxedo-computers.list")
         \o <<Add("package_ids", "AptPackage",
                  {"tuxedo-archive-keyring", "tuxedo-control-center", "tuxedo-keyboard",
                   "tuxedo-touchpad-switch", "tuxedo-drivers", "linux-tuxedo"}, {"apt", "repo"}),
              Ready({"pin", "legacy_key", "key", "repo", "package_ids"})>>

ApcUps(c) ==
    IF c.container THEN <<Ready({})>>
    ELSE <<Call("apt"),
           Add("udev_pkg", "AptPackage", {"udev"}, {"apt"}),
           Add("rule", "File", {"99-apc-ups.rules"}, {"udev_pkg"}),
           Triggered("udev_reload", "Command", {}, {"rule"}, {"rule"}),
           Ready({"udev_pkg", "rule", "udev_reload"})>>

Tailscale ==
    Repository("tailscale.pref", "tailscale-archive-keyring.gpg", "tailscale.asc", "tailscale.list")
    \o <<Add("pkg", "AptPackage", {"tailscale"}, {"apt", "repo"}),
         Ready({"pin", "legacy_key", "key", "repo", "pkg"})>>

\* A plausible bug: the package does not wait for the bundles called.
IptablesUnordered(c) ==
    <<Call("apt"), Add("pkg", "AptPackage", {"iptables-persistent"}, {}), Ready({"pkg", "apt"})>>
Iptables(c) ==
    IF c.container THEN <<Ready({})>>
    ELSE <<Call("apt"),
           Call("tailscale"),
           Add("pkg", "AptPackage", {"iptables-persistent"}, {"apt", "tailscale"}),
           Add("netfilter_default", "File", {"/etc/default/netfilter-persistent"}, {"pkg"}),
           Add("rules_v4", "File", {"/etc/iptables/rules.v4"}, {"pkg"}),
           Add("rules_v6", "File", {"/etc/iptables/rules.v6"}, {"pkg"}),
           Triggered("service", "Service", {"netfilter-persistent.service"},
                     {"netfilter_default", "rules_v4", "rules_v6"},
                     {"pkg", "netfilter_default", "rules_v4", "rules_v6"}),
           Ready({"pkg", "netfilter_default", "rules_v4", "rules_v6", "service"})>>

\* The units of the throttled raid check, before its timer.
LvmUnits ==
    <<Call("apt"),
      Call("systemd"),
      Add("lvm2", "AptPackage", {"lvm2"}, {"apt"}),
      Add("service_unit", "SystemdUnit", {"lvm-raid-check.service"}, {"lvm2", "systemd"}),
      Add("timer_unit", "SystemdUnit", {"lvm-raid-check.timer"}, {"lvm2", "systemd"})>>
\* A plausible bug: the timer is restarted by a unit it does not wait for.
LvmTimerEarly ==
    LvmUnits \o <<Triggered("timer", "Service", {"lvm-raid-check.timer"},
                            {"service_unit", "timer_unit"}, {"timer_unit"}),
                  Ready({"lvm2", "service_unit", "timer_unit", "timer"})>>
Lvm ==
    LvmUnits \o <<Triggered("timer", "Service", {"lvm-raid-check.timer"},
                            {"service_unit", "timer_unit"}, {"service_unit", "timer_unit"}),
                  Ready({"lvm2", "service_unit", "timer_unit", "timer"})>>

\* The host's /etc/profile.d holds one vte*.sh.
CommonTweaks ==
    LET metas == <<"users", "tzdata", "ca_cert", "chrony", "gpg", "locales", "apparmor",
                   "systemd", "nvidia", "tuxedo", "apc_ups", "iptables", "lvm">>
    IN  <<Call("apt")>> \o [k \in DOMAIN metas |-> Call(metas[k])]
        \o <<Add("drivers", "AptPackage", {"ubuntu-drivers-common"}, {"apt"}),
             Add("sh_link", "Symlink", {"/bin/sh"}, {"apt"}),
             Add("history", "File", {"/etc/profile.d/history.sh"}, {"apt"}),
             Add("vte_absents", "AbsentFile", {"/etc/profile.d/vte.sh"}, {"apt"}),
             Add("command_not_found_absent", "AbsentAptPackage", {"command-not-found"}, {"apt"}),
             Add("sysctl_file", "File", {"/etc/sysctl.d/99-user.conf"}, {"apt"}),
             Triggered("sysctl_reload", "Command", {}, {"sysctl_file"}, {"sysctl_file"}),
             Add("drivers_install", "Command", {}, {"drivers"}),
             Add("kernel_headers", "AptPackage", {"linux-headers"}, {"apt"}),
             Ready({metas[k] : k \in DOMAIN metas}
                   \cup {"drivers", "sh_link", "history", "command_not_found_absent", "sysctl_file",
                         "sysctl_reload", "drivers_install", "kernel_headers", "vte_absents"})>>

-----------------------------------------------------------------------------
(* Tools.                                                                  *)

Pip == PackagesOnly({"python3-pip", "python3-virtualenv"})
Snapd == PackagesOnly({"snapd"})
Nix == PackagesOnly({"nix-bin"})
Nvim == PackagesOnly({"neovim"})
Virtualbox(c) ==
    PackagesOnly({"virtualbox"} \cup Names(c.virtualbox, {"virtualbox-guest-utils", "virtualbox-guest-x11"}))

Flatpak ==
    <<Call("apt"),
      Add("pkg", "AptPackage", {"flatpak"}, {"apt"}),
      Add("flathub", "Command", {}, {"pkg"}),
      Ready({"pkg", "flathub"})>>

Yubico ==
    <<Call("apt"),
      Add("package_ids", "AptPackage", {"yubikey-manager", "libpam-yubico", "libpam-u2f"}, {"apt"}),
      Add("udev_rule", "File", {"70-u2f.rules"}, {}),
      Triggered("udev_reload", "Command", {}, {"udev_rule"}, {"udev_rule"}),
      Ready({"package_ids", "udev_rule", "udev_reload"})>>

CommonTools(c) ==
    <<Call("apt"), Call("pip"), Call("snapd"), Call("flatpak"), Call("yubico"), Call("nix"),
      Add("pkg_ids", "AptPackage",
          {"linux-tools-common", "uidmap"} \cup Names(c.x86, {"syslinux", "libsqlite3-dev", "sqlite3"}),
          {"apt"}),
      Ready({"pkg_ids", "pip", "snapd", "flatpak", "yubico", "nix"})>>

Common == <<Call("common_tweaks"), Call("common_tools"), Ready({"common_tweaks", "common_tools"})>>

-----------------------------------------------------------------------------
(* The development server.                                                 *)

Packages == {"docker_ce", "package_ids"}
CtkUnits == {"nvidia_cdi_generate_unit", "nvidia_ctk_containerd_unit", "nvidia_ctk_crio_unit"}

\* docker-cleanup and podman-cleanup: a oneshot unit, its timer's unit, and
\* the timer.
Cleanup(v, service, timer) ==
    <<Add(v[1], "SystemdUnit", {service}, Packages),
      Add(v[2], "SystemdUnit", {timer}, {v[1]}),
      Add(v[3], "Service", {timer}, {v[2]})>>
DockerCleanup == <<"docker_cleanup_service", "docker_cleanup_timer_unit", "docker_cleanup_timer">>
PodmanCleanup == <<"podman_cleanup_service", "podman_cleanup_timer_unit", "podman_cleanup_timer">>

CtkService(as, on, unit) == Triggered(as, "Service", {on}, {unit, "nvidia"}, {unit, "nvidia"})

\* What docker:ready waits for.
\* A plausible bug: the resources that only exist with nvidia are left out.
DockerAllPlain(c, perUser) ==
    {"key", "pin", "stale_repo", "docker_repo", "daemon_json", "docker_dropin", "docker_service",
     "removed_ids"}
        \cup Packages \cup CtkUnits \cup perUser
        \cup {DockerCleanup[k] : k \in 1 .. 3} \cup {PodmanCleanup[k] : k \in 1 .. 3}
DockerAll(c, perUser) ==
    {"key", "pin", "stale_repo", "docker_repo", "daemon_json", "docker_dropin", "docker_service",
     "removed_ids"}
        \cup Packages \cup CtkUnits \cup perUser
        \cup {DockerCleanup[k] : k \in 1 .. 3} \cup {PodmanCleanup[k] : k \in 1 .. 3}
        \cup Names(c.nvidia, {"cdi_service", "containerd_service", "crio_service", "nvidia_user_unit"})

\* docker.service waits for its drop-in, which acts on the same unit.
Docker(c) ==
    LET home == c.users \in {"root", "user"}
        perUser == Names(home, {"dir_id", "run_args_id"})
    IN  <<Call("apt"), Call("users"), Call("nvidia"),
          Add("key", "Download", {"docker.asc"}, {"apt"}),
          Add("pin", "File", {"docker-ce.pref"}, {"apt"}),
          Add("stale_repo", "AbsentFile", {"docker.list"}, {"apt"}),
          Add("docker_repo", "AptRepo", {"docker-ce.list"}, {"apt", "pin", "key", "stale_repo"}),
          Add("docker_ce", "AptPackage", {"docker-ce"}, {"docker_repo"}),
          Add("package_ids", "AptPackage",
              {"docker-ce-cli", "containerd.io", "docker-buildx-plugin", "docker-compose-plugin",
               "podman", "podman-compose", "crun"}, {"docker_repo"}),
          Add("daemon_json", "File", {"/etc/docker/daemon.json"}, Packages),
          Add("docker_dropin", "SystemdUnit", {"docker.service"}, {"docker_ce"}),
          Add("nvidia_cdi_generate_unit", "SystemdUnit", {"nvidia-cdi-generate.service"}, Packages),
          Add("nvidia_ctk_containerd_unit", "SystemdUnit", {"nvidia-ctk-containerd-config.service"}, Packages),
          Add("nvidia_ctk_crio_unit", "SystemdUnit", {"nvidia-ctk-crio-config.service"}, Packages),
          Triggered("docker_service", "Service", {"docker.service"},
                    {"daemon_json", "docker_dropin"} \cup Names(c.nvidia, {"nvidia"}),
                    {"daemon_json", "docker_dropin", "nvidia"}
                        \cup Names(c.nvidia, {"nvidia_cdi_generate_unit", "nvidia_ctk_containerd_unit"}))>>
        \o Cleanup(DockerCleanup, "docker-cleanup.service", "docker-cleanup.timer")
        \o Cleanup(PodmanCleanup, "podman-cleanup.service", "podman-cleanup.timer")
        \o When(c.nvidia,
            <<Add("nvidia_user_unit", "File", {"user/nvidia-ctk-docker-config.service"}, Packages),
              CtkService("cdi_service", "nvidia-cdi-generate.service", "nvidia_cdi_generate_unit"),
              CtkService("containerd_service", "nvidia-ctk-containerd-config.service",
                         "nvidia_ctk_containerd_unit"),
              CtkService("crio_service", "nvidia-ctk-crio-config.service", "nvidia_ctk_crio_unit")>>)
        \o <<Add("removed_ids", "AbsentAptPackage",
                 {"docker.io", "docker-compose", "docker-compose-v2", "docker-doc"}, {"apt"})>>
        \o When(home,
            <<Add("dir_id", "Directory", {"~/.config/docker-user"}, {"docker_ce", "users"}),
              Add("run_args_id", "File", {"~/.config/docker-user/run-args"}, {"dir_id"})>>)
        \o <<Ready(DockerAll(c, perUser))>>

Libvirtd ==
    <<Call("apt"),
      Add("pkg_ids", "AptPackage",
          {"qemu-system", "qemu-system-arm", "qemu-efi-aarch64", "qemu-utils", "libvirt-daemon",
           "libvirt-daemon-system", "uvtool"}, {"apt"}),
      Add("security_driver", "LineInFile", {"/etc/libvirt/qemu.conf"}, {"pkg_ids"}),
      Triggered("service", "Service", {"libvirtd.service"}, {"security_driver"},
                {"pkg_ids", "security_driver"}),
      Ready({"pkg_ids", "security_driver", "service"})>>

Et ==
    Repository("ppa-et.pref", "ppa-et.gpg", "ppa-et.asc", "ppa-et.list")
    \o <<Add("pkg", "AptPackage", {"et"}, {"apt", "repo"}),
         Add("cfg", "File", {"/etc/et.cfg"}, {"pkg"}),
         Triggered("service", "Service", {"et.service"}, {"cfg"}, {"pkg", "cfg"}),
         Ready({"pin", "legacy_key", "key", "repo", "pkg", "cfg", "service"})>>

\* An exporter that podman runs.
\* A plausible bug: the service does not wait for its unit file.
ExporterUnordered(unit) ==
    <<Call("docker"),
      Add("unit", "SystemdUnit", {unit}, {"docker"}),
      Add("service", "Service", {unit}, {"docker"}),
      Ready({"unit", "service"})>>
Exporter(unit) ==
    <<Call("docker"),
      Add("unit", "SystemdUnit", {unit}, {"docker"}),
      Triggered("service", "Service", {unit}, {"unit"}, {"unit"}),
      Ready({"unit", "service"})>>

NodeExporter == Exporter("node_exporter.service")
SmartctlExporter(c) == IF c.x86 THEN Exporter("smartctl_exporter.service") ELSE <<Ready({})>>

UbuntuDevserver ==
    <<Call("docker"), Call("libvirtd"), Call("et"), Call("nvim"), Call("node_exporter"),
      Call("smartctl_exporter"),
      Ready({"docker", "libvirtd", "et", "nvim", "node_exporter", "smartctl_exporter"})>>

Devserver == <<Call("ubuntu_devserver"), Ready({"ubuntu_devserver"})>>

CommonDevserver == <<Call("common"), Call("devserver"), Ready({"common", "devserver"})>>

-----------------------------------------------------------------------------
(* The methods of Context: the build() function behind each name.          *)

BuildFunctions(c) ==
    [apc_ups |-> ApcUps(c), apparmor |-> Apparmor, apt |-> Apt(c), ca_cert |-> CaCert,
     chrony |-> Chrony, common |-> Common, common_devserver |-> CommonDevserver,
     common_tools |-> CommonTools(c), common_tweaks |-> CommonTweaks, devserver |-> Devserver,
     docker |-> Docker(c), et |-> Et, flatpak |-> Flatpak, gpg |-> Gpg, iptables |-> Iptables(c),
     libvirtd |-> Libvirtd, locales |-> Locales, lvm |-> Lvm, nix |-> Nix,
     node_exporter |-> NodeExporter, nvidia |-> Nvidia(c), nvim |-> Nvim, pip |-> Pip,
     smartctl_exporter |-> SmartctlExporter(c), snapd |-> Snapd, systemd |-> Systemd,
     tailscale |-> Tailscale, tuxedo |-> Tuxedo(c), tzdata |-> Tzdata,
     ubuntu_devserver |-> UbuntuDevserver, users |-> Users(c), virtualbox |-> Virtualbox(c),
     yubico |-> Yubico]

BundleName == DOMAIN BuildFunctions([nvidia |-> FALSE, tuxedo |-> FALSE, ppa |-> FALSE,
                                     users |-> "none", container |-> FALSE, x86 |-> FALSE,
                                     virtualbox |-> FALSE])

=============================================================================
