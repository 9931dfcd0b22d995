---------------------------- MODULE NetnsScripts ----------------------------
(***************************************************************************)
(* The network namespace scripts of src/linux/netns: "multi"               *)
(* (netns_multi.sh), "single" (netns.sh) and "veth" (netns_veth.sh).  All  *)
(* run under set -e: a command that fails ends the script where it is,     *)
(* unless the script says otherwise.  A run of a script is the sequence of *)
(* its commands that change something; runs for different namespaces       *)
(* overlap, runs for one namespace do not.                                 *)
(*                                                                         *)
(* A network is the number N of 10.200.N.0/30, and 0 is none.              *)
(***************************************************************************)
EXTENDS Naturals, Sequences, FiniteSets

CONSTANTS Names,                    \* namespaces
          MaxRuns, MaxFaults        \* bounds: runs of scripts, failing commands

VARIABLES
    script,     \* which of the three is installed
    ns,         \* the namespaces that exist
    net,        \* per namespace: the network of its veth pair
    route,      \* per network: the namespace that the host's route leads to
    nat,        \* per network: the number of MASQUERADE rules
    phys,       \* where the physical interface is: a namespace or "host"
    tmp,        \* namespaces whose VPN configuration lies in /run
    vpn,        \* namespaces with a VPN up
    users,      \* per namespace: what its processes do on SIGTERM
    run,        \* per namespace: the run under way
    left,       \* history, per namespace: the command at which the last run ended early
    reused,     \* history: a down got to deleting its namespace, or runs overlapped
    stale,      \* history, per network: rules whose deletion failed unnoticed
    stray,      \* history: namespaces whose configuration a failing command left
    nruns, faults

kernel == <<ns, net, route, nat, phys, vpn>>
faultVars == <<stale, stray, faults>>
vars == <<script, kernel, tmp, users, run, left, reused, nruns, faultVars>>

Networks == 1 .. Cardinality(Names)
None == "none"
NoRun == [op |-> None]

(* "host" stands for no namespace, as None does.                           *)
ASSUME NetnsAssumption ==
    /\ MaxRuns \in Nat /\ MaxFaults \in Nat
    /\ IsFiniteSet(Names) /\ "host" \notin Names /\ None \notin Names

----------------------------------------------------------------------------
(* The scripts.                                                            *)

vpn_start == <<"vpn_config", "tmp", "wg_up">>

(* Every WireGuard interface down, and the directory of its configuration  *)
(* removed.                                                                *)
vpn_stop == <<"vpn_stop", "rmtmp">>

net_veth_create == <<"veth", "route", "nat", "resolve">>

(* DEF_GW is not set: with a VPN the route command gets an empty gateway.  *)
net_physical(wg) ==
    <<"iface", "resolve", "move">> \o (IF wg THEN <<"empty_gateway">> ELSE <<>>)

up_multi(wg, iface) ==
    <<"absent", "count", "add">>
        \o (IF iface THEN net_physical(wg) ELSE net_veth_create)
        \o <<"dns">> \o (IF wg THEN vpn_start ELSE <<>>)

up_single(wg) ==
    <<"absent", "iface", "add", "move", "dns", "resolve">>
        \o (IF wg THEN vpn_start ELSE <<"default_route">>)

netns_create == <<"add", "veth", "resolve", "route", "nat", "dns">>

up_veth(wg) ==
    <<"absent", "count">> \o netns_create
        \o (IF wg THEN <<"tmp", "wg_up_kept", "rmtmp">> ELSE <<>>)

(* ns_kill_processes of netns.sh ends in "return 0" ...                    *)
kill_single == <<"pids", "kill", "pids", "kill">>

(* ... that of netns_multi.sh in the test for survivors, which is then its *)
(* result.                                                                 *)
kill_multi == <<"pids", "kill", "pids", "kill_or_fail">>

(* Mutant of net_veth_destroy: the rule is forgotten.                      *)
net_veth_destroy_no_nat == <<"route_del">>
net_veth_destroy == <<"route_del", "nat_del">>

(* Mutant of down_multi: the rule is deleted before the processes are      *)
(* killed.                                                                 *)
down_multi_rule_first ==
    <<"present", "detect">> \o vpn_stop \o <<"nat_del">> \o kill_multi
        \o <<"route_del", "ns_del">>

down_multi ==
    <<"present", "detect">> \o vpn_stop \o kill_multi
        \o net_veth_destroy \o <<"ns_del">>

down_single == <<"present">> \o vpn_stop \o kill_single \o <<"ns_del">>

netns_destroy == <<"vpn_stop">> \o kill_single \o <<"route_del", "nat_del", "ns_del">>

down_veth == <<"present", "detect">> \o netns_destroy

(* The commands of a run of script s.                                      *)
Program(s, r) ==
    CASE s = "multi" /\ r.op = "up" -> up_multi(r.wg, r.iface)
      [] s = "single" /\ r.op = "up" -> up_single(r.wg)
      [] s = "veth" /\ r.op = "up" -> up_veth(r.wg)
      [] s = "multi" /\ r.op = "down" -> down_multi
      [] s = "single" /\ r.op = "down" -> down_single
      [] s = "veth" /\ r.op = "down" -> down_veth

Commands(r) == Program(script, r)

----------------------------------------------------------------------------
TypeOK ==
    /\ script \in {"multi", "single", "veth"}
    /\ ns \subseteq Names /\ tmp \subseteq Names /\ vpn \subseteq ns
    /\ net \in [Names -> {0} \union Networks]
    /\ route \in [Networks -> Names \union {None}]
    /\ nat \in [Networks -> Nat] /\ stale \in [Networks -> Nat] /\ stray \subseteq Names
    /\ phys \in ns \union {"host"}
    /\ users \in [Names -> {None, "polite", "stubborn"}]
    /\ \A n \in Names : /\ run[n] # NoRun => run[n].pc \in 1 .. Len(Commands(run[n]))
                        /\ n \notin ns => net[n] = 0 /\ users[n] = None
    /\ nruns \in 0 .. MaxRuns /\ faults \in 0 .. MaxFaults

Init ==
    /\ script \in {"multi", "single", "veth"}
    /\ ns = {} /\ tmp = {} /\ vpn = {}
    /\ net = [n \in Names |-> 0]
    /\ route = [i \in Networks |-> None]
    /\ nat = [i \in Networks |-> 0]
    /\ phys = "host"
    /\ users = [n \in Names |-> None]
    /\ run = [n \in Names |-> NoRun]
    /\ left = [n \in Names |-> None]
    /\ stale = [i \in Networks |-> 0] /\ stray = {}
    /\ reused = FALSE /\ nruns = 0 /\ faults = 0

(* netns.sh has one namespace, which no other instance shares.             *)
Start(n) ==
    /\ run[n] = NoRun /\ nruns < MaxRuns
    /\ script = "single" => \A m \in Names \ {n} : m \notin ns /\ run[m] = NoRun
    /\ \E op \in {"up", "down"}, wg, iface \in BOOLEAN :
          /\ iface => script = "multi" /\ op = "up"
          /\ wg => op = "up"
          /\ run' = [run EXCEPT ![n] = [op |-> op, wg |-> wg, iface |-> iface, pc |-> 1,
                                        id |-> 0, pids |-> FALSE]]
    /\ nruns' = nruns + 1
    /\ reused' = (reused \/ \E m \in Names : run[m] # NoRun)
    /\ UNCHANGED <<script, kernel, tmp, users, left, faultVars>>

(* A user's program in a namespace that is not being taken down, and its   *)
(* end at any time.                                                        *)
UserStarts(n) ==
    /\ n \in ns /\ users[n] = None /\ run[n] = NoRun
    /\ \E u \in {"polite", "stubborn"} : users' = [users EXCEPT ![n] = u]
    /\ UNCHANGED <<script, kernel, tmp, run, left, reused, nruns, faultVars>>

UserEnds(n) ==
    /\ users[n] # None /\ users' = [users EXCEPT ![n] = None]
    /\ UNCHANGED <<script, kernel, tmp, run, left, reused, nruns, faultVars>>

Cmd(n) == Commands(run[n])[run[n].pc]

Go(n, r) ==
    IF run[n].pc = Len(Commands(run[n]))
    THEN /\ run' = [run EXCEPT ![n] = NoRun]
         /\ left' = [left EXCEPT ![n] = None]
    ELSE /\ run' = [run EXCEPT ![n] = [r EXCEPT !.pc = @ + 1]]
         /\ UNCHANGED left

Abort(n) ==
    /\ run' = [run EXCEPT ![n] = NoRun]
    /\ left' = [left EXCEPT ![n] = Cmd(n)]

----------------------------------------------------------------------------
(* The commands.                                                           *)

(* ns_require_absent, ns_require_present and "ip link show iface" end the  *)
(* run when they do not hold; vpn_resolve_servers, ns_dns_setup and        *)
(* vpn_config change nothing that is modelled.                             *)
Holds(n) ==
    CASE Cmd(n) = "absent" -> n \notin ns
      [] Cmd(n) = "present" -> n \in ns
      [] Cmd(n) \in {"iface", "move"} -> phys = "host"
      [] OTHER -> TRUE

Check(n) ==
    /\ run[n] # NoRun
    /\ Cmd(n) \in {"absent", "present", "iface", "resolve", "dns", "vpn_config", "default_route"}
    /\ IF Holds(n) THEN Go(n, run[n]) ELSE Abort(n)
    /\ UNCHANGED <<script, kernel, tmp, users, reused, nruns, faultVars>>

(* Mutant of network_id: every namespace gets the same number.             *)
network_id_constant(n) == 1

(* network_id: the number of namespaces there are, plus one.               *)
network_id(n) == Cardinality(ns) + 1

(* What is only read: the network number, the veth address and the pids.   *)
Read(n) ==
    /\ run[n] # NoRun
    /\ \/ Cmd(n) = "count" /\ Go(n, [run[n] EXCEPT !.id = network_id(n)])
       \/ Cmd(n) = "detect" /\ Go(n, [run[n] EXCEPT !.id = IF phys = n THEN 0 ELSE net[n]])
       \/ Cmd(n) = "pids" /\ Go(n, [run[n] EXCEPT !.pids = (users[n] # None)])
    /\ UNCHANGED <<script, kernel, tmp, users, reused, nruns, faultVars>>

(* up: the namespace, its network, the host's route and rule, the VPN.     *)
(* The commands that make and move the veth pair are one.                  *)
(* Every address of the host side brings a route of its own when there is  *)
(* none; "ip route replace" takes the one there is.                        *)
Create(n) ==
    /\ run[n] # NoRun /\ Cmd(n) \in {"add", "veth", "route", "nat", "move", "wg_up", "wg_up_kept"}
    /\ LET id == run[n].id  c == Cmd(n)
       IN  /\ ns' = IF c = "add" THEN ns \union {n} ELSE ns
           /\ net' = IF c = "veth" THEN [net EXCEPT ![n] = id] ELSE net
           /\ route' = IF c = "route" \/ (c = "veth" /\ route[id] = None)
                       THEN [route EXCEPT ![id] = n] ELSE route
           /\ nat' = IF c = "nat" THEN [nat EXCEPT ![id] = @ + 1] ELSE nat
           /\ phys' = IF c = "move" /\ Holds(n) THEN n ELSE phys
           /\ vpn' = IF c \in {"wg_up", "wg_up_kept"} THEN vpn \union {n} ELSE vpn
    /\ IF Holds(n) THEN Go(n, run[n]) ELSE Abort(n)
    /\ UNCHANGED <<script, tmp, users, reused, nruns, faultVars>>

(* The configuration without its DNS lines, in a file of its own.          *)
Config(n) ==
    /\ run[n] # NoRun
    /\ \/ Cmd(n) = "tmp" /\ tmp' = tmp \union {n}
       \/ Cmd(n) = "rmtmp" /\ tmp' = tmp \ {n}
    /\ stray' = stray \ {n}
    /\ Go(n, run[n])
    /\ UNCHANGED <<script, kernel, users, reused, nruns, stale, faults>>

(* kill sends SIGTERM to the pids read before, and SIGKILL the second      *)
(* time; when all of them have ended meanwhile it fails.  No pids is no    *)
(* error, but where the test is the function's result.                     *)
Kill(n) ==
    /\ run[n] # NoRun /\ Cmd(n) \in {"kill", "kill_or_fail"}
    /\ LET second == run[n].pc > 4 /\ Commands(run[n])[run[n].pc - 2] = "kill"
       IN  IF run[n].pids
           THEN /\ IF users[n] = None THEN Abort(n) ELSE Go(n, run[n])
                /\ users' = [users EXCEPT ![n] = IF @ = "stubborn" /\ ~second THEN @ ELSE None]
           ELSE /\ IF Cmd(n) = "kill_or_fail" THEN Abort(n) ELSE Go(n, run[n])
                /\ UNCHANGED users
    /\ UNCHANGED <<script, kernel, tmp, reused, nruns, faultVars>>

(* empty_gateway always fails.                                             *)
EmptyGateway(n) ==
    /\ run[n] # NoRun /\ Cmd(n) = "empty_gateway"
    /\ Abort(n)
    /\ UNCHANGED <<script, kernel, tmp, users, reused, nruns, faultVars>>

(* The route of network id when namespace n no longer has it: another      *)
(* namespace with the same network has one of its own.                     *)
RouteWithout(n, id) ==
    LET others == {m \in Names \ {n} : net[m] = id}
    IN  IF route[id] # n THEN route[id]
        ELSE IF others = {} THEN None ELSE CHOOSE m \in others : TRUE

(* down.  The rule is deleted by network, the route by network and device. *)
(* Deleting the namespace takes the veth pair with its routes and the VPN  *)
(* along and returns the physical interface.                               *)
Destroy(n) ==
    /\ run[n] # NoRun /\ Cmd(n) \in {"vpn_stop", "route_del", "nat_del", "ns_del"}
    /\ LET id == run[n].id  c == Cmd(n)
       IN  /\ vpn' = IF c \in {"vpn_stop", "ns_del"} THEN vpn \ {n} ELSE vpn
           /\ route' = CASE c = "route_del" /\ id # 0 -> [route EXCEPT ![id] = RouteWithout(n, id)]
                         [] c = "ns_del" -> [i \in Networks |-> RouteWithout(n, i)]
                         [] OTHER -> route
           /\ nat' = IF c = "nat_del" /\ id # 0 /\ nat[id] > 0
                     THEN [nat EXCEPT ![id] = @ - 1] ELSE nat
           /\ ns' = IF c = "ns_del" THEN ns \ {n} ELSE ns
           /\ net' = IF c = "ns_del" THEN [net EXCEPT ![n] = 0] ELSE net
           /\ phys' = IF c = "ns_del" /\ phys = n THEN "host" ELSE phys
           /\ reused' = (reused \/ c = "ns_del")
    /\ Go(n, run[n])
    /\ UNCHANGED <<script, tmp, users, nruns, faultVars>>

(* vpn_start removes the file when the VPN does not come up; netns_veth.sh *)
(* means to, but set -e ends it first.  mkdir leaves no file when it       *)
(* fails, sed leaves the one it was to write, and rm the one that is there.*)
Leaves(n) ==
    CASE Cmd(n) = "wg_up" -> tmp' = tmp \ {n} /\ UNCHANGED stray
      [] Cmd(n) = "tmp" ->
            \/ UNCHANGED <<tmp, stray>>
            \/ tmp' = tmp \union {n} /\ stray' = stray \union {n}
      [] Cmd(n) \in {"rmtmp", "wg_up_kept"} -> stray' = stray \union {n} /\ UNCHANGED tmp
      [] OTHER -> UNCHANGED <<tmp, stray>>

(* A command fails and ends the run.                                       *)
Fault(n) ==
    /\ run[n] # NoRun /\ faults < MaxFaults
    /\ \/ Cmd(n) \in {"add", "veth", "route", "nat", "move", "resolve", "dns", "vpn_config", "tmp",
                      "rmtmp", "default_route", "wg_up", "wg_up_kept", "pids"}
       \/ script = "single" /\ Cmd(n) = "ns_del"
    /\ faults' = faults + 1
    /\ Leaves(n)
    /\ Abort(n)
    /\ UNCHANGED <<script, kernel, users, reused, nruns, stale>>

(* A command with "|| true", or in a pipe before awk, fails and the run    *)
(* goes on: the VPN, the route, the rule or the namespace is still there,  *)
(* or the network was not read and nothing of it will be deleted.          *)
FailsUnnoticed(n) ==
    /\ run[n] # NoRun /\ faults < MaxFaults
    /\ \/ Cmd(n) = "vpn_stop"
       \/ script # "single" /\ Cmd(n) \in {"detect", "route_del", "nat_del", "ns_del"}
    /\ faults' = faults + 1
    /\ LET kept == CASE Cmd(n) = "detect" -> net[n]
                      [] Cmd(n) = "nat_del" -> run[n].id
                      [] OTHER -> 0
       IN  stale' = [i \in Networks |-> IF i = kept THEN stale[i] + 1 ELSE stale[i]]
    /\ reused' = (reused \/ Cmd(n) = "ns_del")
    /\ Go(n, [run[n] EXCEPT !.id = IF Cmd(n) = "detect" THEN 0 ELSE @])
    /\ UNCHANGED <<script, kernel, tmp, users, nruns, stray>>

Next ==
    \E n \in Names :
        Start(n) \/ UserStarts(n) \/ UserEnds(n) \/ Check(n) \/ Read(n) \/ Create(n)
            \/ Config(n) \/ Kill(n) \/ EmptyGateway(n) \/ Destroy(n) \/ Fault(n)
            \/ FailsUnnoticed(n)

Spec == Init /\ [][Next]_vars

----------------------------------------------------------------------------
(* Properties.                                                             *)

(* No MASQUERADE rule outlives the namespaces of its network, in whatever  *)
(* order namespaces went up and down and wherever a run ended early: only  *)
(* an iptables -D, or the reading of the address before it, that failed    *)
(* behind "|| true" or a pipe leaves a rule, and leaves one.               *)
RulesHaveNamespaces ==
    \A i \in Networks : nat[i] <= Cardinality({n \in Names : net[n] = i}) + stale[i]

(* As long as no namespace was taken down and no runs overlapped, every    *)
(* namespace that is not being taken down has a network of its own and the *)
(* host's route to it: the count of namespaces is a fresh number.          *)
OwnNetwork ==
    ~reused => \A n \in Names : net[n] # 0 /\ run[n].op # "down" =>
        /\ route[net[n]] = n
        /\ \A m \in Names \ {n} : net[m] # net[n]

(* A VPN configuration is in /run only while a script works on its         *)
(* namespace, while its VPN is up, or where the sed that writes it, the rm *)
(* that removes it or the VPN start of netns_veth.sh failed, until the     *)
(* next one is written or removed there.                                   *)
NoStrayConfig ==
    \A n \in tmp : run[n] # NoRun \/ n \in vpn \/ n \in stray

(* What the scripts leave on the host, whatever failed: no rule without    *)
(* its namespace and no configuration without its VPN, but where deleting  *)
(* it failed.                                                              *)
LeftoverInv == TypeOK /\ RulesHaveNamespaces /\ NoStrayConfig

(* As long as no command failed, a namespace that no run works on has a    *)
(* MASQUERADE rule for its network, although namespaces may share a        *)
(* network and a down deletes a rule by network: a down that stops early,  *)
(* or takes down the other namespace, never deletes this one's rule.       *)
NamespacesKeepRules ==
    faults = 0 => \A i \in Networks :
        Cardinality({n \in Names : net[n] = i /\ run[n] = NoRun}) <= nat[i]

(* A down that got as far as killing the processes removes the namespace.  *)
(* (That of netns_multi.sh stops when no process survived SIGTERM.)        *)
DownDestroys == \A n \in Names : left[n] = "kill_or_fail" => n \notin ns
=============================================================================
