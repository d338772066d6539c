# A TLA+ model of openstack-devops

This directory holds a verification development for the Chef repository
"openstack-devops": the scripts, cookbooks, resource agents and tools that install
a highly available OpenStack (Icehouse) cluster and keep it running. It models the parts
whose correctness depends on order, concurrency and failure, checks them with TLC
on small instances, and proves the most important results with TLAPS for every
instance.

Paths below are relative to the repository root, which is `src/` in `PROJECT.json`.

## 1. Inventory of the system

| Component | State it keeps | Operations | What is hard |
|---|---|---|---|
| `scripts/install_openstack.py` | table of `knife bootstrap` processes of the current wave; wave index; files and Chef server objects | parse the XML, generate/upload, start a wave, poll, exit | concurrent processes, fail-fast exit leaves orphans, reruns |
| `cookbooks/openstack-network/files/default/neutron-ha-tool.py` | none of its own; works on Neutron's router-to-agent bindings from stale lists | check, migrate, rebalance, replicate DHCP | agents flapping under it, partial failure, crash between two calls, two instances |
| `cookbooks/pacemaker` providers (`agent`, `vip`, `cluster`) and `cookbooks/openstack-ha/recipes/pacemaker-*` | the Pacemaker CIB shared by all nodes | check-then-act `pcs` commands | concurrent and repeated converges, crash between two commands |
| OCF agents `cookbooks/openstack-ha/files/default/openstack/*` | pid file, daemon process | start, stop, monitor | pid files against real processes, operations cut off by the LRM's timeout |
| qpidd OCF agent | broker role, CRM master scores | start, stop, monitor, promote, demote | two active brokers, promotion while joining |
| mysql2 OCF agent and `cookbooks/galera` | mysqld, data directory, install flag | first start, join, start, stop | crash before the flag is written, bootstrap of a second cluster |
| `cookbooks/openstack-identity` `register` provider | Keystone services, endpoints, tenants, users, roles | list, then create | three nodes do it at once, every error swallowed |
| `cookbooks/openstack-object-storage` providers | ring builder files, disks, mounts | add/remove devices, rebalance | decisions from a search that may be stale |
| `cookbooks/openstack-image` `image` provider | Glance images | show, then create | check-then-act, long uploads in three parts |
| `openstack-compute::nova-setup` with `add_floaters.py` | Neutron's public network and its subnet | list, then create, twice | check-then-act on several hosts, swallowed errors |
| monitoring plug-ins (`nova_plugin.py`, `glance_plugin.py`, `swift_stats.py`, `cluster_stats.py`) | none | read counters | none: they only read |
| `cookbooks/openstack-common` libraries | none | search with retry, URI and table parsing, database creation | retry until a result that may never come |
| keepalived and DB2 HADR (`keepalived`, `db2`, `openstack-ha/recipes/backup`) | virtual IP owner, DB2 role | VRRP notify, takeover | split brain after takeover by force |
| everything else under `cookbooks/` (apache2, apt, yum, mysql, postgresql, rabbitmq, runit, python with the archive in get-pip.py, ...) | package and file state | ordinary Chef resources | third-party community cookbooks, declarative |

How they interact: the operator runs `install_openstack.py` on the Chef server. It
starts one `knife bootstrap` per host and wave; each converges the roles of that wave
on its host. Converges of one wave run at the same time and meet in shared state: the
Pacemaker CIB, Keystone's database, Glance, the Galera cluster, the Swift ring. After the
installation Pacemaker drives the OCF agents, and cron drives `neutron-ha-tool.py`.

What makes each component correct, in one line:

* bootstrap: waves are barriers; "Install finished" is true; a failure is noticed; two
  converges on one host never overlap unless a run was broken off.
* XML to waves and environment: the waves are the sets of the file, restricted to hosts that
  list a role; the environment is the template with its keys replaced, each word by itself.
* phases: roles and environment of a run come from one version of the file, orphans or not.
* L3 failover: no router is lost but by a failed call or a crash; dead agents end up empty.
* L3 rebalance: paired agents end level, no router moves from an emptier to a fuller agent.
* DHCP replication: every listed network that still exists is on every agent.
* Pacemaker providers: a run that ends has configured everything once, whatever was left by
  the runs before it; two addresses are two virtual IPs.
* Keystone registration: a clean run leaves everything registered although errors are
  swallowed; the state settles; duplicates come from concurrency only.
* OCF agents: one daemon at a time, whose number is kept; "stopped" and "not running" are true.
* Galera: one cluster is formed, its databases stay on some disk, and the installation settles.
* public network and image: made once; a run that ends well has them, and not another network's; a run that
  fails has a reason.
* Swift: no device of a live host leaves the ring; changes and rebalance go together.

`PROJECT.json` lists under "hazards" what can go wrong in this code that a test would
hardly reach, line by line, with the property that covers it or the reason why none does.

## 2. The modules

| Module | Models | Used by |
|---|---|---|
| `WaveOrder` | what `-B` promises, abstractly | refined by `Bootstrap` |
| `Bootstrap` | `Chef.bootstrap` of `install_openstack.py` | `InstallRun`, `InstallProofs` |
| `RoleSequence` | `XMLParser` and `get_commands`: from the file to the waves | `MCXMLParser`, `InstallProofs` |
| `EnvironmentText` | `get_environment_content` of `XMLParser` | `MCXMLParser`, `InstallProofs` |
| `InstallRun` | `run()` composed with `Bootstrap`: phases, repeated runs, hosts that fetch the environment | `MCInstallRun`, `InstallProofs` |
| `NeutronServer` | Neutron's bindings and answers (external) | `L3Migrate`, `L3Rebalance` |
| `L3Migrate` | `l3_agent_migrate`, `migrate_router` | `MCL3Migrate`, `L3MigrateProofs` |
| `L3Rebalance` | `l3_agent_rebalance`, `migrate_router` | `MCL3Rebalance`, `NeutronToolProofs` |
| `DhcpReplicate` | `replicate_dhcp` | its own run, `NeutronToolProofs` |
| `PacemakerAgent` | `agent` and `vip` providers, the QPID recipe | `MCPacemakerAgent`, `PacemakerAgentProofs` |
| `IdentityRegister` | `register` provider and `registration` recipe | `MCIdentityRegister`, `IdentityRegisterProofs` |
| `OcfAgent` | start, stop, status and monitor of the OCF agents of the services | its own run, `OcfAgentProofs` |
| `GaleraServer` | mysqld with wsrep: clusters, quorum, data directories (external) | `MysqlHa` |
| `MysqlHa` | recipe `galera::server`, start and stop of the `mysql2` agent | its own run, `MysqlHaProofs` |
| `SetupWave` | `add_floaters.py`, its resource in `nova-setup`, the `image` provider | `MCSetupWave`, `SetupWaveProofs` |

The `MC` modules only give constants and symmetry sets; `MCXMLParser` says which strings a small
XML file and template are made of, and takes the roles and the attributes of a file in turn. Definitions marked
"mutant" are variations of the code that some property must reject; no specification uses
them.

### Bootstrap and WaveOrder

`pc` is where the script stands: outside `bootstrap`, in the loop that starts processes
(`launch`), or in the loop that polls them (`poll`). `unlaunched` is what the first inner
loop has not reached, `dict` is the dictionary of the code (hosts whose process it still
holds), `sweep` what the current pass over `dict.items()` has not polled. `process` is the
world outside: run, wave, host to the state of that `knife bootstrap`. It outlives the
script: `PollFailure` is `exit(1)` in the middle of a pass, `KillScript` a script that dies,
and in both cases the processes run on while `StartScript` may begin the next run. Starting a
process and polling one are separate steps, and a `KnifeExit` may fall between any two.
`WaveOrder` has no `dict`, no passes and no polling: a wave is complete when all its
hosts are, and a run aborts only if one of them failed. The refinement maps `completed` to
`wave - 1` and the rest to itself.

### RoleSequence, EnvironmentText

Both are functions of a file that the script reads once: a behaviour is one file that stays as it
is, and each loop of the code is a recursive function whose value at i is what the loop has after i
turns. A comma separated string is the sequence of its stripped items, with `Blank` for an empty
one, because blanks and repetitions are all that the parsing can get wrong. `AddRole` is the
body of the two inner loops of `get_node_roles_sequence`, `AppendWave` its `if nodes_dict`.
`WavesAreTheSets` does not compute the waves again: it says of the outcome which sets there are waves
for (`UsedSets`), which hosts each has (`Needing`), which roles each host gets (`Needs`), and that
all of these come in the order in which the strings mention them first (`ListsInOrder`). The name of a set has
the texts of all elements of that name, and `GetValueOfElement` reads the first (`install_openstack.py:59`):
`icehouse.ha.xml:128-129` has two elements `set3`, and its `os-identity` is in no wave. That is what the
property says, in terms of the first element; nothing in the repository says otherwise of such a file. A set without
element, or an element without text, is an exception before any wave is made (`Parses`); of two `<node>`
elements of one host the last counts.

In `EnvironmentText` a text is a sequence of parts. The parts that are in no key are its marks, and a template
is cut before each of them, so that its words are what stands between two marks, in quotes or not
(`icehouse.ha.json:27` has a key outside quotes). `Replace` is Python's `str.replace`: `Read` takes one more
part, and `GetEnvironmentContent` applies `Replace` key by key in any order, since `items()` of a dictionary
promises none. Keys may be parts of other keys, of values and of words. The property says for every order that
each word is replaced by itself, and that a word becomes its value, or stays if it is no key, unless another key
is met in it, or in its value once that is there (`LeftAlone`). In all pairs of XML file and template under
`scripts/`, with quotes, white space, commas, colons and brackets as marks, every word is left alone in every
order: no key is a part of a value or of a word other than itself. Nothing in the code checks it. `get_key_pair`
is not modelled further than its attributes: given an `<environment>` with a child node it calls itself on the
same element (`install_openstack.py:71`), but no shipped file has one.

### InstallRun

`run()` and `Chef.bootstrap` in one: `InstallRun` extends `Bootstrap`, whose script is the phase
`-B`. One number stands for the text of the environment: the version of the XML file it came
from; the operator edits that file at any time. `Phases` is the order of the `if`s in `run()`.
An upload that knife refuses is not noticed (`os.system`), and is a choice of
`UploadEnvironment`. `FetchEnvironment` is a `chef-client`, started by some `knife bootstrap`,
that reads the environment from the Chef server: any number of times, as long as its process runs,
and so also for an orphan of an older run. `made`, `careful` and `foreign` are history variables: the
version a bootstrap's commands were made from, the bootstraps that followed a good `-E -U` in the same
run, and those of which some host fetched another version. The option `-a` is accepted and selects
nothing, against its help text; there is no property for it, since it would only restate that the
variable is never read. A run whose options are refused, or whose file has no SSH key and password,
ends before any effect and is not a step. The waves are the same in all versions of the file.

### NeutronServer, L3Migrate, L3Rebalance

`NeutronServer` is external and states what the tool is written against: a router has at most
one agent, a remove from a wrong agent and an add of a hosted router raise, a call may report
success without effect, or raise after its effect (`migrate_router` says the former in a
comment). Which agents send heartbeats changes at any time. `L3Migrate` has one copy of the
variables of `l3_agent_migrate` per instance, since cron starts the tool on several controllers.
Remove and add are separate steps with the list call after each folded in, for it is only
logged but may raise. `dropped` is a history variable: routers that a failed call or a crash
left without agent. `RecoveryIsNoticed` is about agents that only come back: the wait compares two
counts (`:277`), so one agent that comes back while another goes down is not noticed.
`StepsAreBounded` is termination without fairness: `Rank` is a number that every step of an instance
lowers, so a run needs no more steps than its first snapshot allows, whatever the others do.
`L3Rebalance` follows one run; it keeps the loop as Python 2 runs it, where
`num_agents-1/2` is `num_agents`, so that the pairs past the middle are met again with their
roles exchanged, and keeps the index that `continue` does not advance.

### DhcpReplicate

The networks are listed once, the networks of each agent when the agent's turn comes; adding
is one step per network. Networks are created and deleted at any time, an id is never reused.

### PacemakerAgent

The state is the CIB as `pcs resource` shows it. An `execute` resource of Chef is one action:
its guard and its command. `Following` is the order of the resources in the provider and, for
the master QPID, in its recipe. `Interrupt` is a command that fails or a host that dies;
the run ends there and the next starts from the top. A resource that exists without its clone
("plain") is listed under another name than the guards of `agent.rb` look for.
`AddressShown` is the guard of the `vip` provider: it greps for the address, so that 10.0.1.12 is
found once 10.0.1.121 exists. `Within` says which addresses are such parts of others. A plain virtual
IP is then left out in silence; a master's constraints on it are refused by pcs (external) in every
run (`Shadowed`). `EndedMeansConfigured`, `StopsAreForGood` and `OnlyHalfClonedBlocks` name exactly these
exceptions. In the shipped run lists the only master comes before the other virtual IP, so that TLC meets a
virtual IP left out in silence and no shadowed master; the theorem is about either.

### IdentityRegister

`step` is the resource of the recipe a host is at, `seen` the answers of the look-ups it has
made for it. A look-up and a creation are separate steps, so hosts interleave between them.
A look-up that finds nothing answers 0, and each action of the provider decides from
`Required` and `MayCreate`: `Required` holds, for `grant_role`, only the tenant, because the
two tests after it look at `tenant_uuid` again. An error leaves the resource and the recipe goes
on. The EC2 credentials are saved in the node by a call of its own, which may fail as any other (`SaveNode`).
`clean`, `faulted`, `granted`, `settled` and `raced` are history variables.

### OcfAgent

`nova-api` stands for its siblings: all but the four heat agents, which leave the pid file to an init
script, have its start and stop under other names.
`pc` is where the operation of the agent stands, between two of its commands; Pacemaker runs one
operation on a resource at a time. `owner` says whose process a number is: daemons and other
processes die, and begin with the numbers of the dead, between any two steps, so that
`kill -s 0` may succeed for a process that is not the daemon's. `late` holds the daemons whose
number the shell of `su` has still to write. That shell is in a session of its own: `CutOff`, the LRM
that kills an operation, may leave it alive, before its fork too (`waiting`). It then forks the daemon at some
later time (`LateFork`), while other operations are under way or none, and writes into whatever file is there
by then, or into one that `rm` has unlinked (`nameless`). SIGTERM and SIGKILL take effect by `Die`, at some
time; only SIGKILL is remembered (`killed`). `cut` is a history variable: some start was cut off from a
shell that had yet to fork or to echo. Only after that may a second daemon run, or one that nobody knows of.

### GaleraServer, MysqlHa

`GaleraServer` is external: which cluster a running mysqld belongs to, which databases its
directory holds, and which clusters have a primary component, that is a majority of the members
they had. A server that stops orderly leaves its cluster; one that is killed may take the majority along.
`MysqlHa` is the recipe on every host of the wave, cut into the steps between which a run can end: `Begin`
(the guards on the install flag), `Purge`, `StartInit` or `StartJoin`, `TouchFlag`. The package
installation between them has no other state. The `rm -f /root/#{install_flag}` of the purge names a
path that does not exist and removes nothing. The wait for the init node to be synced ends after a few
turns whatever the answer (`server.rb:260`), so it is no guard. `update_wsrep_urls` is taken to be "yes";
with "no", a rerun renders `my.cnf` without the addresses of the cluster. After the wave, `Manage` is
the clone of `pacemaker-mysql.rb`, and `AgentStart` and `AgentStop` are Pacemaker's calls of `mysql2`:
its stop says "Trying SIGKILL..." and kills nothing, and reports success with mysqld alive, which here is a
`Leave` that comes later or never. The properties show the price of the design: once the init node has
its flag, an outage of the whole tier is never repaired by a rerun or by Pacemaker (`OutageIsForGood`),
and the purge of a member that a cut run left without flag can be such an outage for two members.

### SetupWave

Two check-then-act resources of one run list, in the order of `<set7>os-compute-setup,os-image-upload</set7>`
(`icehouse.ha.xml:133`), on several hosts that have both roles and `/root/openrc`. Of the shipped files,
`icehouse.ha.xml` gives these two roles to one host each, and `icehouse.pacemaker.xml` the first to the three
hosts of its `set6`; such hosts make a part of the calls modelled here, in the same order. Each client call is a
step: `FloatingIpList` (the `not_if`), `NetList`, `NetCreate`, `SubnetList`, `SubnetCreate` of
`add_floaters.py`; `Show`, `UploadPart`, `ImageCreate` of the image provider. A call may fail, a creation also
after its effect. `decoy` is a network whose name has the pool's as a part, which `grep` takes for it. The guard
of `nova-setup.rb:120` looks for a floating address of any network (`addresses`), and the script for the cidr in
the subnets of all networks (`lookalike`); tenants change both at any time (`Tenants`, `OtherSubnets`), and
`found` remembers whether a run took the pool's or another's for the subnet it was to make. `start` is the
cidr's own address, with which its allocation pool starts (`add_floaters.py:94`). What Neutron does with it is
external, and not in the repository: it lists a cidr without its host bits, so that the script recognises only a
subnet whose cidr had none; and it refuses an allocation pool with the network's or the gateway's address in it,
so that it accepts only a cidr with host bits beyond the gateway's (`Accepted`). A subnet of a cidr without host
bits can then only have been made otherwise (`ByHand`), one of a cidr with them is made once, and each later run
fails. `met` and `troubled` are history variables: who was creating the same object at the same time, and whose
calls failed. Three comments of the script are true only in part: "we only ever create one" (`:74`) needs that
no other host runs; "we failed to query the quanutm api, we'll ignore this error" (`:80`) is not what happens,
since a `net-list` that fails ends the shell line with status 0 and the script goes on to a `subnet-create` that
fails the chef run; and a cidr "to start at .11" is the one that fails each later run. The properties about
failures and clean runs name these cases. No shipped environment sets the `ipv4_cidr` that turns this resource
on; the cookbook's attributes and tests do.

## 3. What is checked

All runs finish in about a minute or two with two workers. Deadlock checking is off where a system
may stop: the script, the tools and the recipes run a bounded number of times and then nothing is left
to do. `PacemakerAgent` and `OcfAgent` never stop and have it on.

| Run | Instance | What it shows |
|---|---|---|
| `Install` | 2 hosts, waves {n1}, {n1,n2}, 2 bootstraps, 2 runs with 3 command lines, 2 versions of the XML file | `WaveBarrier`, `OverlapNeedsBrokenRun`, `RolesAndEnvironmentAgree`; the composition implements `WaveOrder`; `FailureIsNoticed` although no process need return, with the bound `ReturnIsPolled`; `EveryRunEnds` if they do |
| `XMLParser` | 2 hosts with up to 2 items; 2 sets with no element, one of up to 2 items or a repetition of 3, or two; 5 orders; up to 2 attributes with names and values of up to 2 parts, marks in values, templates of up to 2 words | `WavesAreTheSets`, `EnvironmentIsFilledIn` |
| `L3Migrate` | 3 agents, 2 routers, 2 instances, 2 runs, 2 flips, 1 fault | `UnhostedIsExplained`, `LostStaysLost`, `RecoveryIsNoticed`, `FinishedRunEvacuates`, `StepsAreBounded` |
| `L3Rebalance` | 4 agents, 5 routers, 1 fault | `PairsEndLevel`, `NeverUphill`, `UnhostedIsExplained` |
| `DhcpReplicate` | 2 agents, 3 networks, 2 instances, 1 fault | `FinishedRunReplicates` |
| `Register` | 2 hosts, 4 converges, 1 fault, any crashes | `ConvergedRegisters`, `NothingTwice`, `SettledIsStable`, `OrphanedCredentialsStay` |
| `Pacemaker` | 5 resources, 2 virtual IPs, 5 interruptions, fairness | `EndedMeansConfigured`, `StopsAreForGood`, `OnlyHalfClonedBlocks` |
| `OcfAgent` | 3 process numbers, 2 polls, 1 shell of a start cut off before its fork, fairness | `OneDaemon`, `AbsenceIsTrue`, `LostIsLost`, `StopEnds` |
| `MysqlHa` | 3 hosts, 2 faults, fairness | `ClustersAreCounted`, `DatabaseSurvives`, `OutageIsForGood`, `InstallSettles` |
| `SetupWave` | 2 hosts, 4 converges, 2 failing calls, all attributes, tenants and an administrator | `SecondNeedsARace`, `BlockedStays`, `CleanRunDelivers`, `FailuresAreExplained` |

Two runs state what a text of the repository says, and TLC finds it violated by the code:

| Run | Text | What the code does |
|---|---|---|
| `L3Rebalance_doc` | "The number of routers on each l3 agent will be as close as possible" (`neutron-ha-tool.py:121-122`) | agents are sorted by the length of their id and only paired agents exchange routers (`:164-176`) |
| `Register_grant` | "Role '...' already granted to User '...'" (`register.rb:248`) | logged when the role does not exist, as `nil == nil` (`:237`, `:247`) |

### Why the bounds are enough

* `MaxRuns = 2` in `Install`: one broken run with orphans and one rerun; a third run meets
  the same orphans. A wave with one host and one with both, so that a host is converged twice and a
  barrier has something to hold back. 2 versions: the orphan's and the rerun's. The command lines are
  one that does all, one that uploads what an earlier run made, and one without bootstrap. The
  theorems below are for any of them.
* `XMLParser`: a repeated and a blank item, a role of two sets, a set without a host, a set named
  twice, a set with two elements or none and an element without text all occur; and a key inside a key, a value
  or a word, a value that is empty or has a mark in it, a word that no key has to do with, and one that occurs twice.
  The two halves of the parser read different elements of the file and meet nowhere.
* 3 agents in `L3Migrate`: two dead ones, so that the loop over agents turns twice, and a
  target; or one dead and two targets. 2 flips: one agent comes back, another goes down. Two
  routers: the loop over routers goes on after a failed move. One fault and crashes at every
  point, for each loss needs one of them only.
* 4 agents in `L3Rebalance`: two pairs, each met twice, and 5 routers, so that no even
  distribution exists. The doc run has 3, where the middle agent belongs to no pair.
* 3 networks in `DhcpReplicate`: one listed, one deleted and one created during the run.
* 4 converges of 2 hosts in `Register`: both race, both run again; one fault can hit any call.
* 3 processes in `OcfAgent`: a lost daemon, the one started after it, and a process that took the
  number of a third. 2 polls: the wait ends by the count, or by a daemon that dies in between. One shell that
  outlives its start before its fork: it forks and echoes under a later start or stop. The theorems are for any number.
* 5 interruptions in `Pacemaker`: as many as there are resources, so that each can be left in any state a
  cut-off run leaves. One address is a part of the other's text, and the hidden one is set up second:
  the other way round hides nothing.
* 3 hosts in `MysqlHa`: two members without the third are a majority, one is not. 2 faults: a cut
  run and a crash, or two cut runs, which can make three clusters.
* 4 converges of 2 hosts in `SetupWave`: both race, both run again; 2 failing calls hit any two. One address and
  one subnet of other networks: the code only looks whether there is any.

Symmetry is used only in runs without liveness, over sets of model values that no definition
tells apart.

### Fairness, and why the code justifies it

* `InstallRun!InstallFairSpec`: `WF(ScriptStep)`. The script is a loop with a one second sleep;
  nothing but its end stops it. Nothing in the code bounds a `knife bootstrap`, so it has no fairness;
  `EveryRunEnds` has it as an explicit hypothesis instead (`WF_vars(KnifeReturns) => ...`), and
  `FailureIsNoticed` does not need it. The operator's other phases have none.
* `MysqlHa!FairSpec`: `WF(Recipe(n))` for each host. A chef run goes on, and the operator starts a failed one
  again, which is an assumption about the operator as below. Pacemaker and its agent have none.
* `OcfAgent!FairSpec`: `WF(Script)`. An operation is a process that is scheduled, and its waits are
  sleeps of a second. Daemons need not die and the LRM need not cut anything off.
* `PacemakerAgent!FairSpec`: `WF(Step)`, a chef run goes on, and `WF(StartRun)`, which is an
  assumption about the operator: the script is run again after it failed. It is not in the
  code; `OnlyHalfClonedBlocks` says what that operator gets.

## 4. What is proved

TLAPS proves the following for every value of the constants that satisfies the named assumptions of the modules
(`CommandsAssumption`: waves are finite non-empty sets of hosts, which `CommandsAreWaves` proves of the code
that makes them; `FileAssumption`, `TextAssumption`, `InstallAssumption`, `ServerAssumption`, `ToolAssumption`,
`DhcpAssumption`, `AgentAssumption`, `OcfAssumption`, `FaultsAssumption`, `InitHostAssumption`,
`SetupAssumption`, `RegisterAssumption`, `NoRouterAssumption`: types, finiteness, that Chef runs a recipe once
in a run list, that there is a DHCP agent).

* `InstallProofs`, of `Bootstrap`: `TypeCorrect`, `BarrierHolds`, `FinishedIsTrue`, `OverlapExplained`,
  `ReturnsArePolled`, `Implements`. `WaveBarrier` alone is not inductive: that a wave is entered only when the
  one before is complete needs `Accounted` (each host of the wave is not reached yet, in
  `dict`, or ended with 0) and `Behind` (all earlier waves of the run are complete); that an
  orphan cannot disturb a later run needs `Frontier` (nothing beyond the current run and wave
  was started, and an older run is not "running"). `EnterWaveIInv` is the common part of
  starting the script and of ending the last pass. `ReturnsArePolled` is the part of `FailureIsNoticed` that
  is about steps and not about fairness: `Turns` counts what is left of the launches and of the pass, and one more pass,
  and falls with every step of the script until the host is polled. `Implements` shows that each step is a
  step of `WaveOrder` or a stutter, from the same invariant.
* `InstallProofs`, of `InstallRun`: `InstallBootstraps`, the composition implements `Bootstrap`, so every
  theorem above holds of it; `InstallTypeCorrect`; `EnvironmentIsOurs`. `RInv` adds to the invariant of
  `Bootstrap` what the phases before have done for the run under way (`Prepared`), and that nobody
  uploads while a careful bootstrap is under way (`Undisturbed`). A bootstrap that said "Install finished" has no process left that could fetch anything (`FinishedIsTrue`),
  which is why only those that ended badly are excepted.
* `InstallProofs`, of `RoleSequence`: `WavesCorrect`, `CommandsAreWaves`. What a recursive function computes for
  every file needs an induction, and the library's induction theorems are out of the prover's reach
  since they take the statement as a parameter. `Least` (a nonempty set of naturals has a least element, from
  the well-foundedness of `<`) gives one about sets: `Induction`. A recursive function is in TLA+ some function
  that satisfies its equation, if there is one; `Recursion` says that there is, for any loop whose turns keep a set X, and
  `ListIs`, `DictsAre`, `WavesAre` then give the equations of the three loops, and `Parses` that every element they
  read is there. Over them:
  `StringToListIs` (each item once, in the order of first mention), `AddRoleFits` (the invariant of the loop over the roles,
  `DictsFit`: each host has what it should have got of the roles so far, and `nodes_dict` holds who got any),
  `LengthenedFits` (that of the loop over the sets, `WavesFit`). `copy_list` of a list that has no repetitions
  changes nothing about its order (`Reordered`), and the null dictionary of each set is what keeps its roles out of the next.
* `InstallProofs`, of `EnvironmentText`: `EnvironmentCorrect`, without a hypothesis on keys, values and words.
  `AlignedStep` follows `str.replace` past a mark: reading on after a mark is reading what follows by itself
  (`Aligned`), since no key has the mark and no occurrence can begin before it and end after it
  (`EndsAfterMark`). So `replace` works on two texts with a mark between them as on each (`Split`), on a template
  word by word (`ReplaceJoined`, by induction over its pieces), and all keys do (`EachByItself`, by
  induction over the keys). `WordFilled` is one word: a key that is no part of it changes nothing
  (`ReplaceAbsent`), the key that it is puts in the value (`ReplaceKey`), and `LeftAlone` is what that needs at each turn.
* `L3MigrateProofs`: `TypeCorrect`, `UnhostedExplained`, `LossIsPermanent`, `RecoveryNoticed`,
  `RunsAreBounded`, `FirstRunEvacuates`. The invariant adds `WorkOK` (an instance works on real routers and agents) to the
  property; `RebindEffect` says what a call of Neutron can do to the bindings and is all the rest uses.
  `RecoveryNoticed` rests on a fact of cardinalities: a subset of a finite set that is not
  smaller is the set. `RunsAreBounded` adds that the agents and routers left are finite sets, and
  takes one element at a time. `FirstRunEvacuates` needs `Alone` (no other instance has
  started) and `Evacuates`: a router on an agent found dead is still to come, on an agent not yet
  visited or in the list in hand, and targets come from the agents found alive.
* `NeutronToolProofs`, of `L3Rebalance`: `TypeCorrect`, `UnhostedExplained`, `MovesAreDownhill`,
  `RunLevelsPairs`. The last two are about steps and need to know the whole loop: that no router goes uphill
  in its second half rests on what the first half did. The pairs of the list (`Mirror`) are met twice each, and the
  agents of a pair are `Full` or not by what was listed of them, which nothing changes. `Pairs` says that a
  pair is as it was listed before the turn that has its fuller agent as the high one, level after it, and on
  the way during it (`Moving`: the counts kept are those of Neutron, and the routers not yet visited are those
  still there). `NothingToMove` is the other turn of the pair, which gives up at once. `Loop` ties `i`, the
  index the code keeps by hand, to the turn; with an odd number of agents `continue` skips its increment
  and it stays in the middle, so the equality holds for even numbers only. `Listed` says that the lists are
  fresh when the loop begins. `CountFacts`, `Rebound` and `OtherPairs` are what each move needs.
  `MovesAreDownhill` is for any number of agents, `RunLevelsPairs` for even ones, as the properties are.
* `NeutronToolProofs`, of `DhcpReplicate`, whose names are its own so that one module can extend both:
  `DhcpTypeCorrect`, `EachRunReplicates`. The invariant says of each run that every network it listed
  and that still exists is on every agent it has behind it,
  and missing on the one in hand only if it is still to be tried.
* `IdentityRegisterProofs`: `TypeCorrect`, `ConvergedRegister`, `TurnsRegisterOnce`, `IdsSuffice`,
  `SettledStable`, `OrphansStay`. The steps of the recipe come in six forms (`Forms`): a start, a crash,
  a look-up, EC2 credentials issued, and a resource that ends with or without a failed call; the proofs go by
  form, and `RecipeFacts` is the table of the resources and their look-ups. The invariant needs:
  * `Truth` and `OnTrack`: what a look-up found is there, since Keystone takes nothing back, and a run without
    failed calls has behind it only resources that are there, so that it finds all it relies on. A create
    that another host was faster with is swallowed and yet leaves the object there.
  * `Owed`: the delicate part. Several hosts may each create the service, `service-list` then returns the
    one with the smallest id, and that may be one that came later than the endpoint was made for. Every service
    therefore has an endpoint, its own or that of a smaller id, or some host that is not yet clean will look
    at it. Without this `SettledStable` is out of reach: all hosts clean would not mean that the first
    service has its endpoint.
  * `FindsAll`: once settled, every look-up under way finds what it looks for.
  * `TakingTurns`: without an overlap one run is on, and what its last look-up missed is still missing.
  * `Counted`: objects plus the hosts that are about to make another are never more than the hosts.
    It bounds ids and counters, so that the bounds of the model keep no host from a step (`IdsSuffice`).
* `PacemakerAgentProofs`: `TypeCorrect`, `EndIsConfigured`, `StoppedForGood`. The strengthening has three parts: `Sane`, what a resource can look like
  after any run was cut off; `Progress`, what is known of the resource in hand before each of
  its commands; `Behind`, that the resources before it in the list are configured.
  `StoppedForGood` is the part of `OnlyHalfClonedBlocks` without fairness: `Progress` leaves no other command that can fail.
  `ShownStays` says that no step hides a virtual IP that was shown.
  `ProceedKeepsIInv` and `AbortKeepsIInv` are the two ways a command ends, and `StepIInv` has one
  step per command.
* `OcfAgentProofs`: `TypeCorrect`, `AtMostOneDaemon`, `AbsenceHolds`, `LossIsForGood`. While no start
  is cut off from a shell of `su` that has yet to fork or to echo (`Uncut`), no such shell is left over, and the number of every working daemon is
  in the file or with the one shell that will write it into an empty file (`NumberKept`,
  `ShellKnown`); no daemon works where start forks and where stop removes the file (`NoneBefore`);
  stop signals the process that the file names (`SamePid`). `LossIsForGood` needs no invariant but
  the types: each step that could find a number takes it from the file or from a shell.
* `MysqlHaProofs`: `TypeCorrect`, `OneClusterPerCut`, `DatabaseIsKept`, `NothingFormsAgain`. `Counted` says where
  the init node stands: before its start at most as many clusters as cuts; `Settled`, at most one more.
  `FlaggedIsIdle` keeps flagged hosts out of the recipe, `Formed` speaks only of clusters that
  were formed. The databases are kept on the init node itself: without a cut there is one cluster,
  and a flagged host with data (`HoldsData`) can have no other.
* `SetupWaveProofs`: `TypeCorrect`, `TwiceOnlyByARace`, `BlockedForGood`, `CleanRunsDeliver`,
  `FailuresExplained`. The invariant is `Overlap`, two hosts about to create one thing
  know of each other; `Relied`, what a host without failed calls may rely on before each of its calls
  unless it met another; and `Stored`, what Neutron's objects need of each other.

Only model-checked: everything under fairness (`FailureIsNoticed`, `EveryRunEnds`, `StopEnds`, `InstallSettles`,
`OnlyHalfClonedBlocks`), which is beyond the prover, as is ENABLED. The two properties of the runs that expect a
violation are false. Every other property of a run has its theorem. The type invariants are proved too, and TLC
finds them true on the instances of the runs; only that of `L3Rebalance` is listed in one. The invariants that
the proofs of `L3Rebalance` and `IdentityRegister` use were checked by TLC on the instances of their runs first,
that of `L3Rebalance` also with 3 agents, for the odd loop.

## 5. What is not modelled, and why

* qpidd: when it is promoted and demoted, and what its brokers then do, is decided by Pacemaker and by
  qpidd itself; a model would be mostly of those. Its start runs the init script of the service (`qpidd:242`),
  unlike that of the agents in `OcfAgent`.
* Swift rings and disks: no shipped installation file uses the roles, and the ring is
  `swift-ring-builder`'s.
* The nova branch of `add_floaters.py`: `nova-setup.rb` calls it without the `--pool` that its parser
  requires (`add_floaters.py:109-111`), so it only fails.
* Of the OCF agents: `validate-all`, which only reads, the checks of ports and AMQP connections that
  some agents add to monitor, and how long a process lives after SIGKILL (`nova-api:340`). Of `mysql2`:
  replication, notify and promotion, which the clone of `pacemaker-mysql.rb` never uses.
* The templated catalog branch of `registration.rb`: it writes no Keystone object.
* `l3_agent_check` and the dry runs (`--noop`): they only read. The monitoring plug-ins as well.
* The text of commands and logs, TLS and authentication.
* keepalived, DB2 and Pacemaker itself: other programs, configured here.
* Third-party cookbooks, the declarative recipes of the services, data files, and
  straight-line shell scripts. `get-pip.py`, by far the longest Python file here, is an encoded
  archive of another program.

## 6. What could come next

1. `L3Migrate` with `L3Rebalance` on one server; `PacemakerAgent` with `OcfAgent` (delete and create
   while the daemon is being stopped).
2. The proofs of a composition of `L3Migrate` with `L3Rebalance`, if it is modelled: `UnhostedIsExplained` should
   carry over, `PairsEndLevel` should not.
3. `update_wsrep_urls` set to "no" in `MysqlHa`, and a network between the hosts that can be cut.
