--------------------------- MODULE MCPacemakerAgent ---------------------------
(* The roles of set3 of icehouse.pacemaker.xml and two of the resources of  *)
(* pacemaker-endpoints-config.  That file gives HAPROXY hosts of its own;   *)
(* here one cluster has all of them, as where both host lists are the same. *)
(* HAPROXY's address is a part of QPID's, as 10.0.1.12 is of 10.0.1.121.    *)
EXTENDS PacemakerAgent

MCResource == {"MYSQL", "QPID", "HAPROXY", "NOVA_API", "QUANTUM-AGENT-L3"}

MCType == [r \in MCResource |->
    CASE r = "QPID"             -> "master"
      [] r = "QUANTUM-AGENT-L3" -> "active/passive"
      [] OTHER                  -> "clone"]

MCHasVip  == {"QPID", "HAPROXY"}
MCWithin  == {<<"HAPROXY", "QPID">>}
MCMysql   == {"MYSQL"}
MCRunList == <<"MYSQL", "QPID", "HAPROXY", "NOVA_API", "QUANTUM-AGENT-L3">>
==============================================================================
