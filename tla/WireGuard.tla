------------------------------ MODULE WireGuard -----------------------------
(***************************************************************************)
(* The WireGuard interfaces of the host, as the scripts drive them: "wg    *)
(* set", "wg show" and "systemctl restart | stop wg-quick@".  External     *)
(* code, modelled from its use in services/wireguardcmd.py and scripts/.   *)
(***************************************************************************)
EXTENDS Database

VARIABLE wg   \* wg[s][k] is the AllowedIPs of peer k; the domain: interfaces up

NoAddress == 0
AllowedIps == HostAddress \cup {NoAddress}

WireGuardTypeOK ==
  /\ DOMAIN wg \subseteq Server
  /\ \A s \in DOMAIN wg : IsTable(wg[s], Key, AllowedIps)

WireGuardInit == wg = << >>

isWGserverUp(s) == s \in DOMAIN wg

\* An address belongs to one peer of an interface: setting it takes it from the others.
Allow(peers, k, a) ==
  [j \in DOMAIN peers \cup {k} |->
     IF j = k THEN a ELSE IF peers[j] = a THEN NoAddress ELSE peers[j]]

\* A command on an interface that is down fails and changes nothing.
addWGPeer(s, k, a) ==
  IF isWGserverUp(s) THEN wg' = [wg EXCEPT ![s] = Allow(@, k, a)]
                     ELSE UNCHANGED wg

\* Removing a peer that is not there succeeds.
removeWGPeer(s, k) ==
  IF isWGserverUp(s) THEN wg' = [wg EXCEPT ![s] = Delete(@, {k})]
                     ELSE UNCHANGED wg

stopWGserver(s) == wg' = Delete(wg, {s})

(* The peers an interface has after its configuration is read: every key of it,
   and of the keys that share an address the one whose section comes last. *)
Loaded(conf) ==
  {peers \in [{c[1] : c \in conf} -> AllowedIps] :
     /\ \A k \in DOMAIN peers : peers[k] = NoAddress \/ <<k, peers[k]>> \in conf
     /\ \A c \in conf : \E k \in DOMAIN peers : peers[k] = c[2]
     /\ \A j, k \in DOMAIN peers : j # k /\ peers[j] = peers[k] => peers[j] = NoAddress}

(* wg-start.bash succeeds.  Restarting an interface that is up first saves its
   running peers over the installed configuration (SaveConfig) and reads those. *)
restartWGserver(s, conf) ==
  IF isWGserverUp(s) THEN UNCHANGED wg
  ELSE \E peers \in Loaded(conf) : wg' = Put(wg, s, peers)

=============================================================================
