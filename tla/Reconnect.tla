----------------------------- MODULE Reconnect ------------------------------
(***************************************************************************)
(* A connection of the connections map: FTP or SFTP.                       *)
(***************************************************************************)
EXTENDS FtpControl, SftpSession

VARIABLE protocol

vars == <<opVars, ftpVars, sftpVars, protocol>>

Init == OpsInit /\ FtpInit /\ SftpInit /\ protocol \in {"ftp", "sftp"}

Ftp  == protocol = "ftp"  /\ FtpNext  /\ UNCHANGED <<sftpVars, protocol>>
Sftp == protocol = "sftp" /\ SftpNext /\ UNCHANGED <<ftpVars, protocol>>
Next == Ftp \/ Sftp

Goes1(t) == \/ protocol = "ftp"  /\ FtpGoes(t)  /\ UNCHANGED <<sftpVars, protocol>>
            \/ protocol = "sftp" /\ SftpGoes(t) /\ UNCHANGED <<ftpVars, protocol>>

Spec == Init /\ [][Next]_vars /\ \A t \in Tasks : WF_vars(Goes1(t))

(* Every operation ends: none waits for ever for the connection's mutex or *)
(* the session's lock, whoever reconnects, fails to, or is aborted.        *)
OperationsEnd == \A t \in Tasks : pc[t] # "idle" ~> pc[t] = "idle"
=============================================================================
