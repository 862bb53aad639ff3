-------------------------- MODULE MCTransferQueue --------------------------
(* Small instances of TransferQueue for TLC. *)
EXTENDS TransferQueue

LimitRecord(plain, sftp, dl, ul) ==
    [g \in Gate |-> CASE g = "plain" -> plain [] g = "sftp" -> sftp
                      [] g = "Download" -> dl [] OTHER -> ul]

(* One that narrows everything (the 0 is clamped to 1), one that widens a   *)
(* pool and lifts a direction's cap again.                                  *)
MCLimitChoices == {LimitRecord(0, 1, 1, 0), LimitRecord(1, 2, 0, 1)}

(* Two downloads through different pools, which only the download cap can   *)
(* hold apart, and a download and an upload that share the plain pool.       *)
MCRequests ==
    LET Job(dir, conn) == [dir |-> dir, conn |-> conn] IN
    \E a \in Connections \ SftpConnections, b \in SftpConnections :
        \/ request = <<Job("Download", b), Job("Download", a)>>
        \/ request = <<Job("Download", a), Job("Upload", a)>>

MCInit   == Init /\ MCRequests
MCSafety == MCInit /\ [][Next]_vars
MCSpec   == MCSafety /\ Fairness /\ OpensEnd
=============================================================================
