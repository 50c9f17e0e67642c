----------------------------- MODULE AdoptionMC -----------------------------
(***************************************************************************)
(* Adoption on small directories for TLC.                                  *)
(***************************************************************************)
EXTENDS Adoption, TLC

CONSTANTS log1, data1, link2, run1, run2, A, B, X

\* run1 holds a log and a data file, run2 a log that is a symlink.
MCFiles     == {log1, data1, link2}
MCRuns      == {run1, run2}
MCOrder     == <<data1, log1, link2>>
MCRunOrder  == <<run1, run2>>
MCRunOf     == (log1 :> run1) @@ (data1 :> run1) @@ (link2 :> run2)
MCPaths     == {"log1", "log1.partial", "data1", "data1.partial", "link2", "link2.partial",
                "log1.partial.partial"}
MCDst       == (log1 :> "log1") @@ (data1 :> "data1") @@ (link2 :> "link2")
MCPart      == (log1 :> "log1.partial") @@ (data1 :> "data1.partial")
               @@ (link2 :> "link2.partial")
\* data1 is called "log1.partial": the name log1 is written under.
MCDstPartial == (log1 :> "log1") @@ (data1 :> "log1.partial") @@ (link2 :> "link2")
MCPartPartial == (log1 :> "log1.partial") @@ (data1 :> "log1.partial.partial")
                @@ (link2 :> "link2.partial")
MCOriginal  == (log1 :> A) @@ (data1 :> B) @@ (link2 :> A)
MCLogs      == {log1, link2}
MCAll       == {MCFiles}
MCEdited    == {MCFiles, {log1, link2}}

=============================================================================
