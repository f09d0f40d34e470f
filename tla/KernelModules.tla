----------------------------- MODULE KernelModules -----------------------------
(***************************************************************************)
(* The modules that are loaded into the kernel and leave it again, in one  *)
(* behaviour: fortune.ko with seqfile.ko, the file system, or the modules  *)
(* that export symbols.  They share nothing but the kernel.                *)
(***************************************************************************)
EXTENDS FortuneLoad, FsModule, ExportModules

VARIABLE lab   \* whose modules are used: laboratory 3, 4 or 7

kernelVars == <<vars, fsVars, exportVars, lab>>

KernelInit == Init /\ FsInit /\ ExportInit /\ lab \in {3, 4, 7}

Lab3(A) == lab = 3 /\ A /\ UNCHANGED <<vars, fsVars, lab>>
Lab4(A) == lab = 4 /\ A /\ UNCHANGED <<fsVars, exportVars, lab>>
Lab7(A) == lab = 7 /\ A /\ UNCHANGED <<vars, exportVars, lab>>

KernelNext == Lab3(ExportNext) \/ Lab4(Next) \/ Lab7(FsNext)

\* The fairness of FortuneLoad; the others claim nothing that needs any.
KernelSpec ==
  /\ KernelInit /\ [][KernelNext]_kernelVars
  /\ \A m \in Modules :
       WF_kernelVars(Lab4(MakeDir(m) \/ CreateFile(m) \/ MakeSymlink(m) \/ Loaded(m)
                          \/ RemoveSymlink(m) \/ RemoveFile(m) \/ Drain(m)
                          \/ RemoveDir(m) \/ Vfree(m)))
  /\ \A u \in Users : WF_kernelVars(Lab4(Leave(u)))

===============================================================================
