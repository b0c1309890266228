----------------------------- MODULE NetCompat ------------------------------
(***************************************************************************)
(* select of src/wii/netcompat.c over the net_select of the console.       *)
(*                                                                         *)
(* A program names a socket by its handle in the C library, the net_ calls *)
(* by an index of their own.  A table maps every open handle to its device *)
(* and the device's index.                                                 *)
(***************************************************************************)
EXTENDS Integers, FiniteSetsExt

NotOpen == -1

\* Mutant: the handle is taken for the index.
ToNetFd_Identity(table, fd) == IF fd \in DOMAIN table THEN fd ELSE NotOpen

ToNetFd(table, fd) ==
  IF fd \in DOMAIN table /\ table[fd].device = "soc" THEN table[fd].index ELSE NotOpen

\* The indices select puts into the set for net_select, for the handles below nfds.
Asked(table, nfds, fds) ==
  { ToNetFd(table, fd) : fd \in { f \in fds : f < nfds } } \ {NotOpen}

\* Mutant: as in libogc's poll, the number of sockets is passed for the highest index.
NetNfds_Count(table, nfds) == Cardinality({ f \in 0 .. nfds - 1 : ToNetFd(table, f) # NotOpen })

\* The first argument of net_select.
NetNfds(table, nfds) == Max({0} \cup { ToNetFd(table, f) : f \in 0 .. nfds - 1 }) + 1

\* What net_select looks at.
Watched(table, nfds, fds) == { i \in Asked(table, nfds, fds) : i < NetNfds(table, nfds) }

\* What select returns, given the indices that net_select found ready.
Selected(table, nfds, ready) ==
  { fd \in 0 .. nfds - 1 : ToNetFd(table, fd) # NotOpen /\ ToNetFd(table, fd) \in ready }
=============================================================================
