---------------------------- MODULE MCDiskEvents ----------------------------
(* An opener, a program that flushes, and an administrator who configures    *)
(* the polling and removes the disk.                                         *)
EXTENDS DiskEvents, TLC

CONSTANTS opener, flusher, admin, media, eject

MCOps == (opener :> {"clear", "block"}) @@ (flusher :> {"clear", "flush"})
          @@ (admin :> {"store", "default", "del"})
MCMasks == {{media}, {media, eject}}
=============================================================================
