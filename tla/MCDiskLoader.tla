---------------------------- MODULE MCDiskLoader ----------------------------
(* Two disks with everything, one without loader.conf, one that does not mount. *)
EXTENDS DiskLoader

=============================================================================
