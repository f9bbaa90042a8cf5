------------------------- MODULE MCJarvisDispatch -------------------------
(* JarvisDispatch on a small instance; the bounds are in the .cfg files.   *)
EXTENDS JarvisDispatch
=============================================================================
