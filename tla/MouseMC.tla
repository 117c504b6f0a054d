--------------------------------- MODULE MouseMC ---------------------------------
(* The application of Lab 7 with the devices of HidMC. *)
EXTENDS HidMC, MouseProperties
================================================================================
