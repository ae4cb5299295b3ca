---------------------------- MODULE MCVulkanLayer ----------------------------
(* Instances of VulkanLayer for TLC.                                           *)
EXTENDS VulkanLayer

CONSTANTS d1, d2, q1, q2
===============================================================================
