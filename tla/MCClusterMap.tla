---------------------------- MODULE MCClusterMap ----------------------------
EXTENDS ClusterMap

CONSTANTS a, b, c

MCLists == << <<a, b>>, <<b>> >>
=============================================================================
