---- MODULE MCPonsIndex ----
EXTENDS PonsIndex, TLC
====
