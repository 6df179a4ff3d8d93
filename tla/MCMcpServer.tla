------------------------------ MODULE MCMcpServer ------------------------------
EXTENDS McpServer
MCServers == 1..2
=============================================================================
