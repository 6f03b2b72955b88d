--------------------------- MODULE MCPostgresStore ---------------------------
EXTENDS PostgresStore
MCConns == 1..3
MCProcOf == <<1, 1, 2>>
MCKeys == 1..2
=============================================================================
