SPECIFICATION MemSpec
CONSTANTS
    Jobs={"j1","j2"}
    MaxExchanges=5
    WindowSize=1
    MaxOpen=2
    MaxRebuilds=1
    MaxLost=1
    NoRow=NoRow
PROPERTIES SummaryNeverRegresses
CHECK_DEADLOCK FALSE
