SPECIFICATION Spec
CONSTANTS
    Mandatory = {host}
    Business = {secret}
    Folders = {logs, output}
    LogFolder = logs
    Output = output
    Tables = {t1}
    MaxChanges = 2
    None = None
INVARIANTS
    IInv
    ServedMeansReady
    ResultsAreOfTheirReport
