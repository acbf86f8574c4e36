SPECIFICATION RunnersSpec
CONSTANTS
    a = a
    b = b
    mirror = mirror
    folder = folder
    h1 = h1
    h2 = h2
    j1 = j1
    j2 = j2
    None = None
    Contents = {a, b}
    Label <- MCLabel
    Sources = {mirror, folder}
    Signed = {mirror}
    Hosts = {h1, h2}
    Jobs = {j1, j2}
    Stories <- MCStories
    Version <- MCVersion
    Compatible = {a, b}
    Releases <- MCReleases
    Catalogs <- MCCatalogs
    Values = {"v", "w"}
    Writes = {"w"}
    Plots <- ScriptPlots
    TTL = 1
    MaxClock = 2
PROPERTIES
  RunsApprovedText
CHECK_DEADLOCK FALSE
