SPECIFICATION Spec
CONSTANTS
  a = a  b = b  c = c  s = s  load = load  batch = batch  t1 = t1  t2 = t2
  Threads <- ThreadsV
  Callers <- LoadBatch
  Urls <- UrlsV
  Asks <- AsksShared
  PageRefs <- RefsV
  Modules <- ModulesV
  Imports <- ImportsV
  MaxJobs = 3
PROPERTY SecondTakeMisses
